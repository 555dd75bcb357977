------------------------ MODULE RuntimeSessionProofs ------------------------
(***************************************************************************)
(* Theorems about RuntimeSession, for any number of sessions and requests, *)
(* any times and any number of crashes: a session that ended stays as it   *)
(* ended, and Core runs for the session whose record says so.  And about   *)
(* the page that shows the session and the run on it (MCJudgePage): it     *)
(* shows the latest session and what is true of its run, and the steward's *)
(* sign-in is earned.                                                      *)
(***************************************************************************)
EXTENDS RuntimeSession, MCJudgePage, TLAPS

States == Live \cup Ended \cup {"STOPPING"}

\* A stop of s among the names of executions.
Told(s, names) == \E name \in names : name.act = "STOP" /\ name.s = s

\* What a step may do to a record that a request has read.
Grows(s) ==
  stored[s] \in Session =>
    /\ stored'[s] \in Session /\ stored'[s].profile = stored[s].profile
    /\ stored'[s] = stored[s] \/ stored[s].rev < stored'[s].rev

\* What TerminalIsFinal says of a step.
Final ==
  \A s \in Sessions :
    stored[s] # Never /\ stored[s].state \in Ended => stored'[s] = stored[s]

-----------------------------------------------------------------------------
(* The reducer *)

\* A move to another state is an update of the session with the next revision.
LEMMA Moved ==
  ASSUME NEW old \in Session, NEW state \in States, NEW t \in Nat
  PROVE  /\ To(old, state, t) \in Session
         /\ To(old, state, t).state = state
         /\ To(old, state, t).rev = old.rev + 1
         /\ To(old, state, t).profile = old.profile
<1> DEFINE r == old.rev + 1
<1>1. r \in Nat
  BY DEF Session
<1>2. To(old, state, t) = [old EXCEPT !.state = state, !.updated = t, !.rev = r]
  BY DEF To
<1> HIDE DEF r
<1>3. To(old, state, t) \in Session
  BY <1>1, <1>2 DEF Session, States
<1>4. /\ To(old, state, t).state = state /\ To(old, state, t).rev = r
      /\ To(old, state, t).profile = old.profile
  BY <1>1, <1>2 DEF Session, States
<1> QED
  BY <1>3, <1>4 DEF r

\* So is the next idle deadline.
LEMMA Extended ==
  ASSUME SessionAssumption, NEW old \in Session, NEW state \in States, NEW t \in Nat
  PROVE  /\ Refreshed(old, state, t) \in Session
         /\ Refreshed(old, state, t).state = state
         /\ Refreshed(old, state, t).rev = old.rev + 1
         /\ Refreshed(old, state, t).profile = old.profile
<1> DEFINE next == To(old, state, t)
           until == Min2(t + IdleTime, old.hard)
<1>1. until \in Nat
  BY DEF Session, Min2, SessionAssumption
<1>2. Refreshed(old, state, t) = [next EXCEPT !.idle = until]
  BY DEF Refreshed
<1>3. /\ next \in Session /\ next.state = state /\ next.rev = old.rev + 1
      /\ next.profile = old.profile
  BY Moved
<1> HIDE DEF next, until
<1>4. /\ Refreshed(old, state, t) \in Session
      /\ Refreshed(old, state, t).state = next.state
      /\ Refreshed(old, state, t).rev = next.rev
      /\ Refreshed(old, state, t).profile = next.profile
  BY <1>1, <1>2, <1>3 DEF Session
<1> QED
  BY <1>3, <1>4

\* A failure ends a session that has not ended.
LEMMA Fails ==
  ASSUME NEW old \in Session, NEW t \in Nat
  PROVE  /\ FailSession(old, t) \in Session
         /\ FailSession(old, t).profile = old.profile
         /\ IF old.state \in Ended THEN FailSession(old, t) = old
            ELSE /\ FailSession(old, t).state = "FAILED"
                 /\ FailSession(old, t).rev = old.rev + 1
<1>1. CASE old.state \in Ended
  BY <1>1 DEF FailSession
<1>2. CASE old.state \notin Ended
  <2>1. FailSession(old, t) = To(old, "FAILED", t)
    BY ONLY <1>2 DEF FailSession
  <2>0. "FAILED" \in States
    BY ONLY DEF States, Ended
  <2>2. QED
    BY ONLY <1>2, <2>0, <2>1, Moved, old \in Session, t \in Nat
<1>3. QED
  BY <1>1, <1>2

\* So does the clock.
LEMMA Expires ==
  ASSUME NEW old \in Session, NEW t \in Nat
  PROVE  \/ Ticked(old, t) = old
         \/ /\ old.state \in Live
            /\ Ticked(old, t) \in Session
            /\ Ticked(old, t).profile = old.profile
            /\ Ticked(old, t).state = "EXPIRED"
            /\ Ticked(old, t).rev = old.rev + 1
<1>1. CASE old.state \in Live /\ Expired(old, t)
  <2>1. Ticked(old, t) = To(old, "EXPIRED", t)
    BY ONLY <1>1 DEF Ticked
  <2>2. "EXPIRED" \in States
    BY ONLY DEF States, Ended
  <2> QED
    BY ONLY <1>1, <2>1, <2>2, Moved, old \in Session, t \in Nat
<1>2. CASE ~(old.state \in Live /\ Expired(old, t))
  BY ONLY <1>2 DEF Ticked
<1> QED
  BY <1>1, <1>2

\* A request to stop moves only a session that lives.
LEMMA Stops ==
  ASSUME NEW old \in Session, NEW t \in Nat
  PROVE  \/ RequestStop(old, t) = old
         \/ /\ old.state \in Live
            /\ RequestStop(old, t) \in Session
            /\ RequestStop(old, t).profile = old.profile
            /\ RequestStop(old, t).state = "STOPPING"
            /\ RequestStop(old, t).rev = old.rev + 1
<1>1. CASE old.state \in Live
  <2>1. RequestStop(old, t) = To(old, "STOPPING", t)
    BY ONLY <1>1 DEF RequestStop
  <2>2. "STOPPING" \in States
    BY ONLY DEF States
  <2> QED
    BY ONLY <1>1, <2>1, <2>2, Moved, old \in Session, t \in Nat
<1>2. CASE old.state \notin Live
  BY ONLY <1>2 DEF RequestStop
<1> QED
  BY <1>1, <1>2

\* What reconcile makes of a session that was read: it is the session, or one with a
\* later revision that had not ended, does not ask to stop, and is ACTIVE on Core only
\* if it was or if its own Core is up.
Successor(s, old, new) ==
  /\ new \in Session /\ new.profile = old.profile
  /\ old.rev <= new.rev
  /\ new = old \/ (old.rev < new.rev /\ old.state \notin Ended /\ new.state # "STOPPING")
  /\ new.profile = "core" /\ new.state = "ACTIVE" =>
       old.state = "ACTIVE" \/ (health.status = "READY" /\ health.session = s)

LEMMA Reconciled ==
  ASSUME SessionAssumption, NEW s \in Sessions, NEW old \in Session, NEW t \in Nat,
         NEW new \in Seen(s, Ticked(old, t), t)
  PROVE  Successor(s, old, new)
<1> DEFINE session == Ticked(old, t)
<1>0. old.rev \in Nat /\ old.profile \in {"cloud", "core"} /\ old.state \in States
  BY DEF Session, States
<1>1. \/ session = old
      \/ /\ old.state \in Live /\ session \in Session /\ session.profile = old.profile
         /\ session.state = "EXPIRED" /\ session.rev = old.rev + 1
  BY Expires
<1>2. CASE session # old
  <2>1. session.state \notin Live \cup {"STOPPING"} /\ session.state # "ACTIVE"
    BY <1>1, <1>2 DEF Live
  <2>2. new = session
    BY <2>1 DEF Seen, CloudSeen
  <2> QED
    BY <1>0, <1>1, <1>2, <2>2 DEF Successor, Live, Ended
<1>3. CASE session = old
  <2> DEFINE failed == FailSession(old, t)
             ready == IF old.state = "STARTING" THEN Refreshed(old, "ACTIVE", t) ELSE old
  <2>1. Successor(s, old, old)
    BY <1>0 DEF Successor
  <2>2. Successor(s, old, failed)
    <3>1. /\ failed \in Session /\ failed.profile = old.profile
          /\ IF old.state \in Ended THEN failed = old
             ELSE failed.state = "FAILED" /\ failed.rev = old.rev + 1
      BY Fails
    <3> HIDE DEF failed
    <3> QED
      BY <1>0, <2>1, <3>1 DEF Successor
  <2>3. ASSUME health.status = "READY", health.session = s PROVE Successor(s, old, ready)
    <3>1. CASE old.state = "STARTING"
      <4>1. /\ ready \in Session /\ ready.profile = old.profile
            /\ ready.state = "ACTIVE" /\ ready.rev = old.rev + 1
        BY <3>1, Extended DEF States, Live
      <4> HIDE DEF ready
      <4> QED
        BY <1>0, <2>3, <3>1, <4>1 DEF Successor, Ended
    <3> QED
      BY <3>1, <2>1
  <2>4. CASE old.profile = "core" /\ old.state \in Live \cup {"STOPPING"}
    <3>1. new \in CoreSeen(s, old, t)
      BY <1>3, <2>4 DEF Seen
    <3>2. CASE old.state = "STOPPING" /\ health.status = "STOPPED" /\ MatchesCore(s)
      <4>1. new = To(old, "STOPPED", t)
        BY <3>1, <3>2 DEF CoreSeen, CompleteStop
      <4>2. "STOPPED" \in States
        BY DEF States, Ended
      <4>3. /\ new \in Session /\ new.profile = old.profile
            /\ new.state = "STOPPED" /\ new.rev = old.rev + 1
        BY <4>1, <4>2, Moved
      <4> QED
        BY <1>0, <3>2, <4>3 DEF Successor, Ended
    <3>3. CASE ~(old.state = "STOPPING" /\ health.status = "STOPPED" /\ MatchesCore(s))
      <4>1. \/ new = failed \/ new = old
            \/ health.status = "READY" /\ health.session = s /\ new = ready
        BY <3>1, <3>3 DEF CoreSeen, MatchesCore
      <4> QED
        BY <4>1, <2>1, <2>2, <2>3
    <3> QED
      BY <3>2, <3>3
  <2>5. CASE ~(old.profile = "core" /\ old.state \in Live \cup {"STOPPING"})
    <3>1. new = old \/ new = failed
      BY <1>3, <2>5 DEF Seen, CloudSeen
    <3> QED
      BY <3>1, <2>1, <2>2
  <2> QED
    BY <2>4, <2>5
<1> QED
  BY <1>2, <1>3

-----------------------------------------------------------------------------
(* Updates *)

\* An update that meets the revision it was made from puts the new session in its place,
\* and any other leaves the item alone.
LEMMA Saving ==
  ASSUME TypeOK, NEW s \in Sessions, NEW rev \in Nat, NEW new \in Session,
         Save(s, rev, new), stored[s] \in Session, rev <= new.rev,
         stored[s].profile = new.profile
  PROVE  /\ stored' \in [Sessions -> Session \cup {Never}]
         /\ stored'[s] \in Session
         /\ stored'[s].profile = stored[s].profile
         /\ \A x \in Sessions \ {s} : stored'[x] = stored[x]
         /\ IF new.rev # rev /\ stored[s].rev = rev THEN stored'[s] = new
            ELSE stored'[s] = stored[s]
         /\ \A x \in Sessions : Grows(x)
         /\ stored[s].rev <= stored'[s].rev
<1>1. new.rev \in Nat /\ stored[s].rev \in Nat
  BY DEF Session
<1>2. stored \in [Sessions -> Session \cup {Never}]
  BY DEF TypeOK
<1>3. CASE new.rev # rev /\ stored[s].rev = rev
  <2>1. stored' = [stored EXCEPT ![s] = new]
    BY <1>3 DEF Save
  <2>2. stored'[s] = new /\ \A x \in Sessions \ {s} : stored'[x] = stored[x]
    BY <1>2, <2>1
  <2>3. stored' \in [Sessions -> Session \cup {Never}]
    BY <1>2, <2>1
  <2> QED
    BY <1>1, <1>3, <2>2, <2>3 DEF Grows
<1>4. CASE ~(new.rev # rev /\ stored[s].rev = rev)
  <2>1. stored' = stored
    BY <1>4 DEF Save
  <2> QED
    BY <1>1, <1>2, <1>4, <2>1 DEF Grows
<1> QED
  BY <1>3, <1>4

-----------------------------------------------------------------------------
(* A step of one request *)

\* The records follow Core if the one that the step writes does, and no stop is dropped
\* before it was sent.
LEMMA Recorded ==
  ASSUME IInv, NEW r \in Requests, NEW s \in Sessions,
         up' = up, sent \subseteq sent', crashes' = 0 => crashes = 0,
         \A q \in Requests \ {r} : req'[q] = req[q],
         \A x \in Sessions \ {s} : stored'[x] = stored[x],
         stored'[s] # stored[s] /\ stored'[s].profile = "core" =>
           /\ stored'[s].state = "ACTIVE" => s \in up
           /\ stored'[s].state = "EXPIRED" => Told(s, sent')
           /\ stored'[s].state = "STOPPING" => req'[r].pc = "halt" /\ req'[r].s = s,
         req[r].pc = "halt" /\ crashes' = 0 =>
           req[r].new.profile = "cloud" \/ Told(req[r].s, sent')
  PROVE  CoreFollowsRecord'
<1>1. ActiveIsOwn /\ ExpiredWasCommanded /\ StoppingIsCommanded
  BY DEF IInv, CoreFollowsRecord, EndsAreCommanded
<1>2. \A x \in Sessions : Told(x, sent) => Told(x, sent')
  BY DEF Told
<1>3. ActiveIsOwn'
  BY <1>1 DEF ActiveIsOwn
<1>4. ExpiredWasCommanded'
  BY <1>1, <1>2 DEF ExpiredWasCommanded, StopSent, Told
<1>5. StoppingIsCommanded'
  <2> SUFFICES ASSUME NEW x \in Sessions, stored'[x] # Never, stored'[x].state = "STOPPING",
                      stored'[x].profile = "core", crashes' = 0
               PROVE  Told(x, sent') \/ \E q \in Requests : req'[q].pc = "halt" /\ req'[q].s = x
    BY DEF StoppingIsCommanded, StopSent, Told
  <2>1. CASE stored'[x] # stored[x]
    BY <2>1
  <2>2. CASE stored'[x] = stored[x]
    <3>1. Told(x, sent) \/ \E q \in Requests : req[q].pc = "halt" /\ req[q].s = x
      BY <1>1, <2>2 DEF StoppingIsCommanded, StopSent, Told
    <3>2. CASE Told(x, sent)
      BY <1>2, <3>2
    <3>3. ASSUME NEW q \in Requests, req[q].pc = "halt", req[q].s = x
          PROVE  Told(x, sent') \/ req'[q] = req[q]
      <4>1. CASE q # r
        BY <4>1
      <4>2. CASE q = r
        <5>1. stored[x].profile = req[r].new.profile
          BY <3>3, <4>2 DEF IInv, Serves
        <5> QED
          BY <2>2, <3>3, <4>2, <5>1
      <4> QED
        BY <4>1, <4>2
    <3> QED
      BY <3>1, <3>2, <3>3
  <2> QED
    BY <2>1, <2>2
<1> QED
  BY <1>3, <1>4, <1>5 DEF CoreFollowsRecord, EndsAreCommanded

\* What another request knows is not disturbed.
LEMMA Bystander ==
  ASSUME TypeOK, NEW q \in Requests, Creates(q), Serves(q), Follows(q),
         req'[q] = req[q], up \subseteq up', sent \subseteq sent',
         req[q] # Idle => Grows(req[q].s),
         req[q].pc = "put" =>
           /\ stored'[req[q].s] = Never
           /\ \A p \in Requests \ {q} : req'[p] # Idle => req'[p].s # req[q].s
  PROVE  Creates(q)' /\ Serves(q)' /\ Follows(q)'
<1>1. CASE req[q] = Idle
  BY <1>1 DEF Creates, Serves, Follows, Idle
<1>2. CASE req[q] \in Creating
  <2>1. /\ req[q].pc \in {"put", "launch"} /\ req[q].s \in Sessions /\ req[q].new \in Session
        /\ req[q] # Idle
    BY <1>2 DEF Creating, Idle
  <2>2. Creates(q)'
    <3>1. req[q].new.rev = 0 /\ stored[req[q].s] \in Session => stored[req[q].s].rev \in Nat
      BY DEF Session
    <3> QED
      BY <2>1, <3>1 DEF Creates, Grows, Session
  <2>3. Serves(q)'
    BY <2>1 DEF Serves
  <2>4. Follows(q)'
    BY <2>1 DEF Follows, StopSent
  <2> QED
    BY <2>2, <2>3, <2>4
<1>3. CASE req[q] \in Serving
  <2>1. /\ req[q].pc \in {"expire", "save", "activity", "refresh", "stop", "halt"}
        /\ req[q].s \in Sessions /\ req[q].new \in Session /\ req[q].rev \in Nat
        /\ req[q].new.rev \in Nat /\ req[q] # Idle
    BY <1>3 DEF Serving, Session, Idle
  <2>2. Creates(q)'
    BY <2>1 DEF Creates
  <2>3. Serves(q)'
    <3> DEFINE s == req[q].s
    <3>1. /\ stored[s] \in Session /\ stored'[s] \in Session
          /\ stored[s].rev \in Nat /\ stored'[s].rev \in Nat
          /\ stored'[s].profile = stored[s].profile
          /\ stored'[s] = stored[s] \/ stored[s].rev < stored'[s].rev
      BY <2>1 DEF Serves, Grows, Session
    <3>2. CASE stored'[s] = stored[s]
      BY <3>2, <2>1 DEF Serves
    <3>3. CASE stored[s].rev < stored'[s].rev
      <4>1. req[q].rev < stored'[s].rev
        BY <2>1, <3>1, <3>3 DEF Serves
      <4> QED
        BY <2>1, <3>1, <4>1 DEF Serves
    <3> QED
      BY <3>1, <3>2, <3>3
  <2>4. Follows(q)'
    BY <2>1 DEF Follows, StopSent
  <2> QED
    BY <2>2, <2>3, <2>4
<1> QED
  BY <1>1, <1>2, <1>3 DEF TypeOK

\* So a step of r keeps the invariant if it keeps what r knows, the types and the records.
LEMMA Step ==
  ASSUME IInv, NEW r \in Requests, TypeOK', CoreFollowsRecord',
         lease' = lease, health' = health, up' = up, sent \subseteq sent',
         \A q \in Requests \ {r} : req'[q] = req[q],
         \A q \in Requests \ {r} : req[q] # Idle => Grows(req[q].s),
         \A q \in Requests \ {r} : req[q].pc = "put" => stored'[req[q].s] = stored[req[q].s],
         req'[r] # Idle => \A q \in Requests \ {r} : req[q].pc = "put" => req'[r].s # req[q].s,
         Creates(r)', Serves(r)', Follows(r)'
  PROVE  IInv'
<1>1. ASSUME NEW q \in Requests \ {r} PROVE Creates(q)' /\ Serves(q)' /\ Follows(q)'
  <2>1. TypeOK /\ Creates(q) /\ Serves(q) /\ Follows(q) /\ Creates(r)
    BY DEF IInv
  <2>2. ASSUME req[q].pc = "put"
        PROVE  /\ stored'[req[q].s] = Never
               /\ \A p \in Requests \ {q} : req'[p] # Idle => req'[p].s # req[q].s
    <3>1. req[q] \in Creating /\ req[q] # Idle
      BY <2>1, <2>2 DEF TypeOK, Idle, Serving
    <3>2. /\ stored[req[q].s] = Never /\ req[q].s \in Sessions
          /\ \A p \in Requests \ {q} : req[p] # Idle => req[p].s # req[q].s
      BY <2>1, <2>2, <3>1 DEF Creates, Creating
    <3> QED
      BY <2>2, <3>2
  <2> QED
    BY <1>1, <2>1, <2>2, Bystander
<1>2. \A q \in Requests : Creates(q)' /\ Serves(q)' /\ Follows(q)'
  BY <1>1
<1> QED
  BY <1>2 DEF IInv

Names == [act : {"START", "ACTIVITY", "STOP"}, s : Sessions, rev : Nat]
Commands == [act : {"START", "ACTIVITY", "STOP"}, s : Sessions, rev : Nat, hard : Nat]

\* A request that goes on to a well formed place keeps the types.
LEMMA Typed ==
  ASSUME TypeOK, NEW r \in Requests, NEW next \in {Idle} \cup Creating \cup Serving,
         Go(r, next), UNCHANGED elsewhere,
         stored' \in [Sessions -> Session \cup {Never}],
         sent' \subseteq Names, pending' \subseteq Commands,
         userRequests' \in 0 .. MaxUserRequests, crashes' \in 0 .. MaxCrashes
  PROVE  /\ TypeOK' /\ req'[r] = next
         /\ \A q \in Requests \ {r} : req'[q] = req[q]
         /\ lease' = lease /\ health' = health /\ up' = up
<1>1. req' = [req EXCEPT ![r] = next] /\ req \in [Requests -> {Idle} \cup Creating \cup Serving]
  BY DEF Go, TypeOK
<1>2. req' \in [Requests -> {Idle} \cup Creating \cup Serving]
  BY <1>1
<1>3. /\ now' = now /\ lease' = lease /\ health' = health /\ cloud' = cloud /\ up' = up
      /\ changes' = changes
  BY DEF elsewhere, core
<1>4. TypeOK'
  BY <1>2, <1>3 DEF TypeOK, Names, Commands
<1> QED
  BY <1>1, <1>3, <1>4

\* What StartExecution does to the names: they only grow, and the name that was asked
\* for is among them.
LEMMA Executions ==
  ASSUME TypeOK, NEW act \in {"START", "ACTIVITY", "STOP"}, NEW s \in Sessions,
         NEW session \in Session
  PROVE  /\ Accepted(act, s, session) \/ Refused(act, s, session) =>
              /\ sent \subseteq sent' /\ sent' \subseteq Names /\ pending' \subseteq Commands
              /\ Name(act, s, session.rev) \in sent'
         /\ Name(act, s, session.rev).act = act /\ Name(act, s, session.rev).s = s
<1>1. Name(act, s, session.rev) \in Names
  BY DEF Name, Names, Session
<1>2. lease.rev \in Nat /\ session.hard \in Nat
  BY DEF TypeOK, Session
<1>3. Input(act, s, session.hard) \in Commands
  BY <1>2 DEF Input, Commands
<1>4. sent \subseteq Names /\ pending \subseteq Commands
  BY DEF TypeOK, Names, Commands
<1> QED
  BY <1>1, <1>3, <1>4 DEF Accepted, Refused, Name

\* A request that is under way.
LEMMA Under ==
  ASSUME TypeOK, NEW r \in Requests
  PROVE  /\ req[r].pc \in {"put", "launch"} =>
              /\ req[r] \in Creating /\ req[r] # Idle
              /\ req[r].s \in Sessions /\ req[r].new \in Session /\ req[r].lrev \in Nat
         /\ req[r].pc \in {"expire", "save", "activity", "refresh", "stop", "halt"} =>
              /\ req[r] \in Serving /\ req[r] # Idle
              /\ req[r].s \in Sessions /\ req[r].new \in Session
              /\ req[r].rev \in Nat /\ req[r].t \in Nat /\ req[r].new.rev \in Nat
              /\ req[r].op \in {"status", "activity", "stop"}
<1>1. req[r] \in {Idle} \cup Creating \cup Serving
  BY DEF TypeOK
<1>2. req[r] \in Creating => req[r].pc \in {"put", "launch"}
  BY DEF Creating
<1>3. req[r] \in Serving => req[r].pc \in {"expire", "save", "activity", "refresh", "stop", "halt"}
  BY DEF Serving
<1>4. Idle.pc = "idle"
  BY DEF Idle
<1>5. CASE req[r] \in Creating
  BY <1>2, <1>4, <1>5 DEF Creating
<1>6. CASE req[r] \in Serving
  <2>1. req[r].new.rev \in Nat
    BY <1>6 DEF Serving, Session
  <2> QED
    BY <1>3, <1>4, <1>6, <2>1 DEF Serving
<1> QED
  BY <1>1, <1>4, <1>5, <1>6

\* A request that has no session to put leaves the others theirs.
LEMMA Apart ==
  ASSUME IInv, NEW r \in Requests, NEW q \in Requests \ {r}, req[q].pc = "put"
  PROVE  /\ stored[req[q].s] = Never
         /\ req[r] # Idle => req[r].s # req[q].s
<1>1. Creates(q)
  BY DEF IInv
<1> QED
  BY <1>1 DEF Creates

-----------------------------------------------------------------------------
(* The steps of the requests *)

LEMMA StartStep ==
  ASSUME SessionAssumption, IInv, NEW r \in Requests, NEW s \in Sessions,
         NEW asked \in {"auto", "cloud", "core"}, Start(r, s, asked)
  PROVE  IInv' /\ Final
<1>1. TypeOK /\ CoreFollowsRecord
  BY DEF IInv
<1>2. PICK lrev \in Nat, new \in Session :
        /\ new.rev = 0 /\ new.state # "EXPIRED" /\ (new.profile = "core" => new.state = "STARTING")
        /\ Go(r, [pc |-> "put", s |-> s, lrev |-> lrev, new |-> new])
  <2>1. now \in Nat /\ HardTime \in Nat /\ IdleTime \in Nat /\ lease.rev \in Nat
        /\ cloud \in Generations \cup {"down"}
    BY <1>1 DEF TypeOK, SessionAssumption
  <2>2. ASSUME NEW profile \in {"cloud", "core"}, NEW generation \in Generations \cup {"core"},
               NEW state \in {"ACTIVE", "STARTING"}
        PROVE  /\ Created(profile, generation, state, now) \in Session
               /\ Created(profile, generation, state, now).rev = 0
               /\ Created(profile, generation, state, now).state = state
               /\ Created(profile, generation, state, now).profile = profile
    <3>1. now + HardTime \in Nat /\ Min2(now + IdleTime, now + HardTime) \in Nat
      BY <2>1 DEF Min2
    <3>2. state \in Live \cup Ended \cup {"STOPPING"}
      BY DEF Live
    <3> QED
      BY <2>1, <3>1, <3>2 DEF Created, Session
  <2>3. CASE /\ cloud # "down"
             /\ Go(r, [pc |-> "put", s |-> s, lrev |-> 0,
                       new |-> Created("cloud", cloud, "ACTIVE", now)])
    BY <2>1, <2>2, <2>3
  <2>4. CASE Go(r, [pc |-> "put", s |-> s, lrev |-> lease.rev,
                    new |-> Created("core", "core", "STARTING", now)])
    BY <2>1, <2>2, <2>4
  <2> QED
    BY <2>3, <2>4 DEF Start
<1> DEFINE next == [pc |-> "put", s |-> s, lrev |-> lrev, new |-> new]
<1>3. /\ next \in Creating /\ next.pc = "put" /\ next.s = s /\ next.new = new
      /\ next # Idle
  BY DEF Creating, Idle
<1>4. /\ UNCHANGED elsewhere /\ stored' = stored /\ sent' = sent /\ pending' = pending
      /\ userRequests' = userRequests /\ crashes' = crashes
      /\ req[r] = Idle /\ stored[s] = Never
      /\ \A q \in Requests : req[q] # Idle => req[q].s # s
  BY DEF Start
<1> HIDE DEF next
<1>5. /\ TypeOK' /\ req'[r] = next /\ \A q \in Requests \ {r} : req'[q] = req[q]
      /\ lease' = lease /\ health' = health /\ up' = up
  <2>1. /\ stored' \in [Sessions -> Session \cup {Never}] /\ sent' \subseteq Names
        /\ pending' \subseteq Commands /\ userRequests' \in 0 .. MaxUserRequests
        /\ crashes' \in 0 .. MaxCrashes
    BY <1>1, <1>4 DEF TypeOK, Names, Commands
  <2> QED
    BY <1>1, <1>2, <1>3, <1>4, <2>1, Typed DEF next
<1>6. Creates(r)'
  BY <1>2, <1>3, <1>4, <1>5 DEF Creates
<1>7. Serves(r)' /\ Follows(r)'
  BY <1>2, <1>3, <1>5 DEF Serves, Follows
<1>8. CoreFollowsRecord'
  <2>1. req[r].pc # "halt"
    BY <1>4 DEF Idle
  <2> QED
    BY <1>4, <1>5, <2>1, Recorded
<1>9. \A q \in Requests \ {r} : req[q].pc = "put" => req'[r].s # req[q].s
  BY <1>1, <1>3, <1>4, <1>5, Under
<1>11. \A q \in Requests \ {r} : req[q] # Idle => Grows(req[q].s)
  BY <1>4 DEF Grows
<1>12. IInv'
  BY <1>4, <1>5, <1>6, <1>7, <1>8, <1>9, <1>11, Step
<1> QED
  BY <1>4, <1>12 DEF Final

LEMMA ArriveStep ==
  ASSUME SessionAssumption, IInv, NEW r \in Requests, NEW s \in Sessions,
         NEW op \in {"status", "activity", "stop"}, Arrive(r, s, op)
  PROVE  IInv' /\ Final
<1>1. TypeOK /\ CoreFollowsRecord
  BY DEF IInv
<1>2. /\ UNCHANGED elsewhere /\ stored' = stored /\ sent' = sent /\ pending' = pending
      /\ crashes' = crashes /\ req[r] = Idle /\ stored[s] # Never
      /\ op # "status" => userRequests < MaxUserRequests
      /\ userRequests' = IF op = "status" THEN userRequests ELSE userRequests + 1
  BY DEF Arrive
<1>3. PICK t \in Slow(now) : \E new \in Seen(s, Ticked(stored[s], t), t) :
        Go(r, [pc |-> IF ToExpire(stored[s], new) THEN "expire" ELSE "save",
               op |-> op, s |-> s, t |-> t, rev |-> stored[s].rev, new |-> new])
  BY DEF Arrive
<1>4. PICK new \in Seen(s, Ticked(stored[s], t), t) :
        Go(r, [pc |-> IF ToExpire(stored[s], new) THEN "expire" ELSE "save",
               op |-> op, s |-> s, t |-> t, rev |-> stored[s].rev, new |-> new])
  BY <1>3
<1> DEFINE old == stored[s]
           next == [pc |-> IF ToExpire(old, new) THEN "expire" ELSE "save",
                    op |-> op, s |-> s, t |-> t, rev |-> old.rev, new |-> new]
<1>5. old \in Session /\ t \in Nat /\ old.rev \in Nat
  <2>1. old \in Session
    BY <1>1, <1>2 DEF TypeOK
  <2> QED
    BY <1>1, <2>1 DEF TypeOK, Slow, Session
<1>6. Successor(s, old, new)
  BY <1>4, <1>5, Reconciled
<1>7. /\ next \in Serving /\ next.pc \in {"expire", "save"} /\ next.s = s /\ next.new = new
      /\ next.rev = old.rev /\ next # Idle
      /\ next.pc = "save" => ~ToExpire(old, new)
  <2>1. new \in Session
    BY <1>6 DEF Successor
  <2> QED
    BY <1>5, <2>1 DEF Serving, Idle
<1>8. Go(r, next)
  BY <1>4
<1> HIDE DEF next
<1>9. /\ TypeOK' /\ req'[r] = next /\ \A q \in Requests \ {r} : req'[q] = req[q]
      /\ lease' = lease /\ health' = health /\ up' = up
  <2>1. /\ stored' \in [Sessions -> Session \cup {Never}] /\ sent' \subseteq Names
        /\ pending' \subseteq Commands /\ crashes' \in 0 .. MaxCrashes
    BY <1>1, <1>2 DEF TypeOK, Names, Commands
  <2>2. userRequests' \in 0 .. MaxUserRequests
    BY <1>1, <1>2 DEF TypeOK, SessionAssumption
  <2> QED
    BY <1>1, <1>2, <1>7, <1>8, <2>1, <2>2, Typed
<1>10. Creates(r)'
  BY <1>7, <1>9 DEF Creates
<1>11. Serves(r)'
  <2>1. old.rev \in Nat /\ new.rev \in Nat
    BY <1>5, <1>6 DEF Successor, Session
  <2> QED
    BY <1>2, <1>5, <1>6, <1>7, <1>9, <2>1 DEF Serves, Successor
<1>12. Follows(r)'
  <2> SUFFICES ASSUME new.profile = "core"
               PROVE  /\ new.state = "ACTIVE" => s \in up'
                      /\ new.state = "EXPIRED" /\ next.pc # "expire" => Told(s, sent')
    BY <1>7, <1>9 DEF Follows, StopSent, Told
  <2>1. old.profile = "core"
    BY <1>6 DEF Successor
  <2>2. old.state = "ACTIVE" => s \in up
    BY <1>1, <1>2, <2>1 DEF CoreFollowsRecord, ActiveIsOwn
  <2>3. new.state = "ACTIVE" => s \in up
    BY <1>6, <2>2 DEF Successor, IInv
  <2>4. ASSUME new.state = "EXPIRED", next.pc # "expire" PROVE Told(s, sent')
    <3>1. old.state = "EXPIRED"
      BY <1>7, <2>4 DEF ToExpire
    <3> QED
      BY <1>1, <1>2, <2>1, <3>1 DEF CoreFollowsRecord, EndsAreCommanded, ExpiredWasCommanded, StopSent, Told
  <2> QED
    BY <1>9, <2>3, <2>4
<1>13. CoreFollowsRecord'
  <2>1. req[r].pc # "halt"
    BY <1>2 DEF Idle
  <2> QED
    BY <1>2, <1>9, <2>1, Recorded
<1>14. \A q \in Requests \ {r} : req[q].pc = "put" => req'[r].s # req[q].s
  BY <1>2, <1>7, <1>9, Apart
<1>15. \A q \in Requests \ {r} : req[q] # Idle => Grows(req[q].s)
  BY <1>2 DEF Grows
<1>16. IInv'
  BY <1>2, <1>9, <1>10, <1>11, <1>12, <1>13, <1>14, <1>15, Step
<1> QED
  BY <1>2, <1>16 DEF Final

\* A request that has its session: what it may update, and where it goes from there.
LEMMA Onwards ==
  ASSUME SessionAssumption, IInv, NEW r \in Requests, NEW s \in Sessions, req[r].s = s,
         req[r].pc \in {"launch", "expire", "save", "activity", "refresh", "stop", "halt"},
         NEW rev \in Nat, NEW new \in Session, Save(s, rev, new), rev <= new.rev,
         stored[s] \in Session, stored[s].profile = new.profile,
         NEW next \in {Idle} \cup Serving, Go(r, next), next # Idle => next.s = s,
         UNCHANGED <<elsewhere, userRequests>>, crashes' \in 0 .. MaxCrashes,
         crashes' = 0 => crashes = 0,
         sent \subseteq sent', sent' \subseteq Names, pending' \subseteq Commands,
         rev # new.rev /\ stored[s].rev = rev =>
           /\ stored[s].state \notin Ended
           /\ new.profile = "core" =>
                /\ new.state = "ACTIVE" => s \in up
                /\ new.state = "EXPIRED" => Told(s, sent')
                /\ new.state = "STOPPING" => next.pc = "halt" /\ next # Idle,
         req[r].pc = "halt" /\ crashes' = 0 => req[r].new.profile = "cloud" \/ Told(s, sent'),
         next # Idle => Serves(r)' /\ Follows(r)'
  PROVE  IInv' /\ Final
<1>1. TypeOK /\ CoreFollowsRecord
  BY DEF IInv
<1>2. req[r] # Idle /\ req[r].pc # "put"
  BY <1>1, Under
<1>3. /\ stored' \in [Sessions -> Session \cup {Never}]
      /\ \A x \in Sessions \ {s} : stored'[x] = stored[x]
      /\ IF new.rev # rev /\ stored[s].rev = rev THEN stored'[s] = new
         ELSE stored'[s] = stored[s]
      /\ \A x \in Sessions : Grows(x)
  BY <1>1, Saving
<1>4. /\ TypeOK' /\ req'[r] = next /\ \A q \in Requests \ {r} : req'[q] = req[q]
      /\ lease' = lease /\ health' = health /\ up' = up
  <2>1. userRequests' \in 0 .. MaxUserRequests /\ UNCHANGED elsewhere
    BY <1>1 DEF TypeOK
  <2> QED
    BY <1>1, <1>3, <2>1, Typed
<1>5. Creates(r)' /\ Serves(r)' /\ Follows(r)'
  <2>1. CASE next = Idle
    BY <1>4, <2>1 DEF Creates, Serves, Follows, Idle
  <2>2. CASE next # Idle
    <3>1. Creates(r)'
      BY <1>4, <2>2 DEF Creates, Serving
    <3> QED
      BY <2>2, <3>1
  <2> QED
    BY <2>1, <2>2
<1>6. CoreFollowsRecord'
  <2>1. ASSUME stored'[s] # stored[s], stored'[s].profile = "core"
        PROVE  /\ stored'[s].state = "ACTIVE" => s \in up
               /\ stored'[s].state = "EXPIRED" => Told(s, sent')
               /\ stored'[s].state = "STOPPING" => req'[r].pc = "halt" /\ req'[r].s = s
    BY <1>3, <1>4, <2>1
  <2> QED
    BY <1>3, <1>4, <2>1, Recorded
<1>7. \A q \in Requests \ {r} : req[q].pc = "put" => stored'[req[q].s] = stored[req[q].s]
  <2> TAKE q \in Requests \ {r}
  <2> HAVE req[q].pc = "put"
  <2>1. req[q].s \in Sessions \ {s}
    BY <1>1, <1>2, Apart, Under
  <2> QED
    BY <1>3, <2>1
<1>8. req'[r] # Idle => \A q \in Requests \ {r} : req[q].pc = "put" => req'[r].s # req[q].s
  BY <1>2, <1>4, Apart
<1>9. \A q \in Requests \ {r} : req[q] # Idle => Grows(req[q].s)
  <2> TAKE q \in Requests \ {r}
  <2> HAVE req[q] # Idle
  <2>1. req[q].s \in Sessions
    BY <1>1 DEF TypeOK, Creating, Serving
  <2> QED
    BY <1>3, <2>1
<1>10. IInv'
  BY <1>4, <1>5, <1>6, <1>7, <1>8, <1>9, Step
<1>11. Final
  BY <1>3 DEF Final
<1> QED
  BY <1>10, <1>11

LEMMA PutStep ==
  ASSUME SessionAssumption, IInv, NEW r \in Requests, Put(r)
  PROVE  IInv' /\ Final
<1> DEFINE s == req[r].s
           new == req[r].new
           next == IF new.profile = "core" THEN [req[r] EXCEPT !.pc = "launch"] ELSE Idle
<1>1. TypeOK /\ CoreFollowsRecord /\ Creates(r)
  BY DEF IInv
<1>2. /\ req[r].pc = "put" /\ stored' = [stored EXCEPT ![s] = new] /\ Go(r, next)
      /\ UNCHANGED elsewhere /\ sent' = sent /\ pending' = pending
      /\ userRequests' = userRequests /\ crashes' = crashes
  BY DEF Put, End
<1>3. req[r] \in Creating /\ req[r] # Idle /\ s \in Sessions /\ new \in Session
  BY <1>1, <1>2, Under
<1>4. /\ stored[s] = Never /\ new.rev = 0 /\ new.state # "EXPIRED"
      /\ new.profile = "core" => new.state = "STARTING"
      /\ \A q \in Requests \ {r} : req[q] # Idle => req[q].s # s
  BY <1>1, <1>2 DEF Creates
<1>5. /\ stored'[s] = new /\ \A x \in Sessions \ {s} : stored'[x] = stored[x]
      /\ stored' \in [Sessions -> Session \cup {Never}]
  BY <1>1, <1>2, <1>3 DEF TypeOK
<1>6. /\ next \in {Idle} \cup Creating
      /\ next # Idle => next.s = s /\ next.new = new /\ next.pc = "launch" /\ new.profile = "core"
  <2>1. CASE new.profile = "core"
    <3>1. [req[r] EXCEPT !.pc = "launch"] \in Creating
      BY <1>3 DEF Creating
    <3> QED
      BY <1>3, <2>1, <3>1 DEF Creating
  <2>2. CASE new.profile # "core"
    BY <2>2
  <2> QED
    BY <2>1, <2>2
<1> HIDE DEF next
<1>7. /\ TypeOK' /\ req'[r] = next /\ \A q \in Requests \ {r} : req'[q] = req[q]
      /\ lease' = lease /\ health' = health /\ up' = up
  <2>1. /\ sent' \subseteq Names /\ pending' \subseteq Commands
        /\ userRequests' \in 0 .. MaxUserRequests /\ crashes' \in 0 .. MaxCrashes
    BY <1>1, <1>2 DEF TypeOK, Names, Commands
  <2> QED
    BY <1>1, <1>2, <1>5, <1>6, <2>1, Typed
<1>8. Creates(r)' /\ Serves(r)' /\ Follows(r)'
  <2>1. CASE next = Idle
    BY <1>7, <2>1 DEF Creates, Serves, Follows, Idle
  <2>2. CASE next # Idle
    BY <1>3, <1>4, <1>5, <1>6, <1>7, <2>2 DEF Creates, Serves, Follows
  <2> QED
    BY <2>1, <2>2
<1>9. CoreFollowsRecord'
  BY <1>2, <1>3, <1>4, <1>5, <1>7, Recorded
<1>10. \A q \in Requests \ {r} : req[q] # Idle => req[q].s \in Sessions \ {s}
  BY <1>1, <1>4 DEF TypeOK, Creating, Serving
<1>11. \A q \in Requests \ {r} : req[q] # Idle => Grows(req[q].s)
  BY <1>5, <1>10 DEF Grows
<1>12. ASSUME NEW q \in Requests \ {r}, req[q].pc = "put"
       PROVE  stored'[req[q].s] = stored[req[q].s] /\ req[q].s # s
  <2>1. req[q] # Idle
    BY <1>12 DEF Idle
  <2> QED
    BY <1>5, <1>10, <2>1
<1>13. req'[r] # Idle => \A q \in Requests \ {r} : req[q].pc = "put" => req'[r].s # req[q].s
  BY <1>6, <1>7, <1>12
<1>14. IInv'
  BY <1>2, <1>7, <1>8, <1>9, <1>11, <1>12, <1>13, Step
<1> QED
  BY <1>4, <1>5, <1>14 DEF Final

LEMMA LaunchStep ==
  ASSUME SessionAssumption, IInv, NEW r \in Requests, Launch(r)
  PROVE  IInv' /\ Final
<1> DEFINE s == req[r].s
           new == req[r].new
<1>1. TypeOK /\ Creates(r)
  BY DEF IInv
<1>2. /\ req[r].pc = "launch" /\ Go(r, Idle) /\ UNCHANGED <<elsewhere, userRequests>>
  BY DEF Launch, End
<1>3. /\ s \in Sessions /\ new \in Session /\ new.rev = 0 /\ new.profile = "core"
      /\ req[r].lrev \in Nat
      /\ stored[s] \in Session
      /\ stored[s].rev = 0 => stored[s] = new
  BY <1>1, <1>2, Under DEF Creates
<1>4. stored[s].rev \in Nat
  BY <1>3 DEF Session
<1>5. sent \subseteq Names /\ pending \subseteq Commands /\ crashes \in 0 .. MaxCrashes
  BY <1>1 DEF TypeOK, Names, Commands
<1>6. CASE /\ sent' = sent \cup {Name("START", s, 0)}
           /\ pending' = pending \cup {[act |-> "START", s |-> s, rev |-> req[r].lrev, hard |-> new.hard]}
           /\ UNCHANGED <<stored, crashes>>
  <2>1. Name("START", s, 0) \in Names
    BY <1>3 DEF Name, Names
  <2>2. [act |-> "START", s |-> s, rev |-> req[r].lrev, hard |-> new.hard] \in Commands
    BY <1>3 DEF Commands, Session
  <2>3. sent \subseteq sent' /\ sent' \subseteq Names /\ pending' \subseteq Commands
    BY <1>5, <1>6, <2>1, <2>2
  <2>4. Save(s, stored[s].rev, stored[s])
    BY <1>6 DEF Save
  <2>5. crashes' \in 0 .. MaxCrashes /\ (crashes' = 0 => crashes = 0)
    BY <1>5, <1>6
  <2> QED
    BY <1>2, <1>3, <1>4, <2>3, <2>4, <2>5, Onwards
<1>7. CASE /\ crashes < MaxCrashes /\ crashes' = crashes + 1
           /\ Save(s, 0, FailSession(new, now)) /\ UNCHANGED <<sent, pending>>
  <2> DEFINE failed == FailSession(new, now)
  <2>1. now \in Nat /\ new.rev \in Nat
    BY <1>1, <1>3 DEF TypeOK
  <2>2. /\ failed \in Session /\ failed.profile = new.profile
        /\ IF new.state \in Ended THEN failed = new
           ELSE failed.state = "FAILED" /\ failed.rev = new.rev + 1
    BY <1>3, <2>1, Fails
  <2>3. stored[s].profile = new.profile
    BY <1>1, <1>2 DEF Creates
  <2>4. crashes' \in 0 .. MaxCrashes /\ crashes' # 0
    BY <1>5, <1>7
  <2> HIDE DEF failed
  <2>5. Save(s, 0, failed)
    BY <1>7 DEF failed
  <2>6. 0 <= failed.rev /\ (0 # failed.rev => new.state \notin Ended /\ failed.state = "FAILED")
    BY <1>3, <2>2
  <2> QED
    BY <1>2, <1>3, <1>4, <1>5, <1>7, <2>2, <2>3, <2>4, <2>5, <2>6, Onwards
<1> QED
  BY <1>6, <1>7 DEF Launch

\* A step that writes no record.
LEMMA Quiet ==
  ASSUME SessionAssumption, IInv, NEW r \in Requests,
         req[r].pc \in {"expire", "save", "activity", "refresh", "stop", "halt"}, stored' = stored,
         NEW next \in {Idle} \cup Serving, Go(r, next), next # Idle => next.s = req[r].s,
         UNCHANGED <<elsewhere, userRequests>>, crashes' \in 0 .. MaxCrashes,
         crashes' = 0 => crashes = 0,
         sent \subseteq sent', sent' \subseteq Names, pending' \subseteq Commands,
         req[r].pc = "halt" /\ crashes' = 0 => req[r].new.profile = "cloud" \/ Told(req[r].s, sent'),
         next # Idle => Serves(r)' /\ Follows(r)'
  PROVE  IInv' /\ Final
<1> DEFINE s == req[r].s
<1>1. TypeOK /\ Serves(r)
  BY DEF IInv
<1>2. s \in Sessions /\ stored[s] \in Session
  BY <1>1, Under DEF Serves
<1>3. stored[s].rev \in Nat
  BY <1>2 DEF Session
<1>4. Save(s, stored[s].rev, stored[s])
  BY DEF Save
<1> QED
  BY <1>2, <1>3, <1>4, Onwards

\* What a request that serves a session knows, and how it goes on when only its place
\* changes.
LEMMA Knows ==
  ASSUME SessionAssumption, IInv, NEW r \in Requests,
         req[r].pc \in {"expire", "save", "activity", "refresh", "stop", "halt"}
  PROVE  /\ TypeOK /\ Serves(r) /\ Follows(r)
         /\ req[r] \in Serving /\ req[r].s \in Sessions /\ req[r].new \in Session
         /\ req[r].rev \in Nat /\ req[r].new.rev \in Nat /\ req[r].rev <= req[r].new.rev
         /\ req[r].t \in Nat /\ req[r].op \in {"status", "activity", "stop"}
         /\ req[r] # Idle
         /\ stored[req[r].s] \in Session /\ stored[req[r].s].rev \in Nat
         /\ stored[req[r].s].profile = req[r].new.profile
         /\ sent \subseteq Names /\ pending \subseteq Commands /\ crashes \in 0 .. MaxCrashes
<1>1. TypeOK /\ Serves(r) /\ Follows(r)
  BY DEF IInv
<1>2. stored[req[r].s] \in Session /\ stored[req[r].s].profile = req[r].new.profile
      /\ req[r].rev <= req[r].new.rev
  BY <1>1 DEF Serves
<1>3. stored[req[r].s].rev \in Nat
  BY <1>2 DEF Session
<1>4. sent \subseteq Names /\ pending \subseteq Commands /\ crashes \in 0 .. MaxCrashes
  BY <1>1 DEF TypeOK, Names, Commands
<1> QED
  BY <1>1, <1>2, <1>3, <1>4, Under

LEMMA ExpireStep ==
  ASSUME SessionAssumption, IInv, NEW r \in Requests, Expire(r)
  PROVE  IInv' /\ Final
<1> DEFINE s == req[r].s
           new == req[r].new
           next == [req[r] EXCEPT !.pc = "save"]
<1>1. /\ req[r].pc = "expire" /\ UNCHANGED <<elsewhere, userRequests>> /\ stored' = stored
      /\ crashes' = crashes
  BY DEF Expire
<1>2. /\ TypeOK /\ Serves(r) /\ Follows(r) /\ req[r] \in Serving /\ s \in Sessions
      /\ new \in Session /\ crashes \in 0 .. MaxCrashes
  BY <1>1, Knows
<1>3. /\ Accepted("STOP", s, new) \/ Refused("STOP", s, new) =>
           /\ sent \subseteq sent' /\ sent' \subseteq Names /\ pending' \subseteq Commands
           /\ Name("STOP", s, new.rev) \in sent'
      /\ Name("STOP", s, new.rev).act = "STOP" /\ Name("STOP", s, new.rev).s = s
  BY <1>2, Executions
<1>4. CASE Accepted("STOP", s, new) /\ Go(r, next)
  <2>1. Told(s, sent')
    BY <1>3, <1>4 DEF Told
  <2>2. /\ next \in Serving /\ next.pc = "save" /\ next.s = s /\ next.new = new
        /\ next.rev = req[r].rev
    BY <1>2 DEF Serving
  <2> HIDE DEF next
  <2>3. req'[r] = next
    BY <1>2, <1>4 DEF Go, TypeOK
  <2>4. Serves(r)'
    BY <1>1, <1>2, <2>2, <2>3 DEF Serves
  <2>5. Follows(r)'
    <3>1. req[r] # Idle
      BY <1>1, Knows
    <3>2. up' = up
      BY <1>1 DEF elsewhere
    <3> QED
      BY <1>1, <1>2, <2>1, <2>2, <2>3, <3>1, <3>2 DEF Follows, StopSent, Told
  <2> QED
    BY <1>1, <1>2, <1>3, <1>4, <2>2, <2>4, <2>5, Quiet
<1>5. CASE Refused("STOP", s, new) /\ Go(r, Idle)
  BY <1>1, <1>2, <1>3, <1>5, Quiet
<1> QED
  BY <1>4, <1>5 DEF Expire, End

LEMMA DieStep ==
  ASSUME SessionAssumption, IInv, NEW r \in Requests, Die(r)
  PROVE  IInv' /\ Final
<1>1. /\ req[r] # Idle /\ Go(r, Idle) /\ UNCHANGED <<elsewhere, userRequests>>
      /\ stored' = stored /\ sent' = sent /\ pending' = pending
      /\ crashes < MaxCrashes /\ crashes' = crashes + 1
  BY DEF Die, End
<1>2. TypeOK /\ CoreFollowsRecord
  BY DEF IInv
<1>3. crashes' \in 0 .. MaxCrashes /\ crashes' # 0
  BY <1>1, <1>2 DEF TypeOK
<1>4. /\ TypeOK' /\ req'[r] = Idle /\ \A q \in Requests \ {r} : req'[q] = req[q]
      /\ lease' = lease /\ health' = health /\ up' = up
  <2>1. /\ stored' \in [Sessions -> Session \cup {Never}] /\ sent' \subseteq Names
        /\ pending' \subseteq Commands /\ userRequests' \in 0 .. MaxUserRequests
    BY <1>1, <1>2 DEF TypeOK, Names, Commands
  <2> QED
    BY <1>1, <1>2, <1>3, <2>1, Typed
<1>5. Creates(r)' /\ Serves(r)' /\ Follows(r)'
  BY <1>4 DEF Creates, Serves, Follows, Idle
<1>6. req[r].s \in Sessions
  BY <1>1, <1>2 DEF TypeOK, Creating, Serving
<1>7. CoreFollowsRecord'
  BY <1>1, <1>3, <1>4, <1>6, Recorded
<1>8. \A q \in Requests \ {r} : req[q] # Idle => Grows(req[q].s)
  BY <1>1 DEF Grows
<1>9. IInv'
  BY <1>1, <1>4, <1>5, <1>7, <1>8, Step
<1> QED
  BY <1>1, <1>9 DEF Final

LEMMA SavedStep ==
  ASSUME SessionAssumption, IInv, NEW r \in Requests, Saved(r)
  PROVE  IInv' /\ Final
<1> DEFINE s == req[r].s
           new == req[r].new
           rev == req[r].rev
           next == IF req[r].op # "status" /\ Held(s, rev, new)
                   THEN [req[r] EXCEPT !.pc = req[r].op, !.rev = new.rev] ELSE Idle
<1>1. /\ req[r].pc = "save" /\ UNCHANGED <<elsewhere, userRequests>>
      /\ sent' = sent /\ pending' = pending /\ crashes' = crashes
      /\ Save(s, rev, new) /\ Go(r, next)
  BY DEF Saved, End
<1>2. /\ TypeOK /\ Serves(r) /\ Follows(r) /\ req[r] \in Serving /\ s \in Sessions
      /\ new \in Session /\ rev \in Nat /\ new.rev \in Nat /\ rev <= new.rev
      /\ req[r].op \in {"status", "activity", "stop"} /\ req[r] # Idle
      /\ stored[s] \in Session /\ stored[s].rev \in Nat /\ stored[s].profile = new.profile
      /\ sent \subseteq Names /\ pending \subseteq Commands /\ crashes \in 0 .. MaxCrashes
  BY <1>1, Knows
<1>3. rev # new.rev /\ stored[s].rev = rev =>
        /\ stored[s].state \notin Ended
        /\ new.profile = "core" =>
             /\ new.state = "ACTIVE" => s \in up
             /\ new.state = "EXPIRED" => Told(s, sent')
             /\ new.state # "STOPPING"
  BY <1>1, <1>2 DEF Serves, Follows, StopSent, Told
<1>4. /\ stored'[s] \in Session /\ stored'[s].profile = stored[s].profile
      /\ IF new.rev # rev /\ stored[s].rev = rev THEN stored'[s] = new
         ELSE stored'[s] = stored[s]
  BY <1>1, <1>2, Saving
<1>5. /\ next \in {Idle} \cup Serving
      /\ next # Idle => /\ req[r].op \in {"activity", "stop"} /\ Held(s, rev, new)
                        /\ next.s = s /\ next.new = new /\ next.rev = new.rev
                        /\ next.pc \in {"activity", "stop"}
  <2>1. CASE req[r].op # "status" /\ Held(s, rev, new)
    <3>1. next = [[req[r] EXCEPT !.pc = req[r].op] EXCEPT !.rev = new.rev]
      BY <1>2, <2>1 DEF Serving
    <3>2. [req[r] EXCEPT !.pc = req[r].op] \in Serving
      BY <1>2, <2>1 DEF Serving
    <3>3. /\ next \in Serving /\ next.pc = req[r].op /\ next.s = s /\ next.new = new
          /\ next.rev = new.rev
      BY <1>2, <2>1, <3>1, <3>2 DEF Serving
    <3> QED
      BY <1>2, <2>1, <3>3
  <2>2. CASE ~(req[r].op # "status" /\ Held(s, rev, new))
    BY <2>2
  <2> QED
    BY <2>1, <2>2
<1> HIDE DEF next
<1>6. ASSUME next # Idle PROVE Serves(r)' /\ Follows(r)'
  <2>1. req'[r] = next /\ up' = up
    BY <1>1, <1>2 DEF Go, TypeOK, elsewhere
  <2>2. Serves(r)'
    <3>1. stored'[s] \in Session /\ stored'[s].profile = new.profile
      BY <1>2, <1>4
    <3>2. CASE new.rev = rev
      <4>1. stored'[s] = stored[s] /\ rev <= stored[s].rev /\ (rev = stored[s].rev => stored[s] = new)
        BY <1>1, <1>2, <1>4, <3>2 DEF Serves
      <4>2. req'[r].rev = rev /\ req'[r].new = new /\ req'[r].s = s /\ req'[r].pc \in {"activity", "stop"}
        BY <1>5, <1>6, <2>1, <3>2
      <4> QED
        BY <1>2, <3>1, <3>2, <4>1, <4>2 DEF Serves
    <3>3. CASE new.rev # rev
      <4>1. stored'[s] = new
        BY <1>4, <1>5, <1>6, <3>3 DEF Held
      <4> QED
        BY <1>2, <1>5, <1>6, <2>1, <3>1, <4>1 DEF Serves
    <3> QED
      BY <3>2, <3>3
  <2>3. Follows(r)'
    BY <1>1, <1>2, <1>5, <1>6, <2>1 DEF Follows, StopSent
  <2> QED
    BY <2>2, <2>3
<1> QED
  BY <1>1, <1>2, <1>3, <1>5, <1>6, Onwards

LEMMA ActivityStep ==
  ASSUME SessionAssumption, IInv, NEW r \in Requests, Activity(r)
  PROVE  IInv' /\ Final
<1> DEFINE s == req[r].s
           session == req[r].new
           next == [req[r] EXCEPT !.pc = "refresh"]
<1>1. /\ req[r].pc = "activity" /\ UNCHANGED <<elsewhere, userRequests>> /\ stored' = stored
      /\ crashes' = crashes
  BY DEF Activity
<1>2. /\ TypeOK /\ Serves(r) /\ Follows(r) /\ req[r] \in Serving /\ s \in Sessions
      /\ session \in Session /\ crashes \in 0 .. MaxCrashes /\ req[r] # Idle
      /\ sent \subseteq Names /\ pending \subseteq Commands
  BY <1>1, Knows
<1>3. Accepted("ACTIVITY", s, session) \/ Refused("ACTIVITY", s, session) =>
        sent \subseteq sent' /\ sent' \subseteq Names /\ pending' \subseteq Commands
  BY <1>2, Executions
<1>4. \/ UNCHANGED <<sent, pending>>
      \/ Accepted("ACTIVITY", s, session) \/ Refused("ACTIVITY", s, session)
  BY <1>2 DEF Activity, Session
<1>5. sent \subseteq sent' /\ sent' \subseteq Names /\ pending' \subseteq Commands
  BY <1>2, <1>3, <1>4
<1>6. CASE session.state = "ACTIVE" /\ Go(r, next)
  <2>1. /\ next \in Serving /\ next.pc = "refresh" /\ next.s = s /\ next.new = session
        /\ next.rev = req[r].rev
    BY <1>2 DEF Serving
  <2> HIDE DEF next
  <2>2. req'[r] = next /\ up' = up
    BY <1>1, <1>2, <1>6 DEF Go, TypeOK, elsewhere
  <2>3. Serves(r)'
    BY <1>1, <1>2, <1>6, <2>1, <2>2 DEF Serves
  <2>4. Follows(r)'
    BY <1>1, <1>2, <1>5, <1>6, <2>1, <2>2 DEF Follows
  <2> QED
    BY <1>1, <1>2, <1>5, <1>6, <2>1, <2>3, <2>4, Quiet
<1>7. CASE Go(r, Idle)
  BY <1>1, <1>2, <1>5, <1>7, Quiet
<1> QED
  BY <1>6, <1>7 DEF Activity, End

LEMMA RefreshStep ==
  ASSUME SessionAssumption, IInv, NEW r \in Requests, Refresh(r)
  PROVE  IInv' /\ Final
<1> DEFINE s == req[r].s
           new == req[r].new
           rev == req[r].rev
           next == Refreshed(new, "ACTIVE", req[r].t)
<1>1. /\ req[r].pc = "refresh" /\ UNCHANGED <<elsewhere, userRequests>>
      /\ sent' = sent /\ pending' = pending /\ crashes' = crashes
      /\ Save(s, rev, next) /\ Go(r, Idle)
  BY DEF Refresh, End
<1>2. /\ TypeOK /\ Serves(r) /\ Follows(r) /\ s \in Sessions
      /\ new \in Session /\ rev \in Nat /\ req[r].t \in Nat /\ req[r] # Idle
      /\ stored[s] \in Session /\ stored[s].rev \in Nat /\ stored[s].profile = new.profile
      /\ sent \subseteq Names /\ pending \subseteq Commands /\ crashes \in 0 .. MaxCrashes
  BY <1>1, Knows
<1>3. /\ rev = new.rev /\ new.state = "ACTIVE"
      /\ stored[s].rev = rev => stored[s] = new
      /\ new.profile = "core" => s \in up
  BY <1>1, <1>2 DEF Serves, Follows
<1>4. /\ next \in Session /\ next.state = "ACTIVE" /\ next.rev = new.rev + 1
      /\ next.profile = new.profile
  <2>1. "ACTIVE" \in States
    BY DEF States, Live
  <2>2. new \in Session /\ req[r].t \in Nat
    BY <1>2
  <2>3. next = Refreshed(new, "ACTIVE", req[r].t)
    OBVIOUS
  <2> HIDE DEF s, new, rev, next
  <2>4. ASSUME NEW t \in Nat
        PROVE  /\ Refreshed(new, "ACTIVE", t) \in Session
               /\ Refreshed(new, "ACTIVE", t).state = "ACTIVE"
               /\ Refreshed(new, "ACTIVE", t).rev = new.rev + 1
               /\ Refreshed(new, "ACTIVE", t).profile = new.profile
    BY ONLY <2>1, <2>2, SessionAssumption, Extended
  <2> QED
    BY ONLY <2>2, <2>3, <2>4
<1> HIDE DEF next
<1>5. rev <= next.rev
  BY <1>2, <1>3, <1>4
<1> QED
  BY <1>1, <1>2, <1>3, <1>4, <1>5, Onwards DEF Ended

LEMMA StoppingStep ==
  ASSUME SessionAssumption, IInv, NEW r \in Requests, Stopping(r)
  PROVE  IInv' /\ Final
<1> DEFINE s == req[r].s
           old == req[r].new
           rev == req[r].rev
           new == RequestStop(old, req[r].t)
           next == IF ToHalt(r, new)
                   THEN [req[r] EXCEPT !.pc = "halt", !.rev = new.rev, !.new = new] ELSE Idle
<1>1. /\ req[r].pc = "stop" /\ UNCHANGED <<elsewhere, userRequests>>
      /\ sent' = sent /\ pending' = pending /\ crashes' = crashes
      /\ Save(s, rev, new) /\ Go(r, next)
  BY DEF Stopping, End
<1>2. /\ TypeOK /\ Serves(r) /\ req[r] \in Serving /\ s \in Sessions
      /\ old \in Session /\ old.rev \in Nat /\ rev \in Nat /\ req[r].t \in Nat /\ req[r] # Idle
      /\ stored[s] \in Session /\ stored[s].rev \in Nat /\ stored[s].profile = old.profile
      /\ sent \subseteq Names /\ pending \subseteq Commands /\ crashes \in 0 .. MaxCrashes
  BY <1>1, Knows
<1>3. /\ rev = old.rev
      /\ stored[s].rev = rev => stored[s] = old
  BY <1>1, <1>2 DEF Serves
<1>4. /\ new \in Session /\ new.profile = old.profile /\ rev <= new.rev /\ new.rev \in Nat
      /\ new.rev # rev => old.state \in Live /\ new.state = "STOPPING"
  <2>1. CASE new = old
    BY <1>2, <1>3, <2>1
  <2>2. CASE new # old
    <3>1. /\ old.state \in Live /\ new \in Session /\ new.profile = old.profile
          /\ new.state = "STOPPING" /\ new.rev = old.rev + 1
      BY <1>2, <2>2, Stops
    <3> HIDE DEF new
    <3> QED
      BY <1>2, <1>3, <3>1
  <2> QED
    BY <2>1, <2>2
<1> HIDE DEF new
<1>5. /\ stored'[s] \in Session /\ stored'[s].profile = stored[s].profile
      /\ IF new.rev # rev /\ stored[s].rev = rev THEN stored'[s] = new
         ELSE stored'[s] = stored[s]
  BY <1>1, <1>2, <1>4, Saving
<1>6. /\ next \in {Idle} \cup Serving
      /\ next # Idle => /\ ToHalt(r, new) /\ next.s = s /\ next.new = new /\ next.rev = new.rev
                        /\ next.pc = "halt"
      /\ ToHalt(r, new) => next # Idle
  <2>1. CASE ToHalt(r, new)
    <3>1. [req[r] EXCEPT !.pc = "halt"] \in Serving
      BY <1>2 DEF Serving
    <3>2. [[req[r] EXCEPT !.pc = "halt"] EXCEPT !.rev = new.rev] \in Serving
      BY <1>4, <3>1 DEF Serving
    <3>3. next = [[[req[r] EXCEPT !.pc = "halt"] EXCEPT !.rev = new.rev] EXCEPT !.new = new]
      BY <1>2, <2>1 DEF Serving
    <3>4. /\ next \in Serving /\ next.pc = "halt" /\ next.s = s /\ next.new = new
          /\ next.rev = new.rev
      BY <1>2, <1>4, <3>1, <3>2, <3>3 DEF Serving
    <3> HIDE DEF next
    <3>5. next # Idle
      BY <3>4 DEF Idle
    <3> QED
      BY <2>1, <3>4, <3>5
  <2>2. CASE ~ToHalt(r, new)
    BY <2>2
  <2> QED
    BY <2>1, <2>2
<1> HIDE DEF next
<1>7. ToHalt(r, new) <=> new.rev # rev /\ stored[s].rev = rev
  BY DEF ToHalt, Held
<1>8. ASSUME next # Idle PROVE Serves(r)' /\ Follows(r)'
  <2>1. req'[r] = next
    BY <1>1, <1>2 DEF Go, TypeOK
  <2>2. stored'[s] = new /\ new.state = "STOPPING"
    BY <1>4, <1>5, <1>6, <1>7, <1>8
  <2>3. Serves(r)'
    BY <1>2, <1>4, <1>5, <1>6, <1>8, <2>1, <2>2 DEF Serves
  <2>4. Follows(r)'
    BY <1>6, <1>8, <2>1, <2>2 DEF Follows
  <2> QED
    BY <2>3, <2>4
<1>9. rev # new.rev /\ stored[s].rev = rev =>
        stored[s].state \notin Ended /\ new.state = "STOPPING" /\ next.pc = "halt" /\ next # Idle
  BY <1>3, <1>4, <1>6, <1>7 DEF Live, Ended
<1> QED
  BY <1>1, <1>2, <1>4, <1>6, <1>8, <1>9, Onwards

LEMMA HaltStep ==
  ASSUME SessionAssumption, IInv, NEW r \in Requests, Halt(r)
  PROVE  IInv' /\ Final
<1> DEFINE s == req[r].s
           session == req[r].new
           rev == req[r].rev
<1>1. req[r].pc = "halt" /\ UNCHANGED <<elsewhere, userRequests>> /\ Go(r, Idle)
  BY DEF Halt, End
<1>2. /\ TypeOK /\ Serves(r) /\ s \in Sessions
      /\ session \in Session /\ session.rev \in Nat /\ rev \in Nat /\ req[r].t \in Nat
      /\ stored[s] \in Session /\ stored[s].rev \in Nat /\ stored[s].profile = session.profile
      /\ sent \subseteq Names /\ pending \subseteq Commands /\ crashes \in 0 .. MaxCrashes
      /\ req[r] # Idle
  BY <1>1, Knows
<1>3. /\ rev = session.rev /\ session.state = "STOPPING"
      /\ stored[s].rev = rev => stored[s] = session
  BY <1>1, <1>2 DEF Serves
<1>4. /\ Accepted("STOP", s, session) \/ Refused("STOP", s, session) =>
           /\ sent \subseteq sent' /\ sent' \subseteq Names /\ pending' \subseteq Commands
           /\ Name("STOP", s, session.rev) \in sent'
      /\ Name("STOP", s, session.rev).act = "STOP" /\ Name("STOP", s, session.rev).s = s
  BY <1>2, Executions
<1>5. CASE Accepted("STOP", s, session) /\ UNCHANGED <<stored, crashes>>
  <2>1. Told(s, sent')
    BY <1>4, <1>5 DEF Told
  <2> QED
    BY <1>1, <1>2, <1>4, <1>5, <2>1, Quiet
<1>6. CASE /\ \/ Refused("STOP", s, session) /\ UNCHANGED crashes
              \/ /\ crashes < MaxCrashes /\ crashes' = crashes + 1
                 /\ UNCHANGED <<sent, pending>>
           /\ Save(s, rev, FailSession(session, now))
  <2> DEFINE failed == FailSession(session, now)
  <2>1. now \in Nat
    BY <1>2 DEF TypeOK
  <2>2. /\ failed \in Session /\ failed.profile = session.profile
        /\ failed.state = "FAILED" /\ failed.rev = session.rev + 1
    BY <1>2, <1>3, <2>1, Fails DEF Ended
  <2>3. Save(s, rev, failed)
    BY <1>6
  <2> HIDE DEF failed
  <2>4. rev <= failed.rev
    BY <1>2, <1>3, <2>2
  <2>5. /\ crashes' \in 0 .. MaxCrashes /\ (crashes' = 0 => crashes = 0)
        /\ sent \subseteq sent' /\ sent' \subseteq Names /\ pending' \subseteq Commands
        /\ crashes' = 0 => Told(s, sent')
    <3>1. CASE Refused("STOP", s, session) /\ UNCHANGED crashes
      BY <1>2, <1>4, <3>1 DEF Told
    <3>2. CASE crashes < MaxCrashes /\ crashes' = crashes + 1 /\ UNCHANGED <<sent, pending>>
      BY <1>2, <3>2
    <3> QED
      BY <1>6, <3>1, <3>2
  <2>6. stored[s].rev = rev => stored[s].state \notin Ended
    BY <1>3 DEF Ended
  <2> QED
    BY <1>1, <1>2, <2>2, <2>3, <2>4, <2>5, <2>6, Onwards
<1>7. CASE /\ session.profile = "cloud"
           /\ Save(s, rev, CompleteStop(session, req[r].t))
           /\ UNCHANGED <<sent, pending, crashes>>
  <2> DEFINE done == CompleteStop(session, req[r].t)
  <2>1. /\ done \in Session /\ done.profile = session.profile
        /\ done.state = "STOPPED" /\ done.rev = session.rev + 1
    <3>1. "STOPPED" \in States
      BY DEF States, Ended
    <3>2. session \in Session /\ req[r].t \in Nat
      BY <1>2
    <3> QED
      BY <3>1, <3>2, Moved DEF CompleteStop
  <2>2. Save(s, rev, done)
    BY <1>7
  <2> HIDE DEF done
  <2>3. rev <= done.rev
    BY <1>2, <1>3, <2>1
  <2>4. stored[s].rev = rev => stored[s].state \notin Ended
    BY <1>3 DEF Ended
  <2> QED
    BY <1>1, <1>2, <1>7, <2>1, <2>2, <2>3, <2>4, Onwards
<1> QED
  BY <1>5, <1>6, <1>7 DEF Halt

-----------------------------------------------------------------------------
(* The steps of Core, of Cloud and of time *)

\* A step that touches neither a record nor a request.
LEMMA Beside ==
  ASSUME IInv, UNCHANGED <<stored, req, sent, userRequests, crashes>>, up \subseteq up', TypeOK',
         lease'.state # "ABSENT" => lease'.session \in Sessions,
         health'.status = "READY" => health'.session \in up'
  PROVE  IInv' /\ Final
<1>1. \A r \in Requests : Creates(r)' /\ Serves(r)' /\ Follows(r)'
  <2> TAKE r \in Requests
  <2>1. Creates(r) /\ Serves(r) /\ Follows(r)
    BY DEF IInv
  <2>2. Creates(r)'
    BY <2>1 DEF Creates
  <2>3. Serves(r)'
    BY <2>1 DEF Serves
  <2>4. Follows(r)'
    BY <2>1 DEF Follows, StopSent
  <2> QED
    BY <2>2, <2>3, <2>4
<1>2. CoreFollowsRecord'
  <2>1. ActiveIsOwn /\ ExpiredWasCommanded /\ StoppingIsCommanded
    BY DEF IInv, CoreFollowsRecord, EndsAreCommanded
  <2>2. ActiveIsOwn'
    BY <2>1 DEF ActiveIsOwn
  <2>3. ExpiredWasCommanded'
    BY <2>1 DEF ExpiredWasCommanded, StopSent
  <2>4. StoppingIsCommanded'
    BY <2>1 DEF StoppingIsCommanded, StopSent
  <2> QED
    BY <2>2, <2>3, <2>4 DEF CoreFollowsRecord, EndsAreCommanded
<1>3. IInv'
  BY <1>1, <1>2 DEF IInv
<1>4. Final
  BY DEF Final
<1> QED
  BY <1>3, <1>4

\* Core's own state keeps its type, and has a session once it was claimed.
Leases ==
  [state : {"ABSENT", "STARTING", "READY", "FAILED", "DRAINING", "STOPPED"},
   session : Sessions \cup {NoOne}, rev : Nat, idle : Nat, hard : Nat]
Leased == lease \in Leases /\ (lease.state # "ABSENT" => lease.session \in Sessions)

LEMMA Claims ==
  ASSUME Leased, NEW s \in Sessions, NEW idle \in Nat, NEW hard \in Nat, Claim(s, idle, hard)
  PROVE  Leased'
<1> DEFINE r == lease.rev + 1
<1>1. r \in Nat
  BY DEF Leased, Leases
<1>2. lease' = [state |-> "STARTING", session |-> s, rev |-> r, idle |-> idle, hard |-> hard]
  BY DEF Claim
<1> HIDE DEF r
<1> QED
  BY <1>1, <1>2 DEF Leased, Leases

LEMMA Drains ==
  ASSUME Leased, Drain
  PROVE  Leased'
<1> DEFINE r == lease.rev + 1
<1>1. r \in Nat
  BY DEF Leased, Leases
<1>2. lease' = [lease EXCEPT !.state = "DRAINING", !.rev = r] /\ lease.state # "ABSENT"
  BY DEF Drain, Drainable
<1> HIDE DEF r
<1>3. lease' \in Leases /\ lease'.session = lease.session
  BY <1>1, <1>2 DEF Leased, Leases
<1> QED
  BY <1>2, <1>3 DEF Leased

LEMMA Renews ==
  ASSUME Leased, NEW idle \in Nat, Renew(idle)
  PROVE  Leased'
<1> DEFINE r == lease.rev + 1
<1>1. r \in Nat
  BY DEF Leased, Leases
<1>2. lease' = [lease EXCEPT !.idle = idle, !.rev = r] /\ lease.state = "READY"
  BY DEF Renew
<1> HIDE DEF r
<1>3. lease' \in Leases /\ lease'.session = lease.session
  BY <1>1, <1>2 DEF Leased, Leases
<1> QED
  BY <1>2, <1>3 DEF Leased

LEMMA TakeStep ==
  ASSUME SessionAssumption, IInv, NEW c \in pending, Take(c)
  PROVE  IInv' /\ Final
<1>1. TypeOK /\ Leased
  BY DEF IInv, TypeOK, Leased, Leases
<1>2. /\ c \in Commands /\ now \in Nat /\ lease.hard \in Nat
  BY <1>1 DEF TypeOK, Commands, Leased, Leases
<1>3. /\ UNCHANGED beside /\ up' = up /\ pending' = pending \ {c} /\ health' = health
  BY DEF Take, Claim, Renew, Drain, core
<1>4. Leased'
  <2>1. c.s \in Sessions /\ c.hard \in Nat
    BY <1>2 DEF Commands
  <2>2. Min2(now + IdleTime, c.hard) \in Nat /\ Min2(now + IdleTime, lease.hard) \in Nat
    BY <1>2, <2>1 DEF Min2, SessionAssumption
  <2>3. CASE Claim(c.s, Min2(now + IdleTime, c.hard), c.hard)
    BY <1>1, <2>1, <2>2, <2>3, Claims
  <2>4. CASE Renew(Min2(now + IdleTime, lease.hard))
    BY <1>1, <2>2, <2>4, Renews
  <2>5. CASE Drain
    BY <1>1, <2>5, Drains
  <2>6. CASE UNCHANGED core
    BY <1>1, <2>6 DEF core, Leased
  <2> QED
    BY <2>3, <2>4, <2>5, <2>6 DEF Take
<1>5. TypeOK'
  <2>1. lease' \in Leases
    BY <1>4 DEF Leased
  <2> QED
    BY <1>1, <1>3, <2>1 DEF TypeOK, Leases, beside, bounds
<1>6. health'.status = "READY" => health'.session \in up'
  BY <1>3 DEF IInv
<1> QED
  BY <1>3, <1>4, <1>5, <1>6, Beside DEF Leased, beside, bounds

LEMMA CoreStep ==
  ASSUME IInv, CoreMoves \/ CoreReports
  PROVE  IInv' /\ Final
<1>1. TypeOK /\ Leased
  BY DEF IInv, TypeOK, Leased, Leases
<1>2. CASE CoreMoves
  <2>1. UNCHANGED beside /\ pending' = pending /\ health' = health
    BY <1>2 DEF CoreMoves, Move, Drain, Stop
  <2>2. Leased'
    <3>1. ASSUME NEW state \in {"STARTING", "READY", "FAILED"}, Move(state) PROVE Leased'
      <4>1. /\ lease' = [lease EXCEPT !.state = state] /\ lease.state # "ABSENT"
        BY <3>1 DEF Move, Up
      <4>2. lease' \in Leases /\ lease'.session = lease.session
        BY <1>1, <4>1 DEF Leased, Leases
      <4> QED
        BY <1>1, <4>1, <4>2 DEF Leased
    <3>2. ASSUME Stop PROVE Leased'
      <4>1. /\ lease' = [lease EXCEPT !.state = "STOPPED"] /\ lease.state # "ABSENT"
        BY <3>2 DEF Stop
      <4>2. lease' \in Leases /\ lease'.session = lease.session
        BY <1>1, <4>1 DEF Leased, Leases
      <4> QED
        BY <1>1, <4>1, <4>2 DEF Leased
    <3> QED
      BY <1>1, <1>2, <3>1, <3>2, Drains DEF CoreMoves
  <2>3. up \subseteq up' /\ up' \subseteq Sessions
    <3>1. lease'.state = "READY" => lease'.session \in Sessions
      BY <2>2 DEF Leased
    <3> QED
      BY <1>1, <1>2, <3>1 DEF CoreMoves, TypeOK
  <2>4. TypeOK'
    <3>1. lease' \in Leases
      BY <2>2 DEF Leased
    <3> QED
      BY <1>1, <2>1, <2>3, <3>1 DEF TypeOK, Leases, beside, bounds
  <2>5. health'.status = "READY" => health'.session \in up'
    BY <2>1, <2>3 DEF IInv
  <2> QED
    BY <2>1, <2>2, <2>3, <2>4, <2>5, Beside DEF Leased, beside, bounds
<1>3. CASE CoreReports
  <2>1. UNCHANGED beside /\ pending' = pending /\ lease' = lease /\ up' = up
    BY <1>3 DEF CoreReports, Publish
  <2>2. /\ health' \in [status : {"STOPPED", "READY", "UNHEALTHY"}, session : Sessions \cup {NoOne}]
        /\ health'.status = "READY" => health'.session \in up
    <3>1. ASSUME NEW s \in up, NEW status \in {"READY", "UNHEALTHY"}, Publish(status, s)
          PROVE  /\ health' \in [status : {"STOPPED", "READY", "UNHEALTHY"}, session : Sessions \cup {NoOne}]
                 /\ health'.session \in up
      BY <1>1, <3>1 DEF TypeOK, Publish
    <3>2. ASSUME lease.state = "STOPPED", Publish("STOPPED", lease.session)
          PROVE  /\ health' \in [status : {"STOPPED", "READY", "UNHEALTHY"}, session : Sessions \cup {NoOne}]
                 /\ health'.status = "STOPPED"
      BY <1>1, <3>2 DEF Leased, Publish
    <3> QED
      BY <1>3, <3>1, <3>2 DEF CoreReports
  <2>3. TypeOK'
    BY <1>1, <2>1, <2>2 DEF TypeOK, beside, bounds
  <2> QED
    BY <1>1, <2>1, <2>2, <2>3, Beside DEF Leased, beside, bounds
<1> QED
  BY <1>2, <1>3

LEMMA ElseStep ==
  ASSUME SessionAssumption, IInv, CloudChanges \/ Tick \/ UNCHANGED vars
  PROVE  IInv' /\ Final
<1>1. TypeOK /\ Leased
  BY DEF IInv, TypeOK, Leased, Leases
<1>2. /\ UNCHANGED <<stored, req, sent, userRequests, crashes>>
      /\ lease' = lease /\ health' = health /\ up' = up /\ pending' = pending
  BY DEF CloudChanges, Tick, vars, svars, core, bounds
<1>3. now' \in 0 .. MaxTime /\ cloud' \in Generations \cup {"down"} /\ changes' \in 0 .. MaxChanges
  BY <1>1 DEF TypeOK, SessionAssumption, CloudChanges, Tick, vars, svars, bounds
<1>4. TypeOK'
  BY <1>1, <1>2, <1>3 DEF TypeOK
<1>5. health'.status = "READY" => health'.session \in up'
  BY <1>2 DEF IInv
<1> QED
  BY <1>1, <1>2, <1>4, <1>5, Beside DEF Leased

-----------------------------------------------------------------------------
(* The theorems *)

LEMMA Initially ==
  ASSUME SessionAssumption, SInit
  PROVE  IInv
<1>1. TypeOK
  <2>1. pending \subseteq Commands
    BY DEF SInit, SessionAssumption, Commands
  <2> QED
    BY <2>1 DEF SInit, Init, NoLease, TypeOK, SessionAssumption, Commands, Idle
<1>2. CoreFollowsRecord
  BY DEF SInit, CoreFollowsRecord, ActiveIsOwn, EndsAreCommanded, ExpiredWasCommanded,
         StoppingIsCommanded
<1>3. \A r \in Requests : Creates(r) /\ Serves(r) /\ Follows(r)
  BY DEF SInit, Idle, Creates, Serves, Follows
<1> QED
  BY <1>1, <1>2, <1>3 DEF IInv, SInit, Init, NoLease

LEMMA Kept ==
  ASSUME SessionAssumption, IInv, [SNext]_vars
  PROVE  IInv' /\ Final
<1>1. ASSUME NEW r \in Requests, NEW s \in Sessions \ Others,
             NEW asked \in {"auto", "cloud", "core"}, Start(r, s, asked)
      PROVE  IInv' /\ Final
  BY <1>1, StartStep
<1>2. ASSUME NEW r \in Requests, NEW s \in Sessions \ Others,
             NEW op \in {"status", "activity", "stop"}, Arrive(r, s, op)
      PROVE  IInv' /\ Final
  BY <1>2, ArriveStep
<1>3. ASSUME NEW r \in Requests, Work(r) \/ Die(r)
      PROVE  IInv' /\ Final
  BY <1>3, PutStep, LaunchStep, ExpireStep, SavedStep, ActivityStep, RefreshStep, StoppingStep,
     HaltStep, DieStep DEF Work
<1>4. ASSUME NEW c \in pending, Take(c)
      PROVE  IInv' /\ Final
  BY <1>4, TakeStep
<1> QED
  BY <1>1, <1>2, <1>3, <1>4, CoreStep, ElseStep DEF SNext

\* The inductive invariant: a request that still has the revision it read knows the
\* item, and what it is about to record is what Core did or was told.
THEOREM Invariant == SSpec => []IInv
<1>1. SInit => IInv
  BY Initially, SessionAssumption
<1>2. IInv /\ [SNext]_vars => IInv'
  BY Kept, SessionAssumption
<1> QED
  BY <1>1, <1>2, PTL DEF SSpec

\* Every variable keeps its type.
THEOREM TypeCorrect == SSpec => []TypeOK
<1>1. IInv => TypeOK
  BY DEF IInv
<1> QED
  BY <1>1, Invariant, PTL

\* Core runs for the session whose record says so: a session is ACTIVE only on its own
\* Core, and its recorded end is one that Core was told, whatever requests overlap, come
\* late, are repeated or die (reconcile, recordActivity, stopSession).
THEOREM RecordsHold == SSpec => []CoreFollowsRecord
<1>1. IInv => CoreFollowsRecord
  BY DEF IInv
<1> QED
  BY <1>1, Invariant, PTL

\* A session that was recorded as stopped, expired or failed is never changed again
\* (updateSession against the revision that a request read).
THEOREM EndsAreFinal == SSpec => TerminalIsFinal
<1>1. IInv /\ [SNext]_vars =>
        [\A s \in Sessions : stored[s] # Never /\ stored[s].state \in Ended => stored'[s] = stored[s]]_vars
  BY Kept, SessionAssumption DEF Final
<1> QED
  BY <1>1, Invariant, PTL DEF SSpec, TerminalIsFinal

-----------------------------------------------------------------------------
(* The page *)

Used(s) == s \in Page!SessionIds /\ sessions[s] # "NONE"

PanelTypes ==
  /\ sessions \in [Page!SessionIds -> Page!SessionStates]
  /\ panel \in [session : Nat, state : Page!SessionStates]
  /\ saved \in Nat
  /\ polls \subseteq [session : Nat, state : Page!SessionStates]
  /\ command \in [op : {"none", "start", "extend", "stop", "recover"},
                  answer : [session : Nat, state : Page!SessionStates]]

RunTypes ==
  /\ runs \in [Page!RunIds -> [session : Nat, status : Page!Statuses,
                               decision : {"none", "APPROVE", "REJECT"}]]
  /\ page \in [run : Nat, status : Page!Statuses]
  /\ handler \in [op : {"none", "start", "improve", "APPROVE", "REJECT", "poll"},
                  id : Nat, stop : BOOLEAN, failures : Nat]

OfRuns ==
  /\ page.status # "NONE" => page.run \in Page!RunIds
  /\ handler.op \notin {"none", "start"} => handler.id \in Page!RunIds
  /\ handler.op = "none" => handler = Page!NoTask

InOrder ==
  \A s \in Page!SessionIds : Used(s) => \A t \in 1 .. s - 1 : sessions[t] # "NONE"

Known ==
  /\ panel = Page!NotShown \/ Used(panel.session)
  /\ saved # 0 => Used(saved)

PollsOfPanel ==
  \A answer \in polls : answer.session = panel.session /\ Used(answer.session)

CommandOfPanel ==
  /\ command.op \in {"extend", "stop"} => command.answer.session = panel.session /\ Used(panel.session)
  /\ command.op = "recover" => panel = Page!NotShown /\ Used(command.answer.session)
  /\ command.op = "start" /\ command.answer.state # "NONE" =>
       command.answer.session > panel.session /\ Used(command.answer.session)
  /\ command.op = "none" => command = Page!NoCommand

PanelIInv == PanelTypes /\ InOrder /\ Known /\ PollsOfPanel /\ CommandOfPanel
RunIInv == RunTypes /\ OfRuns /\ PageIsTruthful

-----------------------------------------------------------------------------
(* The panel *)

\* What is known of the sessions outlives a step that gives one of them a state, if
\* that one was known or is the next.
LEMMA SessionMoved ==
  ASSUME PanelTypes, InOrder, NEW s \in Page!SessionIds, NEW next \in Page!SessionStates,
         next # "NONE", \A t \in 1 .. s - 1 : sessions[t] # "NONE",
         sessions' = [sessions EXCEPT ![s] = next]
  PROVE  /\ sessions' \in [Page!SessionIds -> Page!SessionStates]
         /\ InOrder'
         /\ \A t : Used(t) => Used(t)'
         /\ Used(s)'
<1> USE DEF Page!SessionIds
<1>1. /\ sessions' \in [Page!SessionIds -> Page!SessionStates]
      /\ sessions'[s] = next
      /\ \A t \in Page!SessionIds \ {s} : sessions'[t] = sessions[t]
  BY DEF PanelTypes
<1>2. \A t \in Page!SessionIds : sessions[t] # "NONE" => sessions'[t] # "NONE"
  BY <1>1
<1>3. MaxSessions \in Nat
  BY PageAssumption DEF Page!PageAssumption
<1>4. ASSUME NEW u \in Page!SessionIds, sessions'[u] # "NONE", NEW t \in 1 .. u - 1
      PROVE  sessions'[t] # "NONE"
  <2>1. t \in Page!SessionIds
    BY <1>3
  <2>2. sessions[t] # "NONE"
    BY <1>1, <1>4, <2>1 DEF InOrder, Used
  <2> QED
    BY <1>2, <2>1, <2>2
<1>5. QED
  BY <1>1, <1>2, <1>4 DEF InOrder, Used

\* A request of the panel that is not answered yet, or not sent, relies on nothing
\* that the move of a session could change.
LEMMA PanelKeeps ==
  ASSUME PanelIInv, sessions' \in [Page!SessionIds -> Page!SessionStates], InOrder',
         \A t : Used(t) => Used(t)', UNCHANGED <<panel, saved, polls, command>>
  PROVE  PanelIInv'
  BY DEF PanelIInv, PanelTypes, InOrder, Known, PollsOfPanel, CommandOfPanel

\* The panel is as it was when nothing of it moves.
LEMMA PanelRests ==
  ASSUME PanelIInv, UNCHANGED <<sessions, panel, saved, polls, command>>
  PROVE  PanelIInv'
  BY DEF PanelIInv, PanelTypes, InOrder, Known, PollsOfPanel, CommandOfPanel, Used

\* An unused id is one that every known session is before.
LEMMA UnusedIsLater ==
  ASSUME PanelIInv, NEW new \in Page!NewSessions
  PROVE  /\ new \in Page!SessionIds /\ \A t \in 1 .. new - 1 : sessions[t] # "NONE"
         /\ \A t : Used(t) => t < new
<1>1. new \in Page!SessionIds /\ sessions[new] = "NONE" /\ \A t \in 1 .. new - 1 : sessions[t] # "NONE"
  BY DEF Page!NewSessions, Page!Unused
<1>2. ASSUME NEW t, Used(t) PROVE t < new
  <2>1. t \in Page!SessionIds /\ sessions[t] # "NONE" /\ \A u \in 1 .. t - 1 : sessions[u] # "NONE"
    BY <1>2 DEF PanelIInv, InOrder, Used
  <2>2. t \in Nat /\ new \in Nat /\ new >= 1
    BY <1>1, <2>1, PageAssumption DEF Page!SessionIds, Page!PageAssumption
  <2>3. new \notin 1 .. t - 1 /\ t # new
    BY <1>1, <2>1
  <2> QED
    BY <2>2, <2>3
<1>3. QED
  BY <1>1, <1>2


\* ServerMoves, of a session: it goes on from a state in which it is known.
LEMMA SessionMoves ==
  ASSUME PanelIInv, NEW s \in Page!SessionIds, NEW next \in Page!SessionStates,
         <<sessions[s], next>> \in Page!SessionMoves,
         sessions' = [sessions EXCEPT ![s] = next], UNCHANGED <<panel, saved, polls, command>>
  PROVE  PanelIInv'
<1>1. sessions[s] # "NONE" /\ next # "NONE"
  BY DEF Page!SessionMoves
<1>2. \A t \in 1 .. s - 1 : sessions[t] # "NONE"
  BY <1>1 DEF PanelIInv, InOrder, Used
<1>3. QED
  BY <1>1, <1>2, SessionMoved, PanelKeeps DEF PanelIInv

\* Poll: a request is about the session that is shown.
LEMMA PollStep ==
  ASSUME PanelIInv, Page!Poll
  PROVE  PanelIInv'
<1>1. panel.state \in Page!Live /\ panel \in [session : Nat, state : Page!SessionStates]
  BY DEF Page!Poll, PanelIInv, PanelTypes
<1>2. PICK answer : answer = [session |-> panel.session, state |-> sessions[panel.session]]
  OBVIOUS
<1>3. polls' = polls \cup {answer}
  BY <1>2 DEF Page!Poll
<1>4. Used(panel.session)
  BY <1>1 DEF PanelIInv, Known, Page!Live, Page!NotShown
<1>5. /\ answer \in [session : Nat, state : Page!SessionStates]
      /\ answer.session = panel.session /\ Used(answer.session)
  BY <1>1, <1>2, <1>4 DEF PanelIInv, PanelTypes, Used
<1>6. UNCHANGED <<sessions, panel, saved, command>>
  BY DEF Page!Poll, Page!server
<1>7. PanelTypes'
  BY <1>3, <1>5, <1>6 DEF PanelIInv, PanelTypes
<1>8. PollsOfPanel'
  BY <1>3, <1>5, <1>6 DEF PanelIInv, PollsOfPanel, Used
<1>9. QED
  BY <1>6, <1>7, <1>8 DEF PanelIInv, InOrder, Known, CommandOfPanel, Used

\* Issue: a request is about the session that is shown, or a new one.
LEMMA IssueStep ==
  ASSUME PanelIInv, NEW op \in {"start", "extend", "stop"}, Page!Issue(op)
  PROVE  PanelIInv'
<1>1. /\ op = "start" => panel.state \notin Page!Live
      /\ op = "extend" => panel.state = "READY"
      /\ op = "stop" => panel.state \in Page!Live
  BY DEF Page!Issue
<1>2. PICK next : next = [op |-> op, answer |-> [session |-> panel.session, state |-> "NONE"]]
  OBVIOUS
<1>3. command' = next
  <2>1. PICK shown : shown = panel.session
    OBVIOUS
  <2>2. PICK none : none = [session |-> 0, state |-> "NONE"]
    OBVIOUS
  <2>3. [none EXCEPT !.session = shown] = [session |-> shown, state |-> "NONE"]
    BY <2>2
  <2>4. Page!NoCommand = [op |-> "none", answer |-> none]
    BY <2>2 DEF Page!NoCommand, Page!NotShown
  <2>5. command' = [Page!NoCommand EXCEPT !.op = op, !.answer.session = shown]
    BY <2>1 DEF Page!Issue
  <2>6. command' = [op |-> op, answer |-> [none EXCEPT !.session = shown]]
    BY <2>4, <2>5
  <2> QED
    BY <1>2, <2>1, <2>3, <2>6
<1>4. panel \in [session : Nat, state : Page!SessionStates]
  BY DEF PanelIInv, PanelTypes
<1>5. op # "start" => Used(panel.session)
  BY <1>1 DEF PanelIInv, Known, Page!Live, Page!NotShown
<1>6. UNCHANGED <<sessions, panel, saved, polls>>
  BY DEF Page!Issue, Page!server
<1>7. next \in [op : {"none", "start", "extend", "stop", "recover"},
                answer : [session : Nat, state : Page!SessionStates]]
  BY <1>2, <1>4 DEF Page!SessionStates
<1>8. PanelTypes'
  BY <1>3, <1>6, <1>7 DEF PanelIInv, PanelTypes
<1>9. CommandOfPanel'
  BY <1>2, <1>3, <1>5, <1>6 DEF CommandOfPanel, Used
<1>10. QED
  BY <1>6, <1>8, <1>9 DEF PanelIInv, InOrder, Known, PollsOfPanel, Used

\* The page is not waiting any more, and shows what it did.
LEMMA Freed ==
  ASSUME PanelIInv, command' = Page!NoCommand, UNCHANGED <<sessions, panel, saved, polls>>
  PROVE  PanelIInv'
<1>1. Page!NoCommand \in [op : {"none", "start", "extend", "stop", "recover"},
                          answer : [session : Nat, state : Page!SessionStates]]
  BY DEF Page!NoCommand, Page!NotShown, Page!SessionStates
<1>2. PanelTypes'
  BY <1>1 DEF PanelIInv, PanelTypes
<1>3. CommandOfPanel'
  BY DEF CommandOfPanel, Page!NoCommand
<1>4. QED
  BY <1>2, <1>3 DEF PanelIInv, InOrder, Known, PollsOfPanel, Used

\* The server answers a request about the session it names, or a new one.
LEMMA AnswerKeeps ==
  ASSUME PanelIInv, NEW s \in Nat, NEW state \in Page!SessionStates, state # "NONE",
         command.op # "none",
         sessions' \in [Page!SessionIds -> Page!SessionStates], InOrder',
         \A t : Used(t) => Used(t)',
         Used(s)', command.op = "start" => s > panel.session,
         command.op # "start" => s = command.answer.session,
         Page!Answer(s, state), UNCHANGED <<panel, saved, polls>>
  PROVE  PanelIInv'
<1>1. PICK next : next = [session |-> s, state |-> state]
  OBVIOUS
<1>2. next \in [session : Nat, state : Page!SessionStates] /\ next.session = s
  BY <1>1
<1>3. /\ command' = [command EXCEPT !.answer = next]
      /\ command \in [op : {"none", "start", "extend", "stop", "recover"},
                      answer : [session : Nat, state : Page!SessionStates]]
  BY <1>1 DEF Page!Answer, PanelIInv, PanelTypes
<1>4. /\ command' \in [op : {"none", "start", "extend", "stop", "recover"},
                      answer : [session : Nat, state : Page!SessionStates]]
      /\ command'.op = command.op /\ command'.answer = next
  BY <1>2, <1>3
<1>5. PanelTypes'
  BY <1>4 DEF PanelIInv, PanelTypes
<1>6. CommandOfPanel'
  BY <1>2, <1>4 DEF PanelIInv, CommandOfPanel
<1>7. QED
  BY <1>5, <1>6 DEF PanelIInv, Known, PollsOfPanel


\* Carried: the server answers about the session of the request, or with the first id
\* that is free.
LEMMA CarriedStep ==
  ASSUME PanelIInv, Page!Carried
  PROVE  PanelIInv'
<1> DEFINE s == command.answer.session
<1>1. /\ command.op # "none" /\ UNCHANGED <<panel, saved, polls>>
      /\ s \in Nat /\ panel.session \in Nat
  BY DEF Page!Carried, PanelIInv, PanelTypes
<1>2. sessions \in [Page!SessionIds -> Page!SessionStates] /\ PanelTypes /\ InOrder
  BY DEF PanelIInv, PanelTypes
<1>3. CASE Page!Refuse /\ UNCHANGED sessions
  BY <1>1, <1>3, Freed DEF Page!Refuse
<1>4. ASSUME NEW new \in Page!NewSessions,
             NEW state \in {"STARTING", "READY"}, command.op = "start",
             sessions' = [sessions EXCEPT ![new] = state], Page!Answer(new, state)
      PROVE  PanelIInv'
  <2>1. /\ new \in Page!SessionIds /\ \A t \in 1 .. new - 1 : sessions[t] # "NONE"
        /\ \A t : Used(t) => t < new
    BY UnusedIsLater
  <2>2. state \in Page!SessionStates /\ state # "NONE"
    BY DEF Page!SessionStates, Page!Live
  <2>3. /\ sessions' \in [Page!SessionIds -> Page!SessionStates] /\ InOrder'
        /\ (\A t : Used(t) => Used(t)') /\ Used(new)'
    BY <1>2, <1>4, <2>1, <2>2, SessionMoved
  <2>4. new \in Nat /\ new > 0
    BY <2>1, PageAssumption DEF Page!SessionIds, Page!PageAssumption
  <2>5. new > panel.session
    BY <1>1, <2>1, <2>4 DEF PanelIInv, Known, Page!NotShown
  <2> QED
    BY <1>1, <1>4, <2>2, <2>3, <2>4, <2>5, AnswerKeeps
<1>5. ASSUME command.op \in {"extend", "stop", "recover"}, UNCHANGED sessions,
             Page!Answer(s, sessions[s])
      PROVE  PanelIInv'
  <2>1. Used(s)
    BY <1>5 DEF PanelIInv, CommandOfPanel
  <2>2. PICK state : state = sessions[s]
    OBVIOUS
  <2>3. state \in Page!SessionStates /\ state # "NONE" /\ Page!Answer(s, state)
    BY <1>2, <1>5, <2>1, <2>2 DEF Used
  <2>4. InOrder' /\ \A t : Used(t) => Used(t)'
    BY <1>2, <1>5 DEF InOrder, Used
  <2> QED
    BY <1>1, <1>2, <1>5, <2>1, <2>3, <2>4, AnswerKeeps
<1>6. ASSUME command.op = "extend", sessions[s] = "READY", UNCHANGED sessions,
             Page!Answer(s, "READY")
      PROVE  PanelIInv'
  BY <1>5, <1>6
<1>7. ASSUME command.op = "stop", sessions[s] \in {"STARTING", "READY"},
             NEW state \in {"STOPPING", "ENDED"},
             sessions' = [sessions EXCEPT ![s] = state], Page!Answer(s, state)
      PROVE  PanelIInv'
  <2>0. PICK u : u = s
    OBVIOUS
  <2>1. u \in Page!SessionIds /\ \A t \in 1 .. u - 1 : sessions[t] # "NONE"
    BY <1>7, <2>0 DEF PanelIInv, CommandOfPanel, InOrder, Used
  <2>2. state \in Page!SessionStates /\ state # "NONE"
    BY DEF Page!SessionStates, Page!Live
  <2>3. sessions' = [sessions EXCEPT ![u] = state] /\ Page!Answer(u, state)
    BY <1>7, <2>0
  <2>4. /\ sessions' \in [Page!SessionIds -> Page!SessionStates] /\ InOrder'
        /\ (\A t : Used(t) => Used(t)') /\ Used(u)'
    BY ONLY <1>2, <2>1, <2>2, <2>3, SessionMoved
  <2>5. u \in Nat /\ command.op # "start" /\ u = command.answer.session
    BY <1>1, <1>7, <2>0
  <2> HIDE DEF s
  <2> QED
    BY <1>1, <2>2, <2>3, <2>4, <2>5, AnswerKeeps
<1>8. \/ Page!Refuse /\ UNCHANGED sessions
      \/ \E new \in Page!NewSessions, state \in {"STARTING", "READY"} :
           command.op = "start" /\ sessions' = [sessions EXCEPT ![new] = state] /\ Page!Answer(new, state)
      \/ command.op = "extend" /\ sessions[s] = "READY" /\ UNCHANGED sessions /\ Page!Answer(s, "READY")
      \/ /\ command.op = "stop" /\ sessions[s] \in {"STARTING", "READY"}
         /\ \E state \in {"STOPPING", "ENDED"} :
              sessions' = [sessions EXCEPT ![s] = state] /\ Page!Answer(s, state)
      \/ command.op \in {"stop", "recover"} /\ UNCHANGED sessions /\ Page!Answer(s, sessions[s])
  BY DEF Page!Carried
<1>9. QED
  BY <1>3, <1>4, <1>5, <1>6, <1>7, <1>8

\* publish, of an answer about a session that is known.
LEMMA PublishStep ==
  ASSUME PanelIInv, NEW next \in [session : Nat, state : Page!SessionStates],
         Used(next.session), Page!Publish(next),
         polls' \subseteq Page!Kept(panel, next), UNCHANGED sessions,
         command' = command \/ command' = Page!NoCommand,
         next.session = panel.session \/ command' = Page!NoCommand,
         command' = command => command.op # "recover"
  PROVE  PanelIInv'
<1>1. panel' = next /\ saved' \in {0, next.session}
  BY DEF Page!Publish
<1>2. polls' \subseteq polls /\ (polls' = {} \/ panel' = panel)
  BY <1>1 DEF Page!Kept
<1>3. Page!NoCommand \in [op : {"none", "start", "extend", "stop", "recover"},
                          answer : [session : Nat, state : Page!SessionStates]]
      /\ Page!NoCommand.op = "none"
  BY DEF Page!NoCommand, Page!NotShown, Page!SessionStates
<1>4. PanelTypes'
  BY <1>1, <1>2, <1>3 DEF PanelIInv, PanelTypes
<1>5. CommandOfPanel'
  <2>1. CASE command' = Page!NoCommand
    BY <1>3, <2>1 DEF CommandOfPanel
  <2>2. CASE command' = command /\ next.session = panel.session
    BY <1>1, <2>2 DEF PanelIInv, CommandOfPanel, Used
  <2> QED
    BY <2>1, <2>2
<1>6. Known' /\ PollsOfPanel' /\ InOrder'
  BY <1>1, <1>2 DEF PanelIInv, Known, PollsOfPanel, InOrder, Used
<1>7. QED
  BY <1>4, <1>5, <1>6 DEF PanelIInv


\* PollAnswered: an answer about the session that is shown.
LEMMA PollAnsweredStep ==
  ASSUME PanelIInv, NEW answer, Page!PollAnswered(answer)
  PROVE  PanelIInv' /\ (panel' = panel \/ panel'.session = panel.session)
<1>1. /\ answer \in polls /\ answer \in [session : Nat, state : Page!SessionStates]
      /\ answer.session = panel.session /\ Used(answer.session)
      /\ UNCHANGED <<sessions, command>>
  BY DEF Page!PollAnswered, Page!server, PanelIInv, PanelTypes, PollsOfPanel
<1>2. CASE answer.state = "GONE"
  <2>1. polls' \subseteq polls /\ UNCHANGED <<panel, saved>>
    BY <1>2 DEF Page!PollAnswered
  <2> QED
    BY <1>1, <2>1 DEF PanelIInv, PanelTypes, InOrder, Known, PollsOfPanel, CommandOfPanel, Used
<1>3. CASE answer.state # "GONE"
  <2>1. Page!Publish(answer) /\ polls' \subseteq Page!Kept(panel, answer)
    BY <1>3 DEF Page!PollAnswered
  <2>2. command.op # "recover"
    BY <1>1, PageAssumption
    DEF PanelIInv, CommandOfPanel, Page!NotShown, Used, Page!SessionIds, Page!PageAssumption
  <2> QED
    BY <1>1, <2>1, <2>2, PublishStep DEF Page!Publish
<1>4. QED
  BY <1>2, <1>3

\* Answered: what a request of the panel comes to is about the session that is shown,
\* or a later one.
LEMMA AnsweredStep ==
  ASSUME PanelIInv, Page!Answered
  PROVE  PanelIInv' /\ (panel' = panel \/ panel'.session >= panel.session)
<1>1. PICK next : next = command.answer
  OBVIOUS
<1>2. /\ next \in [session : Nat, state : Page!SessionStates] /\ next.state # "NONE"
      /\ command' = Page!NoCommand /\ UNCHANGED sessions
  BY <1>1 DEF Page!Answered, Page!server, PanelIInv, PanelTypes
<1>3. CASE next.state = "GONE"
  <2>1. saved' = 0 /\ UNCHANGED <<panel, polls>>
    BY <1>1, <1>3 DEF Page!Answered
  <2>2. Page!NoCommand \in [op : {"none", "start", "extend", "stop", "recover"},
                            answer : [session : Nat, state : Page!SessionStates]]
        /\ Page!NoCommand.op = "none"
    BY DEF Page!NoCommand, Page!NotShown, Page!SessionStates
  <2>3. PanelTypes'
    BY <1>2, <2>1, <2>2 DEF PanelIInv, PanelTypes
  <2>4. CommandOfPanel'
    BY <1>2, <2>2 DEF CommandOfPanel
  <2> QED
    BY <1>2, <2>1, <2>3, <2>4 DEF PanelIInv, InOrder, Known, PollsOfPanel, Used
<1>4. CASE next.state # "GONE"
  <2>1. Page!Publish(next) /\ polls' \subseteq Page!Kept(panel, next)
    BY <1>1, <1>4 DEF Page!Answered
  <2>2. command.op \in {"start", "extend", "stop", "recover"}
    BY <1>1, <1>2 DEF PanelIInv, PanelTypes, CommandOfPanel, Page!NoCommand, Page!NotShown
  <2>3. panel \in [session : Nat, state : Page!SessionStates]
    BY DEF PanelIInv, PanelTypes
  <2>4. Used(next.session) /\ next.session >= panel.session
    <3>1. CASE command.op = "start"
      BY <1>1, <1>2, <2>3, <3>1 DEF PanelIInv, CommandOfPanel
    <3>2. CASE command.op \in {"extend", "stop"}
      BY <1>1, <1>2, <2>3, <3>2 DEF PanelIInv, CommandOfPanel
    <3>3. CASE command.op = "recover"
      BY <1>1, <1>2, <3>3 DEF PanelIInv, CommandOfPanel, Page!NotShown
    <3> QED
      BY <2>2, <3>1, <3>2, <3>3
  <2>5. PanelIInv'
    <3>1. command' = command => command.op # "recover"
      BY <1>2 DEF Page!NoCommand
    <3> QED
      BY <1>2, <2>1, <2>4, <3>1, PublishStep
  <2>6. panel' = next
    BY <2>1 DEF Page!Publish
  <2> QED
    BY <2>4, <2>5, <2>6
<1>5. QED
  BY <1>3, <1>4

\* Reload: the page comes up with nothing to show, and asks for the saved session.
LEMMA ReloadPanel ==
  ASSUME PanelIInv, Page!Reload
  PROVE  PanelIInv' /\ panel'.session = 0
<1>1. /\ panel' = Page!NotShown /\ polls' = {} /\ UNCHANGED <<sessions, saved>>
      /\ command' = IF saved = 0 THEN Page!NoCommand
                    ELSE [op |-> "recover", answer |-> [session |-> saved, state |-> "NONE"]]
  BY DEF Page!Reload, Page!server
<1>2. Page!NotShown \in [session : Nat, state : Page!SessionStates]
      /\ Page!NotShown.session = 0
  BY DEF Page!NotShown, Page!SessionStates
<1>3. saved \in Nat /\ "NONE" \in Page!SessionStates
  BY DEF PanelIInv, PanelTypes, Page!SessionStates
<1>4. /\ command' \in [op : {"none", "start", "extend", "stop", "recover"},
                      answer : [session : Nat, state : Page!SessionStates]]
      /\ command'.op = "none" => command' = Page!NoCommand
      /\ command'.op # "none" => command'.op = "recover" /\ command'.answer.session = saved /\ saved # 0
  <2>1. CASE saved = 0
    BY <1>1, <1>2, <2>1 DEF Page!NoCommand
  <2>2. CASE saved # 0
    BY <1>1, <1>3, <2>2
  <2> QED
    BY <2>1, <2>2
<1>5. PanelTypes'
  BY <1>1, <1>2, <1>4 DEF PanelIInv, PanelTypes
<1>6. CommandOfPanel' /\ Known' /\ PollsOfPanel' /\ InOrder'
  BY <1>1, <1>2, <1>4 DEF PanelIInv, CommandOfPanel, Known, PollsOfPanel, InOrder, Used
<1>7. QED
  BY <1>1, <1>2, <1>5, <1>6 DEF PanelIInv


\* A step of the page keeps what is known of the panel, and the session that it
\* shows gives way only to a later one.
LEMMA PanelMoves ==
  ASSUME PanelIInv, Page!Next
  PROVE  PanelIInv' /\ (panel'.session # 0 => panel'.session >= panel.session)
<1> USE DEF Page!server, Page!panelVars, Page!runVars
<1>0. panel.session \in Nat
  BY DEF PanelIInv, PanelTypes
<1>1. CASE Page!ServerMoves
  <2>1. UNCHANGED <<panel, saved, polls, command>>
    BY <1>1 DEF Page!ServerMoves
  <2>2. \/ \E s \in Page!SessionIds, next \in Page!SessionStates :
             /\ <<sessions[s], next>> \in Page!SessionMoves
             /\ sessions' = [sessions EXCEPT ![s] = next]
        \/ UNCHANGED sessions
    BY <1>1 DEF Page!ServerMoves
  <2>3. PanelIInv'
    <3>1. ASSUME NEW s \in Page!SessionIds, NEW next \in Page!SessionStates,
                 <<sessions[s], next>> \in Page!SessionMoves,
                 sessions' = [sessions EXCEPT ![s] = next]
          PROVE  PanelIInv'
      BY <2>1, <3>1, SessionMoves
    <3>2. CASE UNCHANGED sessions
      BY <2>1, <3>2, PanelRests
    <3> QED
      BY <2>2, <3>1, <3>2
  <2> QED
    BY <1>0, <2>1, <2>3
<1>2. CASE Page!Poll
  BY <1>0, <1>2, PollStep DEF Page!Poll
<1>3. ASSUME NEW answer \in polls, Page!PollAnswered(answer) PROVE PanelIInv' /\ panel'.session >= panel.session
  BY <1>0, <1>3, PollAnsweredStep
<1>4. ASSUME NEW op \in {"start", "extend", "stop"}, Page!Issue(op) PROVE PanelIInv' /\ panel' = panel
  BY <1>4, IssueStep DEF Page!Issue
<1>5. CASE Page!Carried
  BY <1>0, <1>5, CarriedStep DEF Page!Carried
<1>6. CASE Page!Answered
  BY <1>0, <1>6, AnsweredStep
<1>7. CASE Page!CommandLost
  BY <1>0, <1>7, Freed DEF Page!CommandLost
<1>8. CASE Page!Judge
  <2>1. UNCHANGED <<sessions, panel, saved, polls, command>>
    BY <1>8 DEF Page!Judge, Page!RunAudit, Page!RequestImprove, Page!Decide, Page!Ask
  <2> QED
    BY <1>0, <2>1, PanelRests
<1>9. CASE Page!Handler
  <2>1. UNCHANGED <<sessions, panel, saved, polls, command>>
    BY <1>9 DEF Page!Handler, Page!Started, Page!Improved, Page!Decided, Page!Polled,
                Page!Denied, Page!TaskKeeps
  <2> QED
    BY <1>0, <2>1, PanelRests
<1>10. CASE Page!Reload
  BY <1>10, ReloadPanel
<1>11. QED
  BY <1>0, <1>1, <1>2, <1>3, <1>4, <1>5, <1>6, <1>7, <1>8, <1>9, <1>10 DEF Page!Next, Page!Panel

-----------------------------------------------------------------------------
(* The run *)

\* Nothing follows an outcome, and no status is followed by none.
LEMMA Succession ==
  ASSUME NEW a, NEW b, <<a, b>> \in Page!OnItsOwn \cup Page!ByRequest
  PROVE  a \notin Page!Outcomes /\ b \in Page!Statuses /\ b # "NONE"
<1>1. CASE <<a, b>> \in Page!OnItsOwn
  BY <1>1 DEF Page!OnItsOwn, Page!Outcomes, Page!Statuses, Page!UnderWay, Page!Awaiting
<1>2. CASE <<a, b>> \in Page!ByRequest
  BY <1>2 DEF Page!ByRequest, Page!Outcomes, Page!Statuses, Page!UnderWay, Page!Awaiting
<1>3. QED
  BY <1>1, <1>2

\* The page takes a status as it comes, unless it is that of a run that succeeded.
LEMMA AcceptedStatus ==
  ASSUME NEW status
  PROVE  Page!Accepted(status) <=> status # "SUCCEEDED"
<1>1. CASE status = "SUCCEEDED"
  BY <1>1 DEF Page!Accepted, Page!Document, Page!BoundCompletion, Page!Grounded
<1>2. CASE status # "SUCCEEDED"
  BY <1>2 DEF Page!Accepted, Page!Document, Page!BoundProposal, Page!BoundCompletion,
              Page!BoundDelta, Page!Grounded
<1>3. QED
  BY <1>1, <1>2

\* The run is as it was when nothing of it moves.
LEMMA RunRests ==
  ASSUME RunIInv, UNCHANGED <<runs, page, handler, fault>>
  PROVE  RunIInv'
  BY DEF RunIInv, RunTypes, OfRuns, PageIsTruthful, Page!PageIsTruthful, Page!ShownIsReal,
         Page!RefusedIsSuccess, Page!IdleIsExplained, Page!Busy

\* What the page shows of runs stays true when a run that had no outcome moves.
LEMMA RunsMoved ==
  ASSUME RunIInv, NEW r \in Page!RunIds,
         runs' \in [Page!RunIds -> [session : Nat, status : Page!Statuses,
                               decision : {"none", "APPROVE", "REJECT"}]],
         \A q \in Page!RunIds \ {r} : runs'[q].status = runs[q].status,
         runs[r].status \notin Page!Outcomes \/ runs'[r].status = runs[r].status,
         UNCHANGED page
  PROVE  /\ Page!ShownIsReal'
         /\ (\E q \in Page!RunIds : runs[q].status = "SUCCEEDED") =>
              \E q \in Page!RunIds : runs'[q].status = "SUCCEEDED"
  BY DEF RunIInv, RunTypes, OfRuns, PageIsTruthful, Page!PageIsTruthful, Page!ShownIsReal,
         Page!Outcomes


\* What an action of the run has to show: what the page says is true again.
LEMMA RunAgain ==
  ASSUME RunTypes', OfRuns', Page!ShownIsReal',
         fault' = "refused" => \E q \in Page!RunIds : runs'[q].status = "SUCCEEDED",
         page'.status \in Page!UnderWay => handler'.op # "none" \/ fault' # "none"
  PROVE  RunIInv'
<1>1. handler'.op # "none" => handler' # Page!NoTask
  BY DEF Page!NoTask
<1>2. QED
  BY <1>1 DEF RunIInv, PageIsTruthful, Page!PageIsTruthful, Page!RefusedIsSuccess,
              Page!IdleIsExplained, Page!Busy

\* What the invariant says of the state before.
LEMMA RunBefore ==
  ASSUME RunIInv
  PROVE  /\ RunTypes /\ OfRuns /\ Page!ShownIsReal
         /\ fault = "refused" => \E q \in Page!RunIds : runs[q].status = "SUCCEEDED"
         /\ page.status \in Page!UnderWay => handler.op # "none" \/ fault # "none"
<1>1. handler = Page!NoTask \/ handler.op # "none"
  BY DEF RunIInv, OfRuns
<1>2. QED
  BY <1>1 DEF RunIInv, PageIsTruthful, Page!PageIsTruthful, Page!RefusedIsSuccess,
              Page!IdleIsExplained, Page!Busy


\* The handler gives up, with an error.
LEMMA Failed ==
  ASSUME RunIInv, NEW f, Page!Fail(f), f # "none", UNCHANGED <<runs, page>>,
         f = "refused" => \E q \in Page!RunIds : runs[q].status = "SUCCEEDED"
  PROVE  RunIInv'
<1>1. handler' = Page!NoTask /\ fault' = f
  BY DEF Page!Fail
<1>2. /\ Page!NoTask.op = "none"
      /\ Page!NoTask \in [op : {"none", "start", "improve", "APPROVE", "REJECT", "poll"},
                          id : Nat, stop : BOOLEAN, failures : Nat]
  BY DEF Page!NoTask
<1>3. RunTypes' /\ OfRuns'
  BY <1>1, <1>2, RunBefore DEF RunTypes, OfRuns
<1>4. Page!ShownIsReal'
  BY RunBefore DEF Page!ShownIsReal
<1>5. QED
  BY <1>1, <1>2, <1>3, <1>4, RunBefore, RunAgain

\* The handler turns to its next request.
LEMMA TaskSet ==
  ASSUME NEW op \in {"start", "improve", "APPROVE", "REJECT", "poll"}, NEW id \in Nat,
         NEW stop \in BOOLEAN, Page!Set(op, id, stop)
  PROVE  /\ handler' \in [op : {"none", "start", "improve", "APPROVE", "REJECT", "poll"},
                          id : Nat, stop : BOOLEAN, failures : Nat]
         /\ handler'.op = op /\ handler'.id = id
  BY DEF Page!Set, Page!NoTask

\* A request of the judge was answered, and a run may have moved for it.
LEMMA ThenStep ==
  ASSUME RunIInv, NEW r \in Page!RunIds, NEW stop \in BOOLEAN, Page!Then(r, stop),
         runs' \in [Page!RunIds -> [session : Nat, status : Page!Statuses,
                               decision : {"none", "APPROVE", "REJECT"}]],
         \A q \in Page!RunIds \ {r} : runs'[q].status = runs[q].status,
         runs[r].status \notin Page!Outcomes \/ runs'[r].status = runs[r].status,
         UNCHANGED page
  PROVE  RunIInv'
<1>1. /\ Page!ShownIsReal'
      /\ (\E q \in Page!RunIds : runs[q].status = "SUCCEEDED") =>
           \E q \in Page!RunIds : runs'[q].status = "SUCCEEDED"
  BY RunsMoved
<1>2. r \in Nat
  BY PageAssumption DEF Page!RunIds, Page!PageAssumption
<1>3. CASE Page!Set("poll", r, stop) /\ UNCHANGED fault
  <2>1. /\ handler' \in [op : {"none", "start", "improve", "APPROVE", "REJECT", "poll"},
                         id : Nat, stop : BOOLEAN, failures : Nat]
        /\ handler'.op = "poll" /\ handler'.id = r
    BY <1>2, <1>3, TaskSet
  <2>2. RunTypes' /\ OfRuns'
    BY <2>1, RunBefore DEF RunTypes, OfRuns
  <2> QED
    BY <1>1, <1>3, <2>1, <2>2, RunBefore, RunAgain
<1>4. CASE Page!Fail("failed")
  <2>1. handler' = Page!NoTask /\ fault' = "failed"
    BY <1>4 DEF Page!Fail
  <2>2. /\ Page!NoTask.op = "none"
        /\ Page!NoTask \in [op : {"none", "start", "improve", "APPROVE", "REJECT", "poll"},
                            id : Nat, stop : BOOLEAN, failures : Nat]
    BY DEF Page!NoTask
  <2>3. RunTypes' /\ OfRuns'
    BY <2>1, <2>2, RunBefore DEF RunTypes, OfRuns
  <2> QED
    BY <1>1, <2>1, <2>3, RunBefore, RunAgain
<1>5. QED
  BY <1>3, <1>4 DEF Page!Then

\* The type of the runs.
RunItems == [session : Nat, status : Page!Statuses,
             decision : {"none", "APPROVE", "REJECT"}]

\* A run that moves keeps its shape.
LEMMA RunItemMoved ==
  ASSUME RunTypes, NEW r \in Page!RunIds, NEW item \in RunItems,
         runs' = [runs EXCEPT ![r] = item]
  PROVE  /\ runs' \in [Page!RunIds -> RunItems]
         /\ \A q \in Page!RunIds \ {r} : runs'[q] = runs[q]
         /\ runs'[r] = item
  BY DEF RunTypes, RunItems

\* Moves: a run that the judge's request moves had no outcome.
LEMMA MovesStep ==
  ASSUME RunIInv, NEW r \in Page!RunIds, NEW next, Page!Moves(r, next),
         handler.op \in {"improve", "APPROVE", "REJECT"}
  PROVE  /\ runs' \in [Page!RunIds -> RunItems]
         /\ \A q \in Page!RunIds \ {r} : runs'[q].status = runs[q].status
         /\ runs[r].status \notin Page!Outcomes
<1>1. runs[r] \in RunItems
  BY RunBefore DEF RunTypes, RunItems
<1>2. next \in Page!Statuses /\ runs[r].status \notin Page!Outcomes
  BY Succession DEF Page!Moves
<1>3. PICK decision \in {"none", "APPROVE", "REJECT"} :
        decision = IF handler.op = "improve" THEN runs[r].decision ELSE handler.op
  BY <1>1 DEF RunItems
<1>4. PICK item : item = [runs[r] EXCEPT !.status = next, !.decision = decision]
  OBVIOUS
<1>5. item \in RunItems
  BY <1>1, <1>2, <1>3, <1>4 DEF RunItems
<1>6. runs' = [runs EXCEPT ![r] = item]
  BY <1>1, <1>3, <1>4, RunBefore DEF RunTypes, RunItems, Page!Moves
<1>7. QED
  BY <1>2, <1>5, <1>6, RunBefore, RunItemMoved

\* Begins: a run that nobody used takes up its work.
LEMMA BeginsStep ==
  ASSUME RunIInv, NEW r \in Page!NewRuns, Page!Begins(r)
  PROVE  /\ r \in Page!RunIds /\ runs' \in [Page!RunIds -> RunItems]
         /\ \A q \in Page!RunIds \ {r} : runs'[q].status = runs[q].status
         /\ runs[r].status \notin Page!Outcomes
<1>1. r \in Page!RunIds /\ runs[r] = Page!NoRun
  BY DEF Page!NewRuns, Page!Unused
<1>2. runs[r].status = "NONE" /\ runs[r] \in RunItems
  BY <1>1, RunBefore DEF RunTypes, RunItems, Page!NoRun
<1>3. PICK id \in Nat : id = handler.id
  BY RunBefore DEF RunTypes
<1>4. PICK item : item = [runs[r] EXCEPT !.session = id, !.status = "ANALYZING"]
  OBVIOUS
<1>5. item \in RunItems
  BY <1>2, <1>3, <1>4 DEF RunItems, Page!Statuses, Page!UnderWay
<1>6. runs' = [runs EXCEPT ![r] = item]
  BY <1>1, <1>2, <1>3, <1>4, RunBefore DEF RunTypes, RunItems, Page!Begins
<1>7. /\ runs' \in [Page!RunIds -> RunItems]
      /\ \A q \in Page!RunIds \ {r} : runs'[q] = runs[q]
  BY <1>1, <1>5, <1>6, RunBefore, RunItemMoved
<1>8. QED
  BY <1>1, <1>2, <1>7 DEF Page!Outcomes

\* Abandoned: whatever becomes of a request that nobody waits for, the runs keep
\* their shape.
LEMMA AbandonedStep ==
  ASSUME RunIInv, Page!Abandoned
  PROVE  runs' \in [Page!RunIds -> RunItems]
<1>1. CASE UNCHANGED runs
  BY <1>1, RunBefore DEF RunTypes, RunItems
<1>2. ASSUME NEW r \in Page!NewRuns, Page!Begins(r)
      PROVE  runs' \in [Page!RunIds -> RunItems]
  BY <1>2, BeginsStep
<1>3. CASE /\ handler.op \in {"improve", "APPROVE", "REJECT"}
           /\ Page!Moves(handler.id, Page!Demanded)
  <2>1. handler.id \in Page!RunIds
    BY <1>3, RunBefore DEF OfRuns
  <2> QED
    BY <1>3, <2>1, MovesStep
<1>4. QED
  BY <1>1, <1>2, <1>3 DEF Page!Abandoned

\* RunAudit, Ask: the judge asks for something, and what was wrong is forgotten.
LEMMA JudgeStep ==
  ASSUME RunIInv, panel.session \in Nat, Page!Judge
  PROVE  RunIInv'
<1> USE DEF Page!server, Page!panelVars
<1>1. CASE /\ Page!Abandoned /\ Page!Set("start", panel.session, TRUE)
           /\ page' = Page!Blank /\ fault' = "none"
  <2>1. runs' \in [Page!RunIds -> RunItems]
    BY <1>1, AbandonedStep
  <2>2. Page!Blank \in [run : Nat, status : Page!Statuses] /\ Page!Blank.status = "NONE"
    BY DEF Page!Blank, Page!Statuses
  <2>3. /\ handler' \in [op : {"none", "start", "improve", "APPROVE", "REJECT", "poll"},
                         id : Nat, stop : BOOLEAN, failures : Nat]
        /\ handler'.op = "start"
    BY <1>1, TaskSet
  <2>4. RunTypes' /\ OfRuns'
    BY <1>1, <2>1, <2>2, <2>3 DEF RunTypes, OfRuns, RunItems
  <2>5. Page!ShownIsReal'
    BY <1>1, <2>2 DEF Page!ShownIsReal, Page!Outcomes
  <2> QED
    BY <1>1, <2>2, <2>3, <2>4, <2>5, RunAgain
<1>2. CASE fault' = "failed" /\ UNCHANGED <<runs, page, handler>>
  <2>1. RunTypes' /\ OfRuns'
    BY <1>2, RunBefore DEF RunTypes, OfRuns
  <2>2. Page!ShownIsReal'
    BY <1>2, RunBefore DEF Page!ShownIsReal
  <2> QED
    BY <1>2, <2>1, <2>2, RunAgain
<1>3. ASSUME NEW op \in {"improve", "APPROVE", "REJECT"}, NEW shown \in Page!Statuses,
             shown # "NONE", Page!Ask(op, shown)
      PROVE  RunIInv'
  <2>1. /\ Page!Set(op, page.run, TRUE) /\ fault' = "none" /\ UNCHANGED <<runs, page>>
        /\ page.status = shown
    BY <1>3 DEF Page!Ask
  <2>2. page.run \in Page!RunIds /\ page.run \in Nat
    BY <1>3, <2>1, RunBefore DEF OfRuns, RunTypes
  <2>3. /\ handler' \in [op : {"none", "start", "improve", "APPROVE", "REJECT", "poll"},
                         id : Nat, stop : BOOLEAN, failures : Nat]
        /\ handler'.op = op /\ handler'.id = page.run
    BY <2>1, <2>2, TaskSet
  <2>4. RunTypes' /\ OfRuns'
    BY <2>1, <2>2, <2>3, RunBefore DEF RunTypes, OfRuns
  <2>5. Page!ShownIsReal'
    BY <2>1, RunBefore DEF Page!ShownIsReal
  <2> QED
    BY <2>1, <2>3, <2>4, <2>5, RunBefore, RunAgain
<1>4. {"AWAITING_IMPROVEMENT", "AWAITING_APPROVAL"} \subseteq Page!Statuses
  BY DEF Page!Statuses, Page!Awaiting
<1>5. QED
  BY <1>1, <1>2, <1>3, <1>4 DEF Page!Judge, Page!RunAudit, Page!RequestImprove, Page!Decide


\* ServerMoves, of a run: its work goes on, or its window closes.
LEMMA RunMovesOn ==
  ASSUME RunIInv, NEW r \in Page!RunIds, NEW next \in Page!Statuses,
         <<runs[r].status, next>> \in Page!OnItsOwn,
         runs' = [runs EXCEPT ![r].status = next],
         UNCHANGED <<page, handler, fault>>
  PROVE  RunIInv'
<1>1. runs[r] \in RunItems
  BY RunBefore DEF RunTypes, RunItems
<1>2. PICK item : item = [runs[r] EXCEPT !.status = next]
  OBVIOUS
<1>3. item \in RunItems /\ item.status = next
  BY <1>1, <1>2 DEF RunItems
<1>4. /\ runs' \in [Page!RunIds -> RunItems]
      /\ \A q \in Page!RunIds \ {r} : runs'[q] = runs[q]
      /\ runs'[r] = item
  <2>1. runs' = [runs EXCEPT ![r] = item]
    BY <1>1, <1>2, RunBefore DEF RunTypes, RunItems
  <2> QED
    BY <1>3, <2>1, RunBefore, RunItemMoved
<1>5. runs[r].status \notin Page!Outcomes \/ runs'[r].status = runs[r].status
  BY <1>3, <1>4, Succession
<1>6. /\ Page!ShownIsReal'
      /\ (\E q \in Page!RunIds : runs[q].status = "SUCCEEDED") =>
           \E q \in Page!RunIds : runs'[q].status = "SUCCEEDED"
  BY <1>4, <1>5, RunsMoved DEF RunItems
<1>7. RunTypes' /\ OfRuns'
  BY <1>4, RunBefore DEF RunTypes, OfRuns, RunItems
<1>8. QED
  BY <1>6, <1>7, RunBefore, RunAgain

\* ServerMoves, of any kind.
LEMMA ServerStep ==
  ASSUME RunIInv, Page!ServerMoves
  PROVE  RunIInv'
<1> USE DEF Page!runVars
<1>1. UNCHANGED <<page, handler, fault>>
  BY DEF Page!ServerMoves
<1>2. CASE UNCHANGED runs
  BY <1>1, <1>2, RunRests
<1>3. ASSUME NEW r \in Page!RunIds, NEW next \in Page!Statuses,
             <<runs[r].status, next>> \in Page!OnItsOwn,
             runs' = [runs EXCEPT ![r].status = next]
      PROVE  RunIInv'
  BY <1>1, <1>3, RunMovesOn
<1>4. QED
  BY <1>2, <1>3 DEF Page!ServerMoves

\* Started: a run that nobody used takes up its work.
LEMMA StartedStep ==
  ASSUME RunIInv, Page!Started
  PROVE  RunIInv'
<1>1. UNCHANGED page /\ handler.op = "start"
  BY DEF Page!Started, Page!TaskKeeps
<1>2. CASE Page!Denied
  BY <1>1, <1>2, Failed DEF Page!Denied, Page!server
<1>3. ASSUME NEW r \in Page!NewRuns, Page!Begins(r), Page!Then(r, TRUE)
      PROVE  RunIInv'
  BY <1>1, <1>3, BeginsStep, ThenStep DEF RunItems
<1>4. QED
  BY <1>2, <1>3 DEF Page!Started

\* Improved: the marker is written, or one is there already.
LEMMA ImprovedStep ==
  ASSUME RunIInv, Page!Improved
  PROVE  RunIInv'
<1>1. UNCHANGED page /\ handler.op = "improve"
  BY DEF Page!Improved, Page!TaskKeeps
<1>2. PICK r \in Page!RunIds : r = handler.id
  BY <1>1, RunBefore DEF OfRuns
<1>3. CASE Page!Denied
  BY <1>1, <1>3, Failed DEF Page!Denied, Page!server
<1>4. ASSUME NEW next, Page!Then(r, TRUE), Page!Moves(r, next)
      PROVE  RunIInv'
  BY <1>1, <1>4, MovesStep, ThenStep DEF RunItems
<1>5. ASSUME Page!Then(r, TRUE), UNCHANGED runs
      PROVE  RunIInv'
  BY <1>1, <1>5, RunBefore, ThenStep DEF RunTypes
<1>6. QED
  BY <1>2, <1>3, <1>4, <1>5 DEF Page!Improved

\* Decided: the decision is stored, or one like it is.
LEMMA DecidedStep ==
  ASSUME RunIInv, Page!Decided
  PROVE  RunIInv'
<1>1. UNCHANGED page /\ handler.op \in {"APPROVE", "REJECT"}
  BY DEF Page!Decided, Page!TaskKeeps
<1>2. PICK r \in Page!RunIds : r = handler.id
  BY <1>1, RunBefore DEF OfRuns
<1>3. CASE Page!Denied
  BY <1>1, <1>3, Failed DEF Page!Denied, Page!server
<1>4. ASSUME NEW next, Page!Then(r, FALSE), Page!Moves(r, next)
      PROVE  RunIInv'
  BY <1>1, <1>4, MovesStep, ThenStep DEF RunItems
<1>5. ASSUME Page!Then(r, FALSE), UNCHANGED runs
      PROVE  RunIInv'
  BY <1>1, <1>5, RunBefore, ThenStep DEF RunTypes
<1>6. QED
  BY <1>2, <1>3, <1>4, <1>5 DEF Page!Decided, Page!server

\* Polled: the page shows the status that it got, or tries again, or gives up.
LEMMA PolledStep ==
  ASSUME RunIInv, Page!Polled
  PROVE  RunIInv'
<1> USE DEF Page!server
<1>1. UNCHANGED runs /\ handler.op = "poll"
  BY DEF Page!Polled
<1>2. PICK r \in Page!RunIds : r = handler.id
  BY <1>1, RunBefore DEF OfRuns
<1>3. PICK status \in Page!Statuses : status = runs[r].status
  BY RunBefore DEF RunTypes
<1>4. r \in Nat
  BY PageAssumption DEF Page!RunIds, Page!PageAssumption
<1>5. ASSUME Page!Accepted(status), page' = [run |-> r, status |-> status],
             IF Page!Stops(status) THEN handler' = Page!NoTask
             ELSE handler' = [handler EXCEPT !.failures = 0],
             UNCHANGED fault
      PROVE  RunIInv'
  <2>1. page' \in [run : Nat, status : Page!Statuses] /\ page'.run = r /\ page'.status = status
    BY <1>4, <1>5
  <2>2. Page!ShownIsReal'
    BY <1>1, <1>3, <2>1 DEF Page!ShownIsReal
  <2>3. CASE Page!Stops(status)
    <3>1. /\ Page!NoTask.op = "none"
          /\ Page!NoTask \in [op : {"none", "start", "improve", "APPROVE", "REJECT", "poll"},
                              id : Nat, stop : BOOLEAN, failures : Nat]
      BY DEF Page!NoTask
    <3>2. handler' = Page!NoTask /\ status \notin Page!UnderWay
      BY <1>5, <2>3 DEF Page!Stops, Page!Awaiting, Page!Outcomes, Page!UnderWay
    <3>3. RunTypes' /\ OfRuns'
      BY <1>1, <2>1, <3>1, <3>2, RunBefore DEF RunTypes, OfRuns
    <3> QED
      BY <1>1, <1>5, <2>1, <2>2, <3>2, <3>3, RunBefore, RunAgain
  <2>4. CASE ~Page!Stops(status)
    <3>1. /\ handler' \in [op : {"none", "start", "improve", "APPROVE", "REJECT", "poll"},
                           id : Nat, stop : BOOLEAN, failures : Nat]
          /\ handler'.op = "poll" /\ handler'.id = r
      BY <1>1, <1>2, <1>5, <2>4, RunBefore DEF RunTypes
    <3>2. RunTypes' /\ OfRuns'
      BY <1>1, <2>1, <3>1, RunBefore DEF RunTypes, OfRuns
    <3> QED
      BY <1>1, <1>5, <2>1, <2>2, <3>1, <3>2, RunBefore, RunAgain
  <2> QED
    BY <2>3, <2>4
<1>6. ASSUME NEW f \in {"refused", "failed"}, Page!Retry(f), UNCHANGED page,
             f = "refused" => status = "SUCCEEDED"
      PROVE  RunIInv'
  <2>1. CASE Page!Fail(f)
    BY <1>1, <1>3, <1>6, <2>1, Failed
  <2>2. CASE handler' = [handler EXCEPT !.failures = @ + 1] /\ UNCHANGED fault
    <3>1. /\ handler' \in [op : {"none", "start", "improve", "APPROVE", "REJECT", "poll"},
                           id : Nat, stop : BOOLEAN, failures : Nat]
          /\ handler'.op = "poll" /\ handler'.id = r
      BY <1>1, <1>2, <2>2, RunBefore DEF RunTypes
    <3>2. RunTypes' /\ OfRuns'
      BY <1>1, <1>6, <3>1, RunBefore DEF RunTypes, OfRuns
    <3>3. Page!ShownIsReal'
      BY <1>1, <1>6, RunBefore DEF Page!ShownIsReal
    <3> QED
      BY <1>1, <1>6, <2>2, <3>1, <3>2, <3>3, RunBefore, RunAgain
  <2> QED
    BY <1>6, <2>1, <2>2 DEF Page!Retry
<1>7. CASE Page!Fail("failed") /\ UNCHANGED page
  BY <1>1, <1>7, Failed
<1>8. \/ /\ Page!Accepted(status) /\ page' = [run |-> r, status |-> status]
         /\ IF Page!Stops(status) THEN handler' = Page!NoTask
            ELSE handler' = [handler EXCEPT !.failures = 0]
         /\ UNCHANGED fault
      \/ status = "ERROR" /\ Page!Retry("failed") /\ UNCHANGED page
      \/ ~Page!Accepted(status) /\ Page!Retry("refused") /\ UNCHANGED page
      \/ Page!Retry("failed") /\ UNCHANGED page
      \/ Page!Fail("failed") /\ UNCHANGED page
  BY <1>2, <1>3 DEF Page!Polled
<1>9. ~Page!Accepted(status) => status = "SUCCEEDED"
  BY AcceptedStatus
<1>10. QED
  BY <1>5, <1>6, <1>7, <1>8, <1>9

\* Reload: the page comes up without the run.
LEMMA ReloadRun ==
  ASSUME RunIInv, Page!Reload
  PROVE  RunIInv'
<1>1. page' = Page!Blank /\ handler' = Page!NoTask /\ fault' = "none" /\ UNCHANGED runs
  BY DEF Page!Reload, Page!server
<1>2. /\ Page!NoTask.op = "none"
      /\ Page!NoTask \in [op : {"none", "start", "improve", "APPROVE", "REJECT", "poll"},
                          id : Nat, stop : BOOLEAN, failures : Nat]
  BY DEF Page!NoTask
<1>3. Page!Blank \in [run : Nat, status : Page!Statuses] /\ Page!Blank.status = "NONE"
  BY DEF Page!Blank, Page!Statuses
<1>4. RunTypes' /\ OfRuns'
  BY <1>1, <1>2, <1>3, RunBefore DEF RunTypes, OfRuns
<1>5. "NONE" \notin Page!Outcomes \cup Page!UnderWay
  BY DEF Page!Outcomes, Page!UnderWay
<1>6. QED
  BY <1>1, <1>3, <1>4, <1>5, RunAgain DEF Page!ShownIsReal

\* A step of the page keeps what is known of the run.
LEMMA RunMoves ==
  ASSUME PanelIInv, RunIInv, Page!Next
  PROVE  RunIInv'
<1>1. panel.session \in Nat
  BY DEF PanelIInv, PanelTypes
<1>2. CASE Page!Panel
  <2>1. UNCHANGED <<runs, page, handler, fault>>
    BY <1>2 DEF Page!Panel, Page!Poll, Page!PollAnswered, Page!Issue, Page!Carried, Page!Answered,
                Page!CommandLost, Page!server, Page!runVars
  <2> QED
    BY <2>1, RunRests
<1>3. CASE Page!Handler
  BY <1>3, StartedStep, ImprovedStep, DecidedStep, PolledStep DEF Page!Handler
<1>4. QED
  BY <1>1, <1>2, <1>3, ServerStep, JudgeStep, ReloadRun DEF Page!Next


\* At the start the page shows nothing and knows of nothing.
LEMMA PageInitially ==
  ASSUME Page!Init
  PROVE  PanelIInv /\ RunIInv
<1> USE PageAssumption DEF Page!PageAssumption, Page!Init
<1>1. PanelTypes
  BY DEF PanelTypes, Page!SessionStates, Page!NotShown, Page!NoCommand
<1>2. InOrder /\ Known /\ PollsOfPanel /\ CommandOfPanel
  BY DEF InOrder, Known, PollsOfPanel, CommandOfPanel, Used, Page!NoCommand
<1>3. RunTypes
  BY DEF RunTypes, Page!Statuses, Page!NoRun, Page!Blank, Page!NoTask
<1>4. OfRuns
  BY DEF OfRuns, Page!Blank, Page!NoTask
<1>5. PageIsTruthful
  BY DEF PageIsTruthful, Page!PageIsTruthful, Page!ShownIsReal, Page!RefusedIsSuccess,
         Page!IdleIsExplained, Page!Blank, Page!Outcomes, Page!UnderWay
<1>6. QED
  BY <1>1, <1>2, <1>3, <1>4, <1>5 DEF PanelIInv, RunIInv

\* A step of the composition is one of the page, or leaves it alone.
LEMMA PageSteps ==
  ASSUME [MCNext]_allVars
  PROVE  Page!Next \/ UNCHANGED pageVars
<1>1. CASE PageNext
  BY <1>1 DEF PageNext, PageStep, Page!Next
<1>2. CASE AuthNext
  BY <1>2 DEF AuthNext, AuthStep
<1>3. QED
  BY <1>1, <1>2 DEF MCNext, allVars

\* What the page shows of a run is true.
THEOREM PageHolds == MCSafety => []PageIsTruthful
<1>1. MCInit => PanelIInv /\ RunIInv
  BY PageInitially DEF MCInit
<1>2. PanelIInv /\ RunIInv /\ [MCNext]_allVars => (PanelIInv /\ RunIInv)'
  BY PageSteps, PanelMoves, PanelRests, RunMoves, RunRests DEF pageVars
<1>3. RunIInv => PageIsTruthful
  BY DEF RunIInv
<1>4. QED
  BY <1>1, <1>2, <1>3, PTL DEF MCSafety

\* A session gives way on the page only to a later one.
THEOREM LatestShown == MCSafety => LatestIsShown
<1>1. MCInit => PanelIInv
  BY PageInitially DEF MCInit
<1>2. PanelIInv /\ [MCNext]_allVars => PanelIInv'
  BY PageSteps, PanelMoves, PanelRests DEF pageVars
<1>3. PanelIInv /\ [MCNext]_allVars => [(panel'.session # 0) => panel'.session >= panel.session]_(Page!vars)
  <2>1. pageVars' = pageVars => UNCHANGED Page!vars
    BY DEF pageVars, Page!vars, Page!server, Page!panelVars, Page!runVars
  <2>2. QED
    BY <2>1, PageSteps, PanelMoves
<1>4. QED
  BY <1>1, <1>2, <1>3, PTL DEF MCSafety, LatestIsShown, Page!LatestIsShown

-----------------------------------------------------------------------------
(* The sign-in *)

Places == {None, Auth!Misplaced} \cup Auth!Callbacks(Nat)
Tokens == [request : Nat, scope : {"omitted", "approve"}, expiresAt : Nat, left : Nat]
Targets == {Auth!Nowhere, [to |-> "logout"]} \cup [to : {"cognito"}, request : Auth!RequestIds]

Documents ==
  [url : Places, initial : Places, boot : {"loaded", "config", "exchange", "done"},
   exchange : {None} \cup [code : Auth!RequestIds, verifier : Auth!RequestIds],
   status : {"loading", "anonymous", "redirecting", "authenticated", "error"},
   config : {None} \cup Auth!Hosts, token : {None} \cup Tokens, timer : {None} \cup Nat,
   attempts : SUBSET Auth!RequestIds, nav : Targets]

Counts == [signIns : Nat, loads : Nat, mishaps : Nat, back : Nat]
Openings == [request : Nat, host : {None} \cup Auth!Hosts]

AuthTypes ==
  /\ time \in Nat /\ deployment \in Auth!Hosts
  /\ visit # None => visit \in Documents
  /\ store # None => store \in [request : Auth!RequestIds, createdAt : Nat]
  /\ opened \subseteq Openings
  /\ exchanges \in [Auth!RequestIds -> Nat]
  /\ counters \in Counts

\* A request that may still be stored or exchanged has not been exchanged, and no
\* request is exchanged twice.
Pending(k) == k <= counters.signIns /\ exchanges[k] = 0
Unspent ==
  /\ \A k \in Auth!RequestIds : exchanges[k] <= 1 /\ (k > counters.signIns => exchanges[k] = 0)
  /\ store # None => Pending(store.request) /\ store.request = last
  /\ visit # None => \A k \in visit.attempts :
       Pending(k) /\ (store # None => store.request # k)

\* Until the callback is completed there is no session, and none is asked for; one
\* that is being exchanged is of the last request.
Booting(v) ==
  /\ v.boot # "done" =>
       /\ v.status = "loading" /\ v.token = None /\ v.timer = None
       /\ v.attempts = {} /\ v.nav = Auth!Nowhere
  /\ v.boot = "exchange" =>
       /\ v.exchange \in [code : Auth!RequestIds, verifier : Auth!RequestIds]
       /\ v.exchange.code = last
  /\ v.exchange # None => v.exchange.code = v.exchange.verifier
  /\ v.boot # "loaded" => v.url = None

\* While the clock is not set back a token is no longer valid than its timer runs.
Timed(v) ==
  v.token # None =>
    /\ v.timer \in Nat
    /\ v.timer # 0 => v.token.left = v.timer + Skew
    /\ v.timer = 0 => v.token.left <= Skew
    /\ counters.back = 0 => v.token.expiresAt <= time + v.token.left

\* A session is of the last request, and so is a navigation to Cognito.
Own(v) ==
  /\ v.status = "authenticated" <=> v.token # None
  /\ v.token # None => v.token.request = last /\ v.attempts = {}
  /\ v.nav.to = "cognito" => v.nav.request = last

Sound(v) == Booting(v) /\ Timed(v) /\ Own(v)

AuthIInv == AuthTypes /\ Unspent /\ (visit # None => Sound(visit))

-----------------------------------------------------------------------------
(* The documents of the sign-in *)

\* Two documents with the same location, attempts and navigation.
Alike(w, v) ==
  /\ w.url = v.url /\ w.initial = v.initial
  /\ w.attempts = v.attempts /\ w.nav = v.nav

Statuses == {"loading", "anonymous", "redirecting", "authenticated", "error"}

\* ClearToken takes the session and its timer, and nothing else.
LEMMA Cleared ==
  ASSUME NEW v \in Documents
  PROVE  LET w == Auth!ClearToken(v)
         IN /\ w \in Documents /\ Alike(w, v) /\ w.boot = v.boot /\ w.exchange = v.exchange
            /\ w.status = v.status /\ w.token = None /\ w.timer = None
<1>1. PICK u : u = [v EXCEPT !.token = None]
  OBVIOUS
<1>2. /\ u \in Documents /\ Alike(u, v) /\ u.boot = v.boot /\ u.exchange = v.exchange
      /\ u.status = v.status /\ u.token = None /\ u.timer = v.timer
  BY <1>1 DEF Documents, Alike
<1>3. PICK w : w = [u EXCEPT !.timer = None]
  OBVIOUS
<1>4. /\ w \in Documents /\ Alike(w, u) /\ w.boot = u.boot /\ w.exchange = u.exchange
      /\ w.status = u.status /\ w.token = u.token /\ w.timer = None
  BY <1>2, <1>3 DEF Documents, Alike
<1>5. Auth!ClearToken(v) = w
  BY <1>1, <1>3 DEF Auth!ClearToken, Documents
<1>6. QED
  BY <1>2, <1>4, <1>5 DEF Alike

\* Publish gives it another status.
LEMMA Published ==
  ASSUME NEW v \in Documents, NEW status \in Statuses
  PROVE  LET w == Auth!Publish(v, status)
         IN /\ w \in Documents /\ Alike(w, v) /\ w.boot = v.boot /\ w.exchange = v.exchange
            /\ w.status = status /\ w.token = v.token /\ w.timer = v.timer
  BY DEF Auth!Publish, Documents, Alike, Statuses

\* An error takes the session as well.
LEMMA FailedAuth ==
  ASSUME NEW v \in Documents
  PROVE  LET w == Auth!Fail(v)
         IN /\ w \in Documents /\ Alike(w, v) /\ w.boot = v.boot /\ w.exchange = v.exchange
            /\ w.status = "error" /\ w.token = None /\ w.timer = None
<1>1. PICK u : u = Auth!ClearToken(v)
  OBVIOUS
<1>2. /\ u \in Documents /\ Alike(u, v) /\ u.boot = v.boot /\ u.exchange = v.exchange
      /\ u.token = None /\ u.timer = None
  BY <1>1, Cleared
<1>3. Auth!Fail(v) = Auth!Publish(u, "error")
  BY <1>1 DEF Auth!Fail
<1>4. QED
  BY <1>2, <1>3, Published DEF Alike, Statuses

\* The initialization is over.
LEMMA BootOver ==
  ASSUME NEW v \in Documents
  PROVE  LET w == Auth!Over(v)
         IN /\ w \in Documents /\ Alike(w, v) /\ w.boot = "done" /\ w.exchange = None
            /\ w.status = v.status /\ w.token = v.token /\ w.timer = v.timer
<1>1. PICK u : u = [v EXCEPT !.boot = "done"]
  OBVIOUS
<1>2. /\ u \in Documents /\ Alike(u, v) /\ u.boot = "done"
      /\ u.status = v.status /\ u.token = v.token /\ u.timer = v.timer
  BY <1>1 DEF Documents, Alike
<1>3. PICK w : w = [u EXCEPT !.exchange = None]
  OBVIOUS
<1>4. /\ w \in Documents /\ Alike(w, u) /\ w.boot = u.boot /\ w.exchange = None
      /\ w.status = u.status /\ w.token = u.token /\ w.timer = u.timer
  BY <1>2, <1>3 DEF Documents, Alike
<1>5. Auth!Over(v) = w
  BY <1>1, <1>3 DEF Auth!Over, Documents
<1>6. QED
  BY <1>2, <1>4, <1>5 DEF Alike

\* A document as it is loaded.
LEMMA Loaded ==
  ASSUME NEW place \in Places
  PROVE  /\ Auth!Document(place) \in Documents /\ Sound(Auth!Document(place))
         /\ Auth!Document(place).attempts = {}
<1>1. PICK v : v = Auth!Document(place)
  OBVIOUS
<1>2. v \in Documents
  BY <1>1 DEF Auth!Document, Documents, Targets
<1>3. /\ v.boot = "loaded" /\ v.status = "loading" /\ v.token = None /\ v.attempts = {}
      /\ v.timer = None
      /\ v.nav = Auth!Nowhere /\ v.exchange = None /\ Auth!Nowhere.to = "nowhere"
  BY <1>1 DEF Auth!Document, Auth!Nowhere
<1>4. Sound(v)
  BY <1>3 DEF Sound, Booting, Timed, Own
<1>5. QED
  BY <1>1, <1>2, <1>3, <1>4

\* A document without a session, once the initialization is over.
LEMMA SoundWithout ==
  ASSUME NEW w, w.boot = "done", w.exchange = None, w.token = None, w.status # "authenticated",
         w.url = None, w.nav.to = "cognito" => w.nav.request = last
  PROVE  Sound(w)
  BY DEF Sound, Booting, Timed, Own

\* Counting leaves the other counters alone.
LEMMA Counted ==
  ASSUME counters \in Counts
  PROVE  /\ Auth!Count("mishaps") \/ Auth!Count("loads") =>
              counters' \in Counts /\ counters'.signIns = counters.signIns /\ counters'.back = counters.back
         /\ Auth!Count("signIns") =>
              /\ counters' \in Counts /\ counters'.signIns = counters.signIns + 1
              /\ counters'.back = counters.back
  BY DEF Auth!Count, Counts

\* Whatever document is in the tab, if the rest stays or the transaction goes: it is sound, and none of its
\* requests is new.
LEMMA VisitStep ==
  ASSUME AuthIInv, NEW w, visit' = w,
         w # None => w \in Documents /\ Sound(w)
                     /\ (w.attempts = {} \/ (visit # None /\ w.attempts \subseteq visit.attempts)),
         UNCHANGED <<time, last, exchanges>>, store' \in {store, None},
         deployment' \in Auth!Hosts, opened' \subseteq Openings,
         counters' \in Counts, counters'.signIns = counters.signIns,
         counters'.back = counters.back
  PROVE  AuthIInv'
<1>1. AuthTypes'
  BY DEF AuthIInv, AuthTypes
<1>2. Unspent'
  BY DEF AuthIInv, Unspent, Pending
<1>3. visit' # None => Sound(visit)'
  BY DEF Sound, Booting, Timed, Own
<1>4. QED
  BY <1>1, <1>2, <1>3 DEF AuthIInv


-----------------------------------------------------------------------------
(* The steps of the sign-in *)

\* What the invariant says of the document in the tab.
LEMMA InTab ==
  ASSUME AuthIInv, visit # None
  PROVE  /\ visit \in Documents /\ Booting(visit) /\ Timed(visit) /\ Own(visit) /\ Sound(visit)
         /\ counters \in Counts
  BY DEF AuthIInv, AuthTypes, Sound

\* The tab ends up without a session, and the rest stays or the transaction goes.
LEMMA WithoutStep ==
  ASSUME AuthIInv, visit # None, NEW w \in Documents, visit' = w, Alike(w, visit),
         w.boot = "done", w.exchange = None, w.token = None, w.status # "authenticated",
         visit.boot # "loaded",
         UNCHANGED <<time, last, exchanges, opened, deployment>>, store' \in {store, None},
         counters' = counters \/ Auth!Count("mishaps")
  PROVE  AuthIInv'
<1>1. /\ counters' \in Counts /\ counters'.signIns = counters.signIns
      /\ counters'.back = counters.back
  BY InTab, Counted
<1>2. Sound(w)
  BY InTab, SoundWithout DEF Alike, Booting, Own
<1>3. QED
  BY <1>1, <1>2, VisitStep DEF Alike, AuthIInv, AuthTypes

\* Initialize.
LEMMA InitializeStep ==
  ASSUME AuthIInv, Auth!Initialize
  PROVE  AuthIInv'
<1>1. visit # None /\ visit.boot = "loaded"
  BY DEF Auth!Initialize
<1>2. PICK u : u = Auth!CleanCallbackUrl(visit)
  OBVIOUS
<1>3. PICK w : w = [u EXCEPT !.boot = "config"]
  OBVIOUS
<1>4. /\ u \in Documents /\ u.url = None /\ u.status = visit.status /\ u.token = visit.token
      /\ u.attempts = visit.attempts /\ u.nav = visit.nav /\ u.exchange = visit.exchange
      /\ u.timer = visit.timer
  BY <1>1, <1>2, InTab DEF Auth!CleanCallbackUrl, Documents, Places
<1>5. /\ w \in Documents /\ w.url = None /\ w.status = visit.status /\ w.token = visit.token
      /\ w.attempts = visit.attempts /\ w.nav = visit.nav /\ w.exchange = visit.exchange
      /\ w.boot = "config" /\ w.timer = visit.timer
  BY <1>3, <1>4 DEF Documents
<1>6. Sound(w)
  BY <1>1, <1>5, InTab DEF Sound, Booting, Timed, Own
<1>7. visit' = w /\ UNCHANGED <<time, store, last, exchanges, deployment, opened, counters>>
  BY <1>2, <1>3 DEF Auth!Initialize
<1>8. QED
  BY <1>1, <1>5, <1>6, <1>7, VisitStep DEF AuthIInv, AuthTypes

\* Over, after a failure.
LEMMA FailOverStep ==
  ASSUME AuthIInv, visit # None, visit.boot # "loaded", NEW v \in Documents, Alike(v, visit),
         visit' = Auth!Over(Auth!Fail(v)),
         UNCHANGED <<time, last, exchanges, opened, deployment>>, store' \in {store, None},
         counters' = counters \/ Auth!Count("mishaps")
  PROVE  AuthIInv'
<1>1. PICK u : u = Auth!Fail(v)
  OBVIOUS
<1>2. PICK w : w = Auth!Over(u)
  OBVIOUS
<1>3. u \in Documents /\ Alike(u, v) /\ u.status = "error" /\ u.token = None
  BY <1>1, FailedAuth
<1>4. /\ w \in Documents /\ Alike(w, u) /\ w.boot = "done" /\ w.exchange = None
      /\ w.status = "error" /\ w.token = None
  BY <1>2, <1>3, BootOver
<1>5. Alike(w, visit)
  BY <1>3, <1>4 DEF Alike
<1>6. QED
  BY <1>1, <1>2, <1>4, <1>5, WithoutStep


\* A configuration that is accepted is that of what is deployed.
LEMMA ParsedConfig ==
  ASSUME deployment \in Auth!Hosts,
         NEW c \in {Auth!RuntimeConfig(deployment)} \cup Auth!WrongConfigs(deployment),
         Auth!ParseRuntimeConfig(c)
  PROVE  c.token \in Auth!Hosts
<1>1. PICK host \in Auth!Hosts : host = deployment
  OBVIOUS
<1>2. PICK good : good = Auth!RuntimeConfig(host)
  OBVIOUS
<1>3. good.authorization = host /\ good.token = host
  BY <1>2 DEF Auth!RuntimeConfig
<1>4. c.authorization = host
  BY <1>1, <1>2 DEF Auth!WrongConfigs, Auth!RuntimeConfig
<1>5. c.token = c.authorization
  BY DEF Auth!ParseRuntimeConfig
<1>6. QED
  BY <1>4, <1>5

\* completeCallback, up to the exchange: the verifier of the transaction goes out with
\* its code, for the first time.
LEMMA ExchangeStep ==
  ASSUME AuthIInv, visit # None, visit.boot = "config", NEW v \in Documents, Alike(v, visit),
         v.token = visit.token, v.status = visit.status, v.timer = visit.timer,
         NEW code, store # None, code = store.request, store' = None,
         visit' = [v EXCEPT !.boot = "exchange",
                            !.exchange = [code |-> code, verifier |-> store.request]],
         exchanges' = [exchanges EXCEPT ![store.request] = @ + 1],
         UNCHANGED <<time, last, opened, deployment, counters>>
  PROVE  AuthIInv'
<1>1. PICK k \in Auth!RequestIds : k = store.request
  BY DEF AuthIInv, AuthTypes
<1>2. PICK x : x = [code |-> code, verifier |-> k]
  OBVIOUS
<1>3. x \in [code : Auth!RequestIds, verifier : Auth!RequestIds] /\ x.code = k /\ x.verifier = k
  BY <1>1, <1>2
<1>4. PICK u : u = [v EXCEPT !.boot = "exchange"]
  OBVIOUS
<1>5. PICK w : w = [u EXCEPT !.exchange = x]
  OBVIOUS
<1>6. visit' = w
  BY <1>1, <1>2, <1>4, <1>5
<1>7. /\ u \in Documents /\ u.boot = "exchange" /\ Alike(u, v) /\ u.token = v.token
      /\ u.status = v.status /\ u.timer = v.timer
  BY <1>4 DEF Documents, Alike
<1>8. /\ w \in Documents /\ w.boot = "exchange" /\ Alike(w, u) /\ w.token = u.token
      /\ w.status = u.status /\ w.exchange = x /\ w.timer = u.timer
  BY <1>3, <1>5, <1>7 DEF Documents, Alike
<1>9. k = last /\ k <= counters.signIns /\ exchanges[k] = 0
  BY <1>1 DEF AuthIInv, Unspent, Pending
<1>10. /\ exchanges' \in [Auth!RequestIds -> Nat] /\ exchanges'[k] = 1
       /\ \A q \in Auth!RequestIds \ {k} : exchanges'[q] = exchanges[q]
  BY <1>1, <1>9 DEF AuthIInv, AuthTypes
<1>11. /\ w.attempts = {} /\ w.status = "loading" /\ w.token = None /\ w.nav = Auth!Nowhere
       /\ w.url = None /\ w.timer = None
  BY <1>7, <1>8, InTab DEF Booting, Alike
<1>12. AuthTypes'
  BY <1>6, <1>8, <1>10 DEF AuthIInv, AuthTypes
<1>13. Unspent'
  <2>1. counters' = counters /\ counters.signIns \in Nat
    BY DEF AuthIInv, AuthTypes, Counts
  <2>2. \A q \in Auth!RequestIds :
          exchanges'[q] <= 1 /\ (q > counters.signIns => exchanges'[q] = 0)
    <3>1. \A q \in Auth!RequestIds :
            exchanges[q] <= 1 /\ (q > counters.signIns => exchanges[q] = 0)
      BY DEF AuthIInv, Unspent
    <3>2. ~(k > counters.signIns)
      BY <1>1, <1>9, <2>1, SignInAssumption DEF Auth!RequestIds, Auth!SignInAssumption
    <3> QED
      BY <1>10, <3>1, <3>2
  <2> QED
    BY <1>6, <1>11, <2>1, <2>2 DEF Unspent
<1>14. Sound(w)'
  <2>1. /\ w.exchange \in [code : Auth!RequestIds, verifier : Auth!RequestIds]
        /\ w.exchange.code = last' /\ w.exchange.code = w.exchange.verifier
    BY <1>3, <1>8, <1>9
  <2>2. Booting(w)'
    BY ONLY <1>8, <1>11, <2>1 DEF Booting
  <2>3. Timed(w)'
    BY <1>11 DEF Timed
  <2>4. Own(w)'
    BY <1>11 DEF Own, Auth!Nowhere
  <2> QED
    BY <2>2, <2>3, <2>4 DEF Sound
<1>15. QED
  BY <1>6, <1>12, <1>13, <1>14 DEF AuthIInv, Sound, Booting, Timed, Own


\* ConfigAnswered: the callback is completed, exchanged, or nothing is known.
LEMMA ConfigStep ==
  ASSUME AuthIInv, Auth!ConfigAnswered
  PROVE  AuthIInv'
<1>1. /\ visit # None /\ visit.boot = "config" /\ UNCHANGED <<time, deployment, opened, last>>
      /\ deployment \in Auth!Hosts
  BY DEF Auth!ConfigAnswered, AuthIInv, AuthTypes
<1>2. visit \in Documents /\ Alike(visit, visit)
  BY <1>1, InTab DEF Alike
<1>3. ASSUME visit' = Auth!Over(Auth!Fail(visit)), UNCHANGED <<store, exchanges>>,
             Auth!Mishap
      PROVE  AuthIInv'
  BY <1>1, <1>2, <1>3, FailOverStep DEF Auth!Mishap
<1>4. ASSUME NEW host \in Auth!Hosts, Auth!CompleteCallback([visit EXCEPT !.config = host]),
             UNCHANGED counters
      PROVE  AuthIInv'
  <2>1. PICK v : v = [visit EXCEPT !.config = host]
    OBVIOUS
  <2>2. /\ v \in Documents /\ Alike(v, visit) /\ v.token = visit.token
        /\ v.status = visit.status /\ v.timer = visit.timer
    BY <1>2, <2>1 DEF Documents, Alike
  <2>3. CASE visit' = Auth!Over(Auth!Publish(v, "anonymous")) /\ UNCHANGED <<store, exchanges>>
    <3>1. PICK u : u = Auth!Publish(v, "anonymous")
      OBVIOUS
    <3>2. PICK w : w = Auth!Over(u)
      OBVIOUS
    <3>3. u \in Documents /\ Alike(u, v) /\ u.status = "anonymous" /\ u.token = v.token
      BY <2>2, <3>1, Published DEF Statuses
    <3>4. /\ w \in Documents /\ Alike(w, u) /\ w.boot = "done" /\ w.exchange = None
          /\ w.status = "anonymous" /\ w.token = u.token
      BY <3>2, <3>3, BootOver
    <3>5. Alike(w, visit) /\ w.token = None
      BY <1>1, <2>2, <3>3, <3>4, InTab DEF Alike, Booting
    <3> QED
      BY <1>1, <1>4, <2>3, <3>1, <3>2, <3>4, <3>5, WithoutStep
  <2>4. CASE /\ visit' = [v EXCEPT !.boot = "exchange",
                             !.exchange = [code |-> v.initial.request, verifier |-> store.request]]
             /\ Auth!Matches(v.initial) /\ store' = None
             /\ exchanges' = [exchanges EXCEPT ![store.request] = @ + 1]
    <3>1. PICK code : code = v.initial.request
      OBVIOUS
    <3>2. store # None /\ code = store.request
      BY <2>4, <3>1 DEF Auth!Matches
    <3>3. visit' = [v EXCEPT !.boot = "exchange",
                             !.exchange = [code |-> code, verifier |-> store.request]]
      BY <2>4, <3>1
    <3> QED
      BY <1>1, <1>4, <2>2, <2>4, <3>2, <3>3, ExchangeStep
  <2>5. CASE visit' = Auth!Over(Auth!Fail(v)) /\ UNCHANGED exchanges /\ store' = None
    BY <1>1, <1>4, <2>2, <2>5, FailOverStep
  <2> QED
    BY <1>4, <2>1, <2>3, <2>4, <2>5 DEF Auth!CompleteCallback, Auth!TakeTransaction
<1>5. QED
  BY <1>1, <1>3, <1>4, ParsedConfig DEF Auth!ConfigAnswered


\* The exchange was answered with a token that the page accepts.
LEMMA GrantedStep ==
  ASSUME AuthIInv, visit # None, visit.boot = "exchange",
         NEW answer \in Auth!TokenAnswers, Auth!TokenContract(answer),
         visit' = Auth!Over([Auth!Publish(visit, "authenticated") EXCEPT
                               !.token = [request |-> visit.exchange.code,
                                          scope |-> answer.scope,
                                          expiresAt |-> time + answer.expiresIn,
                                          left |-> answer.expiresIn],
                               !.timer = answer.expiresIn - Skew]),
         UNCHANGED <<time, deployment, store, opened, last, exchanges, counters>>
  PROVE  AuthIInv'
<1>1. PICK length \in Nat : length = answer.expiresIn
  BY SignInAssumption DEF Auth!TokenAnswers, Auth!SignInAssumption
<1>2. length > Skew /\ Skew \in Nat /\ answer.scope \in {"omitted", "approve"}
  BY <1>1, SignInAssumption DEF Auth!TokenContract, Auth!SignInAssumption
<1>3. PICK scope \in {"omitted", "approve"} : scope = answer.scope
  BY <1>2
<1>4. PICK code \in Auth!RequestIds : code = visit.exchange.code /\ code = last
  BY InTab DEF Booting
<1>5. PICK wait \in Nat : wait = length - Skew /\ wait # 0 /\ length = wait + Skew
  BY <1>1, <1>2
<1>6. PICK end \in Nat : end = time + length
  BY <1>1 DEF AuthIInv, AuthTypes
<1>7. PICK token : token = [request |-> code, scope |-> scope, expiresAt |-> end, left |-> length]
  OBVIOUS
<1>8. code \in Nat
  BY <1>4, SignInAssumption DEF Auth!RequestIds, Auth!SignInAssumption
<1>9. /\ token \in Tokens /\ token.request = code /\ token.expiresAt = end /\ token.left = length
      /\ token # None
  BY <1>1, <1>3, <1>6, <1>7, <1>8, SignInAssumption DEF Tokens, Auth!SignInAssumption
<1>10. PICK v : v = Auth!Publish(visit, "authenticated")
  OBVIOUS
<1>11. PICK u : u = [v EXCEPT !.token = token]
  OBVIOUS
<1>12. PICK t : t = [u EXCEPT !.timer = wait]
  OBVIOUS
<1>13. PICK w : w = Auth!Over(t)
  OBVIOUS
<1>14. v \in Documents /\ Alike(v, visit) /\ v.status = "authenticated"
  BY <1>10, InTab, Published DEF Statuses
<1>15. visit' = w
  <2>1. t = [v EXCEPT !.token = token, !.timer = wait]
    BY <1>11, <1>12, <1>14 DEF Documents
  <2>2. visit' = Auth!Over([v EXCEPT !.token = token, !.timer = wait])
    BY <1>1, <1>3, <1>4, <1>5, <1>6, <1>7, <1>10
  <2> QED
    BY <1>13, <2>1, <2>2
<1>16. u \in Documents /\ Alike(u, v) /\ u.status = v.status /\ u.token = token
  BY <1>9, <1>11, <1>14 DEF Documents, Alike
<1>17. t \in Documents /\ Alike(t, u) /\ t.status = u.status /\ t.token = token /\ t.timer = wait
  BY <1>12, <1>16 DEF Documents, Alike
<1>18. /\ w \in Documents /\ Alike(w, visit) /\ w.boot = "done" /\ w.exchange = None
       /\ w.status = "authenticated" /\ w.token = token /\ w.timer = wait
  <2>1. /\ w \in Documents /\ Alike(w, t) /\ w.boot = "done" /\ w.exchange = None
        /\ w.status = t.status /\ w.token = t.token /\ w.timer = t.timer
    BY <1>13, <1>17, BootOver
  <2> QED
    BY <1>14, <1>16, <1>17, <2>1 DEF Alike
<1>19. w.url = None /\ w.attempts = {} /\ w.nav = Auth!Nowhere
  BY <1>18, InTab DEF Alike, Booting
<1>20. Booting(w)
  BY <1>18, <1>19 DEF Booting
<1>21. Timed(w)
  <2>1. /\ w.token.left = length /\ w.token.expiresAt = end /\ w.timer = wait
        /\ time \in Nat
    BY <1>9, <1>18 DEF AuthIInv, AuthTypes
  <2> QED
    <3>1. w.timer \in Nat /\ w.timer # 0 /\ w.token.left = w.timer + Skew
      BY ONLY <1>5, <2>1
    <3>2. w.token.expiresAt <= time + w.token.left
      BY ONLY <1>1, <1>6, <2>1
    <3> QED
      BY ONLY <3>1, <3>2 DEF Timed
<1>22. Own(w)
  BY <1>4, <1>9, <1>18, <1>19 DEF Own, Auth!Nowhere
<1>23. QED
  BY <1>15, <1>18, <1>19, <1>20, <1>21, <1>22, VisitStep DEF Sound, AuthIInv, AuthTypes

\* TokenAnswered.
LEMMA TokenStep ==
  ASSUME AuthIInv, Auth!TokenAnswered
  PROVE  AuthIInv'
<1>1. /\ visit # None /\ visit.boot = "exchange"
      /\ UNCHANGED <<time, deployment, store, opened, last, exchanges>>
  BY DEF Auth!TokenAnswered
<1>2. visit \in Documents /\ Alike(visit, visit)
  BY <1>1, InTab DEF Alike
<1>3. ASSUME visit' = Auth!Over(Auth!Fail(visit)), Auth!Mishap \/ UNCHANGED counters
      PROVE  AuthIInv'
  BY <1>1, <1>2, <1>3, FailOverStep DEF Auth!Mishap
<1>4. QED
  BY <1>1, <1>3, GrantedStep DEF Auth!TokenAnswered

\* TimerFires, Refused, SignOut: the session is given up.
LEMMA GivenUpStep ==
  ASSUME AuthIInv, visit # None, visit.boot = "done",
         visit' = Auth!Publish(Auth!ClearToken(visit), "anonymous"),
         UNCHANGED <<time, deployment, store, opened, last, exchanges, counters>>
  PROVE  AuthIInv'
<1>1. PICK u : u = Auth!ClearToken(visit)
  OBVIOUS
<1>2. PICK w : w = Auth!Publish(u, "anonymous")
  OBVIOUS
<1>3. /\ u \in Documents /\ Alike(u, visit) /\ u.boot = "done" /\ u.exchange = visit.exchange
      /\ u.token = None
  BY <1>1, Cleared, InTab
<1>4. /\ w \in Documents /\ Alike(w, u) /\ w.boot = "done" /\ w.exchange = u.exchange
      /\ w.status = "anonymous" /\ w.token = None
  BY <1>2, <1>3, Published DEF Statuses
<1>5. Sound(w)
  BY <1>3, <1>4, InTab DEF Sound, Booting, Timed, Own, Alike
<1>6. w.attempts = visit.attempts
  BY <1>3, <1>4 DEF Alike
<1>7. QED
  BY <1>1, <1>2, <1>4, <1>5, <1>6, VisitStep DEF AuthIInv, AuthTypes

\* TimerFires: a timer runs only beside a session.
LEMMA TimerStep ==
  ASSUME AuthIInv, Auth!TimerFires
  PROVE  AuthIInv'
<1>1. visit # None /\ visit.timer = 0
  BY DEF Auth!TimerFires
<1>2. visit.timer # None
  BY <1>1, SignInAssumption DEF Auth!SignInAssumption
<1>3. visit.boot = "done"
  BY <1>1, <1>2, InTab DEF Booting, Documents
<1>4. QED
  BY <1>1, <1>3, GivenUpStep DEF Auth!TimerFires

\* SignOut: the session is given up, the transaction goes, and the tab leaves.
LEMMA SignOutStep ==
  ASSUME AuthIInv, Auth!SignOut
  PROVE  AuthIInv'
<1>1. /\ visit # None /\ visit.status = "authenticated" /\ store' = None
      /\ UNCHANGED <<time, deployment, opened, last, exchanges, counters>>
  BY DEF Auth!SignOut
<1>2. visit.boot = "done"
  BY <1>1, InTab DEF Booting, Documents
<1>3. PICK t : t = Auth!ClearToken(visit)
  OBVIOUS
<1>4. PICK u : u = Auth!Publish(t, "anonymous")
  OBVIOUS
<1>5. PICK w : w = [u EXCEPT !.nav = [to |-> "logout"]]
  OBVIOUS
<1>6. /\ t \in Documents /\ Alike(t, visit) /\ t.boot = "done" /\ t.exchange = visit.exchange
      /\ t.token = None
  BY <1>1, <1>2, <1>3, Cleared, InTab
<1>7. /\ u \in Documents /\ Alike(u, t) /\ u.boot = "done" /\ u.exchange = t.exchange
      /\ u.status = "anonymous" /\ u.token = None
  BY <1>4, <1>6, Published DEF Statuses
<1>8. PICK target : target = [to |-> "logout"]
  OBVIOUS
<1>9. target \in Targets /\ target.to = "logout"
  BY <1>8 DEF Targets
<1>10. /\ w \in Documents /\ w.boot = "done" /\ w.exchange = u.exchange /\ w.url = u.url
       /\ w.status = "anonymous" /\ w.token = None /\ w.attempts = u.attempts /\ w.nav = target
  BY <1>5, <1>7, <1>8, <1>9 DEF Documents
<1>11. w.url = None /\ w.attempts = visit.attempts /\ w.exchange = visit.exchange
  BY <1>1, <1>2, <1>6, <1>7, <1>10, InTab DEF Alike, Booting
<1>12. Sound(w)
  BY <1>1, <1>2, <1>9, <1>10, <1>11, InTab DEF Sound, Booting, Timed, Own
<1>13. visit' = w
  BY <1>3, <1>4, <1>5 DEF Auth!SignOut
<1>14. QED
  BY <1>1, <1>10, <1>11, <1>12, <1>13, VisitStep DEF AuthIInv, AuthTypes

\* SignIn: the session is given up for a request that nobody made before.
LEMMA SignInStep ==
  ASSUME AuthIInv, Auth!SignIn
  PROVE  AuthIInv'
<1>1. /\ visit # None /\ counters.signIns < MaxSignIns
      /\ visit.status = "anonymous" \/ visit.status = "error"
      /\ UNCHANGED <<time, deployment, store, opened, last, exchanges>>
  BY DEF Auth!SignIn, Auth!Recoverable
<1>2. counters' \in Counts /\ counters'.signIns = counters.signIns + 1 /\ counters'.back = counters.back
  BY InTab, <1>1, Counted DEF Auth!SignIn
<1>3. PICK k \in Auth!RequestIds : k = counters.signIns + 1
  BY <1>1, InTab, SignInAssumption DEF Counts, Auth!RequestIds, Auth!SignInAssumption
<1>4. visit.boot = "done"
  BY <1>1, InTab DEF Booting, Documents
<1>5. PICK u : u = Auth!ClearToken(visit)
  OBVIOUS
<1>6. PICK w : w = [u EXCEPT !.attempts = @ \cup {k}]
  OBVIOUS
<1>7. /\ u \in Documents /\ Alike(u, visit) /\ u.boot = "done" /\ u.exchange = visit.exchange
      /\ u.status = visit.status /\ u.token = None
  BY <1>1, <1>4, <1>5, Cleared, InTab
<1>8. /\ w \in Documents /\ w.boot = "done" /\ w.exchange = u.exchange /\ w.url = u.url
      /\ w.status = u.status /\ w.token = None /\ w.attempts = u.attempts \cup {k} /\ w.nav = u.nav
  BY <1>6, <1>7 DEF Documents
<1>9. /\ w.attempts = visit.attempts \cup {k} /\ w.url = visit.url /\ w.nav = visit.nav
      /\ w.exchange = visit.exchange /\ w.status = visit.status
  BY <1>7, <1>8 DEF Alike
<1>10. visit' = w
  BY <1>3, <1>5, <1>6 DEF Auth!SignIn
<1>11. AuthTypes'
  BY <1>1, <1>2, <1>8, <1>10 DEF AuthIInv, AuthTypes
<1>12. Sound(w)'
  BY <1>1, <1>4, <1>8, <1>9, InTab DEF Sound, Booting, Timed, Own
<1>13. Unspent'
  <2>1. counters.signIns \in Nat /\ exchanges[k] = 0
    BY <1>1, <1>3, InTab DEF AuthIInv, Unspent, Counts
  <2>2. store # None => store.request # k
    BY <1>3, <2>1 DEF AuthIInv, Unspent, Pending, AuthTypes
  <2>3. \A q \in Auth!RequestIds : q > counters'.signIns => q > counters.signIns
    BY <1>2, <2>1, SignInAssumption DEF Auth!RequestIds, Auth!SignInAssumption
  <2>4. \A q \in Auth!RequestIds : Pending(q) => Pending(q)'
    BY <1>1, <1>2, <2>1, SignInAssumption DEF Pending, Auth!RequestIds, Auth!SignInAssumption
  <2>5. Pending(k)'
    BY <1>1, <1>2, <1>3, <2>1 DEF Pending
  <2>6. \A q \in w.attempts : q = k \/ (q \in visit.attempts /\ q \in Auth!RequestIds)
    BY <1>1, <1>9, InTab DEF Documents
  <2>7. \A q \in Auth!RequestIds : exchanges'[q] <= 1 /\ (q > counters'.signIns => exchanges'[q] = 0)
    BY <1>1, <2>3 DEF AuthIInv, Unspent
  <2>8. store' # None => Pending(store.request)' /\ (store.request = last)'
    BY <1>1, <2>4 DEF AuthIInv, AuthTypes, Unspent
  <2>9. \A q \in w.attempts : Pending(q)' /\ (store' # None => store'.request # q)
    BY <1>1, <2>2, <2>4, <2>5, <2>6 DEF AuthIInv, Unspent
  <2> QED
    BY <1>10, <2>7, <2>8, <2>9 DEF Unspent
<1>14. QED
  BY <1>10, <1>11, <1>12, <1>13 DEF AuthIInv, Sound, Booting, Timed, Own


\* Hashed: the request becomes the last one, or its transaction cannot be stored.
LEMMA HashedStep ==
  ASSUME AuthIInv, Auth!Hashed
  PROVE  AuthIInv'
<1>1. visit # None /\ UNCHANGED <<time, deployment, opened, exchanges>>
  BY DEF Auth!Hashed
<1>2. PICK k \in visit.attempts :
        LET v == [visit EXCEPT !.attempts = @ \ {k}]
        IN \/ /\ store' = [request |-> k, createdAt |-> time] /\ last' = k
              /\ visit' = [Auth!Publish(v, "redirecting") EXCEPT
                             !.nav = [to |-> "cognito", request |-> k]]
              /\ UNCHANGED counters
           \/ /\ Auth!Mishap /\ store' = None /\ UNCHANGED last
              /\ visit' = Auth!Fail(v)
  BY DEF Auth!Hashed
<1>3. k \in Auth!RequestIds
  BY <1>1, <1>2, InTab DEF Documents
<1>4. visit.boot = "done" /\ visit.token = None
  BY <1>1, <1>2, InTab DEF Booting, Own, Documents
<1>5. PICK v : v = [visit EXCEPT !.attempts = @ \ {k}]
  OBVIOUS
<1>6. /\ v \in Documents /\ v.boot = "done" /\ v.exchange = visit.exchange /\ v.url = visit.url
      /\ v.status = visit.status /\ v.token = None /\ v.attempts = visit.attempts \ {k}
      /\ v.nav = visit.nav
  BY <1>1, <1>4, <1>5, InTab DEF Documents
<1>7. /\ v.url = None /\ (v.exchange # None => v.exchange.code = v.exchange.verifier)
      /\ (v.nav.to = "cognito" => v.nav.request = last)
  BY <1>1, <1>4, <1>6, InTab DEF Booting, Own
<1>8. CASE /\ store' = [request |-> k, createdAt |-> time] /\ last' = k
           /\ visit' = [Auth!Publish(v, "redirecting") EXCEPT
                          !.nav = [to |-> "cognito", request |-> k]]
           /\ UNCHANGED counters
  <2>1. PICK target : target = [to |-> "cognito", request |-> k]
    OBVIOUS
  <2>2. target \in Targets /\ target.to = "cognito" /\ target.request = k
    BY <1>3, <2>1 DEF Targets
  <2>3. PICK u : u = Auth!Publish(v, "redirecting")
    OBVIOUS
  <2>4. PICK w : w = [u EXCEPT !.nav = target]
    OBVIOUS
  <2>5. /\ u \in Documents /\ Alike(u, v) /\ u.boot = "done" /\ u.exchange = v.exchange
        /\ u.status = "redirecting" /\ u.token = None
    BY <1>6, <2>3, Published DEF Statuses
  <2>6. /\ w \in Documents /\ w.boot = "done" /\ w.exchange = u.exchange /\ w.url = u.url
        /\ w.status = "redirecting" /\ w.token = None /\ w.attempts = u.attempts /\ w.nav = target
    BY <2>2, <2>4, <2>5 DEF Documents
  <2>7. /\ w.attempts = visit.attempts \ {k} /\ w.url = None
        /\ (w.exchange # None => w.exchange.code = w.exchange.verifier)
    BY <1>6, <1>7, <2>5, <2>6 DEF Alike
  <2>8. visit' = w
    BY <1>8, <2>1, <2>3, <2>4
  <2>9. PICK new : new = [request |-> k, createdAt |-> time]
    OBVIOUS
  <2>10. /\ store' = new /\ new.request = k
         /\ new \in [request : Auth!RequestIds, createdAt : Nat]
    BY <1>3, <1>8, <2>9 DEF AuthIInv, AuthTypes
  <2>11. AuthTypes'
    BY <1>1, <1>8, <2>6, <2>8, <2>10 DEF AuthIInv, AuthTypes
  <2>12. Unspent'
    <3>1. Pending(k) /\ \A q \in visit.attempts : Pending(q)
      BY <1>1, <1>2 DEF AuthIInv, Unspent
    <3>2. \A q : Pending(q) => Pending(q)'
      BY <1>1, <1>8 DEF Pending
    <3>3. \A q \in Auth!RequestIds :
            exchanges'[q] <= 1 /\ (q > counters'.signIns => exchanges'[q] = 0)
      BY <1>1, <1>8 DEF AuthIInv, Unspent
    <3>4. store'.request = k /\ last' = k /\ Pending(k)'
      BY <1>8, <2>10, <3>1, <3>2
    <3>5. \A q \in w.attempts : Pending(q)' /\ store'.request # q
      BY <2>7, <3>1, <3>2, <3>4
    <3> QED
      BY <2>8, <3>3, <3>4, <3>5 DEF Unspent, Pending
  <2>13. Sound(w)'
    BY <1>8, <2>2, <2>6, <2>7 DEF Sound, Booting, Timed, Own
  <2> QED
    BY <2>8, <2>11, <2>12, <2>13 DEF AuthIInv, Sound, Booting, Timed, Own
<1>9. CASE Auth!Mishap /\ store' = None /\ UNCHANGED last /\ visit' = Auth!Fail(v)
  <2>1. PICK w : w = Auth!Fail(v)
    OBVIOUS
  <2>2. /\ w \in Documents /\ Alike(w, v) /\ w.boot = "done" /\ w.exchange = v.exchange
        /\ w.status = "error" /\ w.token = None
    BY <1>6, <2>1, FailedAuth
  <2>3. Sound(w)
    BY <1>7, <2>2 DEF Sound, Booting, Timed, Own, Alike
  <2>4. /\ counters' \in Counts /\ counters'.signIns = counters.signIns
        /\ counters'.back = counters.back
    BY <1>1, <1>9, InTab, Counted DEF Auth!Mishap
  <2>5. w.attempts \subseteq visit.attempts
    BY <1>6, <2>2 DEF Alike
  <2> QED
    BY <1>1, <1>9, <2>1, <2>2, <2>3, <2>4, <2>5, VisitStep DEF AuthIInv, AuthTypes
<1>10. QED
  BY <1>2, <1>5, <1>8, <1>9

\* Refused.
LEMMA RefusedStep ==
  ASSUME AuthIInv, Auth!Refused
  PROVE  AuthIInv'
<1>1. visit # None /\ visit.boot = "done"
  BY DEF Auth!Refused
<1>2. QED
  BY <1>1, GivenUpStep DEF Auth!Refused

\* Depart, GoBack: the tab is at Cognito.
LEMMA LeaveStep ==
  ASSUME AuthIInv, visit # None, visit' = None,
         UNCHANGED <<time, deployment, store, last, exchanges>>,
         opened' \subseteq Openings, counters' = counters \/ Auth!Count("mishaps")
  PROVE  AuthIInv'
<1>1. /\ counters' \in Counts /\ counters'.signIns = counters.signIns
      /\ counters'.back = counters.back
  BY InTab, Counted
<1>2. QED
  BY <1>1, VisitStep DEF AuthIInv, AuthTypes

\* Depart: where the page of Cognito was opened is remembered.
LEMMA DepartStep ==
  ASSUME AuthIInv, Auth!Depart
  PROVE  AuthIInv'
<1>1. /\ visit # None /\ visit.nav.to # "nowhere" /\ visit' = None
      /\ UNCHANGED <<time, deployment, store, last, exchanges, counters>>
  BY DEF Auth!Depart
<1>2. visit \in Documents /\ opened \subseteq Openings
  BY <1>1, InTab DEF AuthIInv, AuthTypes
<1>3. CASE visit.nav.to = "cognito"
  <2>1. visit.nav \in [to : {"cognito"}, request : Auth!RequestIds]
    BY <1>2, <1>3 DEF Documents, Targets, Auth!Nowhere
  <2>2. visit.nav.request \in Nat /\ visit.config \in {None} \cup Auth!Hosts
    BY <1>2, <2>1, SignInAssumption DEF Documents, Auth!RequestIds, Auth!SignInAssumption
  <2>3. PICK opening : opening = [request |-> visit.nav.request, host |-> visit.config]
    OBVIOUS
  <2>4. opening \in Openings /\ opened' = opened \cup {opening}
    BY <1>3, <2>2, <2>3 DEF Auth!Depart, Openings
  <2> QED
    BY <1>1, <1>2, <2>4, LeaveStep
<1>4. CASE visit.nav.to # "cognito"
  BY <1>1, <1>2, <1>4, LeaveStep DEF Auth!Depart
<1>5. QED
  BY <1>3, <1>4

\* Arrive, Reload: a document is loaded.
LEMMA LoadStep ==
  ASSUME AuthIInv, NEW place \in Places, visit' = Auth!Document(place), Auth!Count("loads"),
         UNCHANGED <<time, deployment, store, opened, last, exchanges>>
  PROVE  AuthIInv'
<1>1. /\ counters' \in Counts /\ counters'.signIns = counters.signIns
      /\ counters'.back = counters.back
  BY Counted DEF AuthIInv, AuthTypes
<1>2. PICK w : w = Auth!Document(place)
  OBVIOUS
<1>3. QED
  BY <1>1, <1>2, Loaded, VisitStep DEF AuthIInv, AuthTypes

\* Arrive: from a page of Cognito that was open, or from anywhere.
LEMMA ArrivalStep ==
  ASSUME AuthIInv, Auth!Arrive
  PROVE  AuthIInv'
<1>1. {o.request : o \in opened} \cup {0} \subseteq Nat
  BY DEF AuthIInv, AuthTypes, Openings
<1>2. {None, Auth!Misplaced} \cup Auth!Callbacks({o.request : o \in opened} \cup {0}) \subseteq Places
  BY <1>1 DEF Places, Auth!Callbacks
<1>3. QED
  BY <1>2, LoadStep DEF Auth!Arrive

\* Reload: with what is in the location.
LEMMA ReloadStep ==
  ASSUME AuthIInv, Auth!Reload
  PROVE  AuthIInv'
<1>1. visit # None
  BY DEF Auth!Reload
<1>2. visit.url \in Places
  BY <1>1, InTab DEF Documents
<1>3. QED
  BY <1>2, LoadStep DEF Auth!Reload

\* Redeploy: the tab knows nothing of it.
LEMMA RedeployStep ==
  ASSUME AuthIInv, Auth!Redeploy
  PROVE  AuthIInv'
<1>1. PICK w : w = visit
  OBVIOUS
<1>2. /\ visit' = w /\ UNCHANGED <<time, store, opened, last, exchanges>>
      /\ deployment' \in Auth!Hosts /\ Auth!Count("mishaps")
  BY <1>1 DEF Auth!Redeploy, Auth!Mishap, Auth!Hosts
<1>3. /\ counters' \in Counts /\ counters'.signIns = counters.signIns
      /\ counters'.back = counters.back
  BY <1>2, Counted DEF AuthIInv, AuthTypes
<1>4. w # None => w \in Documents /\ Sound(w) /\ w.attempts \subseteq visit.attempts
  BY <1>1, InTab
<1>5. QED
  BY <1>1, <1>2, <1>3, <1>4, VisitStep DEF AuthIInv, AuthTypes


\* GoBack.
LEMMA GoBackStep ==
  ASSUME AuthIInv, Auth!GoBack
  PROVE  AuthIInv'
  BY LeaveStep DEF Auth!GoBack, Auth!Mishap, AuthIInv, AuthTypes

\* Tick: the timer runs as the token does.
LEMMA TickStep ==
  ASSUME AuthIInv, Auth!Tick
  PROVE  AuthIInv'
<1>1. /\ time' = time + 1 /\ time \in Nat /\ time' \in Nat
      /\ UNCHANGED <<deployment, store, opened, last, exchanges, counters>>
  BY DEF Auth!Tick, AuthIInv, AuthTypes
<1>2. CASE visit = None \/ visit.token = None
  <2>1. visit' = visit
    BY <1>2 DEF Auth!Tick
  <2>2. AuthTypes' /\ Unspent'
    BY <1>1, <2>1 DEF AuthIInv, AuthTypes, Unspent, Pending
  <2>3. visit # None => Sound(visit)'
    BY <1>1, <1>2, <2>1, InTab DEF Sound, Booting, Timed, Own
  <2> QED
    BY <2>1, <2>2, <2>3 DEF AuthIInv
<1>3. CASE visit # None /\ visit.token # None
  <2>1. /\ visit \in Documents /\ visit.token \in Tokens /\ visit.timer \in Nat
        /\ Booting(visit) /\ Timed(visit) /\ Own(visit) /\ Skew \in Nat
    BY <1>3, InTab, SignInAssumption DEF Documents, Timed, Auth!SignInAssumption
  <2>2. PICK token \in Tokens : token = visit.token
    BY <2>1
  <2>3. PICK timer \in Nat : timer = visit.timer
    BY <2>1
  <2>4. PICK left \in Nat : left = token.left
    BY <2>2 DEF Tokens
  <2>5. PICK less \in Nat : /\ less = Auth!Less(left)
                            /\ left = 0 => less = 0
                            /\ left # 0 => less = left - 1
    BY DEF Auth!Less
  <2>6. PICK wait \in Nat : /\ wait = Auth!Less(timer)
                            /\ timer = 0 => wait = 0
                            /\ timer # 0 => wait = timer - 1
    BY DEF Auth!Less
  <2>7. PICK new : new = [token EXCEPT !.left = less]
    OBVIOUS
  <2>8. /\ new \in Tokens /\ new.request = token.request /\ new.expiresAt = token.expiresAt
        /\ new.left = less /\ new # None
    BY <2>2, <2>7, SignInAssumption DEF Tokens, Auth!SignInAssumption
  <2>9. PICK u : u = [visit EXCEPT !.timer = wait]
    OBVIOUS
  <2>10. PICK w : w = [u EXCEPT !.token = new]
    OBVIOUS
  <2>11. /\ u \in Documents /\ Alike(u, visit) /\ u.boot = visit.boot /\ u.exchange = visit.exchange
         /\ u.status = visit.status /\ u.timer = wait /\ u.token = visit.token
    BY <2>1, <2>9 DEF Documents, Alike
  <2>12. /\ w \in Documents /\ Alike(w, u) /\ w.boot = u.boot /\ w.exchange = u.exchange
         /\ w.status = u.status /\ w.timer = wait /\ w.token = new
    BY <2>8, <2>10, <2>11 DEF Documents, Alike
  <2>13. visit' = w
    <3>1. visit' = [visit EXCEPT !.timer = wait, !.token.left = less]
      BY <1>3, <2>2, <2>3, <2>4, <2>5, <2>6 DEF Auth!Tick, Documents
    <3> QED
      BY <2>1, <2>2, <2>7, <2>9, <2>10, <3>1 DEF Documents, Tokens
  <2>14. /\ Alike(w, visit) /\ w.boot = visit.boot /\ w.exchange = visit.exchange
         /\ w.status = visit.status
    BY <2>11, <2>12 DEF Alike
  <2>15. Booting(w)'
    BY <1>1, <1>3, <2>1, <2>14 DEF Booting, Alike
  <2>16. Timed(w)'
    <3>1. /\ timer # 0 => left = timer + Skew
          /\ timer = 0 => left <= Skew
          /\ counters.back = 0 => token.expiresAt <= time + left
      BY <1>3, <2>1, <2>2, <2>3, <2>4 DEF Timed
    <3>2. token.expiresAt \in Nat
      BY <2>2 DEF Tokens
    <3>3. /\ wait # 0 => less = wait + Skew
          /\ wait = 0 => less <= Skew
      BY <2>1, <2>5, <2>6, <3>1
    <3>4. counters.back = 0 => token.expiresAt <= time' + less
      BY <1>1, <2>5, <3>1, <3>2
    <3> QED
      BY <1>1, <2>8, <2>12, <3>3, <3>4 DEF Timed
  <2>17. Own(w)'
    BY <1>1, <1>3, <2>1, <2>2, <2>8, <2>12, <2>14 DEF Own, Alike
  <2>18. AuthTypes'
    BY <1>1, <2>12, <2>13 DEF AuthIInv, AuthTypes
  <2>19. Unspent'
    BY <1>1, <1>3, <2>13, <2>14 DEF AuthIInv, Unspent, Pending, Alike
  <2> QED
    BY <2>13, <2>15, <2>16, <2>17, <2>18, <2>19 DEF AuthIInv, Sound, Booting, Timed, Own
<1>4. QED
  BY <1>2, <1>3

\* SetBack: from now on the clock says nothing of a late timer.
LEMMA SetBackStep ==
  ASSUME AuthIInv, Auth!SetBack
  PROVE  AuthIInv'
<1>1. /\ time' \in Nat /\ UNCHANGED <<deployment, visit, store, opened, last, exchanges>>
      /\ counters' = [counters EXCEPT !.mishaps = @ + 1, !.back = @ + 1]
  BY DEF Auth!SetBack, AuthIInv, AuthTypes
<1>2. counters' \in Counts /\ counters'.signIns = counters.signIns /\ counters'.back # 0
  <2>1. counters \in Counts
    BY DEF AuthIInv, AuthTypes
  <2>2. PICK m : m = counters.mishaps + 1
    OBVIOUS
  <2>3. PICK b : b = counters.back + 1
    OBVIOUS
  <2>4. m \in Nat /\ b \in Nat /\ b # 0
    BY <2>1, <2>2, <2>3 DEF Counts
  <2>5. PICK u : u = [counters EXCEPT !.mishaps = m]
    OBVIOUS
  <2>6. u \in Counts /\ u.signIns = counters.signIns
    BY <2>1, <2>4, <2>5 DEF Counts
  <2>7. counters' = [u EXCEPT !.back = b]
    <3>1. counters' = [counters EXCEPT !.mishaps = m, !.back = b]
      BY <1>1, <2>2, <2>3
    <3> QED
      BY <2>5, <3>1
  <2> QED
    BY ONLY <2>4, <2>6, <2>7 DEF Counts
<1>3. AuthTypes' /\ Unspent'
  BY <1>1, <1>2 DEF AuthIInv, AuthTypes, Unspent, Pending
<1>4. visit # None => Sound(visit)'
  BY <1>1, <1>2, InTab DEF Sound, Booting, Timed, Own
<1>5. QED
  BY <1>1, <1>3, <1>4 DEF AuthIInv

\* A token that is handed out lasts, since its timer runs.
LEMMA HandedOutLasts ==
  ASSUME AuthIInv
  PROVE  Auth!TokenIsValid
<1>1. SUFFICES ASSUME visit # None, Auth!AccessToken(visit) # None,
                      ~(counters.back > 0 /\ visit.timer = 0)
               PROVE  Auth!AccessToken(visit).left > Skew
  BY DEF Auth!TokenIsValid
<1>2. PICK token : token = visit.token
  OBVIOUS
<1>3. Auth!AccessToken(visit) = token /\ token # None /\ time + Skew < token.expiresAt
  BY <1>1, <1>2 DEF Auth!AccessToken
<1>4. token \in Tokens /\ time \in Nat /\ Skew \in Nat /\ counters.back \in Nat
  BY <1>1, <1>2, <1>3, InTab, SignInAssumption
  DEF Documents, AuthIInv, AuthTypes, Counts, Auth!SignInAssumption
<1>5. token.left \in Nat /\ token.expiresAt \in Nat
  BY <1>4 DEF Tokens
<1>6. PICK timer \in Nat : /\ timer = visit.timer
                           /\ timer # 0 => token.left = timer + Skew
                           /\ timer = 0 => token.left <= Skew
                           /\ counters.back = 0 => token.expiresAt <= time + token.left
  BY <1>1, <1>2, <1>3, InTab DEF Timed
<1>7. CASE timer # 0
  BY <1>3, <1>4, <1>6, <1>7
<1>8. CASE timer = 0
  <2>1. counters.back = 0
    BY <1>1, <1>4, <1>6, <1>8
  <2> QED
    BY <1>3, <1>4, <1>5, <1>6, <1>8, <2>1
<1>9. QED
  BY <1>7, <1>8

\* The invariant gives what was to be shown.
LEMMA EarnedByInvariant ==
  ASSUME AuthIInv
  PROVE  SessionIsEarned
<1>1. Auth!ExchangedOnce
  BY InTab DEF Auth!ExchangedOnce, AuthIInv, Unspent, Booting
<1>2. Auth!StoredIsLast
  BY InTab DEF Auth!StoredIsLast, AuthIInv, Unspent, Own
<1>3. Auth!SessionIsOwn
  BY InTab DEF Auth!SessionIsOwn, Own, Documents, Tokens
<1>4. Auth!LocationIsClean
  BY InTab DEF Auth!LocationIsClean, Booting
<1>5. QED
  BY <1>1, <1>2, <1>3, <1>4, HandedOutLasts DEF SessionIsEarned, Auth!SessionIsEarned

\* A tab that was opened on the page.
LEMMA AuthInitially ==
  ASSUME Auth!Init
  PROVE  AuthIInv
<1>1. None \in Places
  BY DEF Places
<1>2. visit \in Documents /\ Sound(visit) /\ visit.attempts = {}
  BY <1>1, Loaded DEF Auth!Init
<1>3. counters \in Counts
  BY DEF Auth!Init, Counts
<1>4. AuthTypes
  BY <1>2, <1>3, SignInAssumption DEF Auth!Init, AuthTypes, Auth!Hosts, Auth!SignInAssumption
<1>5. Unspent
  BY <1>2 DEF Auth!Init, Unspent
<1>6. QED
  BY <1>2, <1>4, <1>5 DEF AuthIInv

\* A step of the composition is one of the sign-in, or leaves it alone.
LEMMA AuthSteps ==
  ASSUME AuthIInv, [MCNext]_allVars
  PROVE  AuthIInv'
<1>1. CASE UNCHANGED authVars
  <2>1. AuthTypes' /\ Unspent'
    BY <1>1 DEF authVars, AuthIInv, AuthTypes, Unspent, Pending
  <2>2. visit' # None => Sound(visit)'
    BY <1>1 DEF authVars, AuthIInv, Sound, Booting, Timed, Own
  <2> QED
    BY <2>1, <2>2 DEF AuthIInv
<1>2. CASE AuthNext
  BY <1>2, InitializeStep, ConfigStep, TokenStep, TimerStep, SignInStep, HashedStep, SignOutStep,
     RefusedStep, DepartStep, ArrivalStep, ReloadStep, GoBackStep, RedeployStep, TickStep,
     SetBackStep
  DEF AuthNext, AuthStep
<1>3. CASE PageNext
  BY <1>1, <1>3 DEF PageNext, PageStep
<1>4. QED
  BY <1>1, <1>2, <1>3 DEF MCNext, allVars

\* A session of the steward is earned.
THEOREM SessionEarned == MCSafety => []SessionIsEarned
<1>1. MCInit => AuthIInv
  BY AuthInitially DEF MCInit
<1>2. AuthIInv /\ [MCNext]_allVars => AuthIInv'
  BY AuthSteps
<1>3. AuthIInv => SessionIsEarned
  BY EarnedByInvariant
<1>4. QED
  BY <1>1, <1>2, <1>3, PTL DEF MCSafety
=============================================================================

------------------------ MODULE CoreLifecycleProofs ------------------------
(***************************************************************************)
(* Theorems about CoreLifecycle, for any number of sessions, executions    *)
(* and hosts and any times: a lease that is READY has been completed, and  *)
(* the lease and the health item implement CoreLease, step by step.        *)
(***************************************************************************)
EXTENDS CoreLifecycle, TLAPS

LEMMA InitIInv == Init => IInv
<1> SUFFICES ASSUME Init PROVE IInv
  OBVIOUS
<1>1. NoLease \in Item
  BY DEF NoLease, Item, LeaseStates
<1>2. NoExec \in Exec /\ NoHost \in Host
  BY DEF NoExec, Exec, NoHost, Host
<1>3. TypeOK
  BY <1>1, <1>2, CoreAssumption DEF Init, TypeOK
<1>4. Leased
  BY CoreAssumption DEF Init, NoLease, Leased
<1>5. \A e \in Execs : Starts(e) /\ Stops(e) /\ exec[e].hard <= MaxTime
  BY CoreAssumption DEF Init, NoExec, Starts, Stops
<1>6. \A h \in Hosts : Serves(h)
  BY DEF Init, NoHost, Serves
<1> QED
  BY <1>3, <1>4, <1>5, <1>6 DEF IInv

-----------------------------------------------------------------------------
(* What a step does to those that do not take it.                          *)

\* The ways in which a lease moves: not at all, to a higher revision, to no
\* operation, or with its operation kept.
LeaseMoves ==
  \/ lease' = lease
  \/ lease'.rev > lease.rev
  \/ lease'.rev = lease.rev /\ lease'.session = lease.session /\ lease'.op = NoOne
  \/ /\ lease'.rev = lease.rev /\ lease'.session = lease.session /\ lease'.op = lease.op
     /\ lease.ready => lease'.ready
     /\ lease'.state = lease.state \/ (lease.state = "STARTING" /\ lease'.state = "FAILED")

\* An execution keeps what IInv says of it while others move the lease.
LEMMA OthersStay ==
  ASSUME TypeOK, lease' \in Item, LeaseMoves, started \subseteq started',
         NEW f \in Execs, exec'[f] = exec[f], Starts(f), Stops(f)
  PROVE  Starts(f)' /\ Stops(f)'
<1>1. lease.rev \in Nat /\ lease'.rev \in Nat /\ exec[f].rev \in Nat
  BY DEF TypeOK, Item, Exec
<1>2. Starts(f)'
  BY <1>1 DEF Starts, LeaseMoves
<1>3. Stops(f)'
  BY <1>1 DEF Stops, LeaseMoves
<1> QED
  BY <1>2, <1>3

\* A step of one execution.
LEMMA ExecStep ==
  ASSUME IInv, NEW e \in Execs, \A f \in Execs \ {e} : exec'[f] = exec[f],
         LeaseMoves, UNCHANGED <<host, started>>,
         Starts(e)', Stops(e)', exec'[e].hard <= MaxTime, TypeOK', Leased'
  PROVE  IInv'
<1>1. \A f \in Execs : Starts(f)' /\ Stops(f)' /\ exec'[f].hard <= MaxTime
  <2> TAKE f \in Execs
  <2>1. CASE f = e
    BY <2>1
  <2>2. CASE f # e
    BY <2>2, OthersStay DEF IInv, TypeOK
  <2> QED
    BY <2>1, <2>2
<1>2. \A h \in Hosts : Serves(h)'
  BY DEF IInv, Serves
<1> QED
  BY <1>1, <1>2 DEF IInv

\* A step of one host.
LEMMA HostMove ==
  ASSUME IInv, NEW h \in Hosts, \A g \in Hosts \ {h} : host'[g] = host[g],
         LeaseMoves, UNCHANGED <<exec, started>>, Serves(h)', TypeOK', Leased'
  PROVE  IInv'
<1>1. \A f \in Execs : Starts(f)' /\ Stops(f)' /\ exec'[f].hard <= MaxTime
  BY OthersStay DEF IInv, TypeOK
<1>2. \A g \in Hosts : Serves(g)'
  BY DEF IInv, Serves
<1> QED
  BY <1>1, <1>2 DEF IInv

\* An execution that ended, or that was retried.
LEMMA Ended ==
  ASSUME TypeOK, NEW e \in Execs, End(e)
  PROVE  /\ exec' \in [Execs -> Exec] /\ \A f \in Execs \ {e} : exec'[f] = exec[f]
         /\ Starts(e)' /\ Stops(e)' /\ exec'[e].hard <= MaxTime
<1>1. NoExec \in Exec
  BY DEF NoExec, Exec
<1>2. exec' \in [Execs -> Exec] /\ exec'[e] = NoExec /\ \A f \in Execs \ {e} : exec'[f] = exec[f]
  BY <1>1 DEF TypeOK, End
<1>3. exec'[e].act = "REAP" /\ exec'[e].pc = "idle" /\ exec'[e].hard = 0
  BY <1>2 DEF NoExec
<1> QED
  BY <1>2, <1>3, CoreAssumption DEF Starts, Stops

\* An execution that moved on, with the rest of its locals as they were.
LEMMA SteppedTo ==
  ASSUME TypeOK, NEW e \in Execs, NEW pc \in InLambda \cup {"prepare", "scale", "finalize"},
         Step(e, pc)
  PROVE  /\ exec' \in [Execs -> Exec] /\ \A f \in Execs \ {e} : exec'[f] = exec[f]
         /\ exec'[e] = [exec[e] EXCEPT !.pc = pc]
         /\ exec'[e].pc = pc /\ exec'[e].act = exec[e].act /\ exec'[e].s = exec[e].s
         /\ exec'[e].rev = exec[e].rev /\ exec'[e].hard = exec[e].hard
         /\ exec'[e].op = exec[e].op
BY DEF TypeOK, Step, Exec

LEMMA Raised ==
  ASSUME TypeOK, NEW e \in Execs, Raise(e), exec[e].hard <= MaxTime, started' = started,
         exec[e].act = "START" => exec[e].s \in started /\ exec[e].rev < lease'.rev,
         lease' \in Item
  PROVE  /\ exec' \in [Execs -> Exec] /\ \A f \in Execs \ {e} : exec'[f] = exec[f]
         /\ Starts(e)' /\ Stops(e)' /\ exec'[e].hard <= MaxTime
         /\ mishaps' \in 0 .. MaxMishaps
<1>1. mishaps' \in 0 .. MaxMishaps
  BY CoreAssumption DEF Raise, Mishap, TypeOK
<1>2. CASE End(e)
  BY <1>1, <1>2, Ended
<1>3. CASE /\ exec[e].tries # 2
           /\ exec' = [exec EXCEPT ![e].pc = "prepare", ![e].op = NoOne, ![e].tries = @ + 1]
  <2>1. exec[e] \in Exec /\ exec[e].tries + 1 \in 0 .. 2
    BY <1>3 DEF TypeOK, Exec
  <2>2. /\ exec' \in [Execs -> Exec] /\ \A f \in Execs \ {e} : exec'[f] = exec[f]
        /\ exec'[e].pc = "prepare" /\ exec'[e].act = exec[e].act /\ exec'[e].s = exec[e].s
        /\ exec'[e].rev = exec[e].rev /\ exec'[e].hard = exec[e].hard
    BY <1>3, <2>1 DEF TypeOK, Exec
  <2>3. exec[e].rev \in Nat /\ lease'.rev \in Nat
    BY <2>1 DEF Exec, Item
  <2> QED
    BY <1>1, <2>2, <2>3 DEF Starts, Stops
<1> QED
  BY <1>2, <1>3 DEF Raise

LEMMA NoExecType == NoExec \in Exec
BY DEF NoExec, Exec

\* A decision is typed, whatever it decided.
LEMMA DecidedFacts ==
  ASSUME TypeOK, NEW e \in Execs, NEW act \in {"START", "STOP"}, NEW op \in Execs \cup {NoOne},
         NEW rev \in Nat, Decided(e, act, op, rev)
  PROVE  /\ exec' \in [Execs -> Exec] /\ \A f \in Execs \ {e} : exec'[f] = exec[f]
         /\ exec'[e].pc = "scale" /\ exec'[e].act = act /\ exec'[e].s = exec[e].s
         /\ exec'[e].op = op /\ exec'[e].rev = rev /\ exec'[e].hard = 0
<1>1. exec[e] \in Exec
  BY DEF TypeOK
<1>2. exec[e].s \in Sessions \cup {NoOne}
  BY <1>1 DEF Exec
<1> DEFINE x == [NoExec EXCEPT !.pc = "scale", !.act = act, !.s = exec[e].s, !.op = op, !.rev = rev]
<1>3. /\ x \in Exec /\ x.pc = "scale" /\ x.act = act /\ x.s = exec[e].s /\ x.op = op
      /\ x.rev = rev /\ x.hard = 0
  <2>1. x \in Exec
    BY <1>2, NoExecType DEF Exec
  <2> QED
    BY <2>1 DEF NoExec
<1>4. exec' = [exec EXCEPT ![e] = x]
  BY DEF Decided
<1> HIDE DEF x
<1> QED
  BY <1>3, <1>4 DEF TypeOK

-----------------------------------------------------------------------------
(* Commands.                                                               *)

\* What a new execution knows.
LEMMA CommandFacts ==
  ASSUME TypeOK, NEW e \in Execs, NEW act \in {"START", "ACTIVITY", "STOP", "REAP", "WATCH"},
         NEW s \in Sessions \cup {NoOne}, NEW rev \in Nat, NEW hard \in Nat,
         Command(e, act, s, rev, hard)
  PROVE  /\ exec' \in [Execs -> Exec] /\ \A f \in Execs \ {e} : exec'[f] = exec[f]
         /\ exec'[e].pc = "prepare" /\ exec'[e].act = act /\ exec'[e].s = s
         /\ exec'[e].rev = rev /\ exec'[e].hard = hard
<1> DEFINE x == [NoExec EXCEPT !.pc = "prepare", !.act = act, !.s = s, !.rev = rev, !.hard = hard]
<1>1. /\ x \in Exec /\ x.pc = "prepare" /\ x.act = act /\ x.s = s /\ x.rev = rev /\ x.hard = hard
  <2>1. x \in Exec
    BY NoExecType DEF Exec
  <2> QED
    BY <2>1 DEF NoExec
<1>2. exec' = [exec EXCEPT ![e] = x]
  BY DEF Command
<1> HIDE DEF x
<1> QED
  BY <1>1, <1>2 DEF TypeOK

\* A session that was not started does not have the lease.
LEMMA StartCommandStep ==
  ASSUME IInv, NEW e \in Execs, NEW s \in Sessions, StartCommand(e, s)
  PROVE  IInv'
<1>1. now + HardTime \in Nat /\ now + HardTime <= MaxTime /\ lease.rev \in Nat /\ now \in Nat
  BY CoreAssumption DEF IInv, TypeOK, Item, StartCommand
<1>2. /\ exec' \in [Execs -> Exec] /\ \A f \in Execs \ {e} : exec'[f] = exec[f]
      /\ exec'[e].pc = "prepare" /\ exec'[e].act = "START" /\ exec'[e].s = s
      /\ exec'[e].rev = lease.rev /\ exec'[e].hard = now + HardTime
  BY <1>1, CommandFacts DEF IInv, StartCommand
<1>3. UNCHANGED <<now, lease, health, links, capacity, watch, host, commands, mishaps>>
      /\ started' = started \cup {s} /\ s # lease.session
  BY CoreAssumption DEF StartCommand, IInv, Leased
<1>4. TypeOK'
  BY <1>2, <1>3 DEF IInv, TypeOK
<1>5. Leased'
  BY <1>3 DEF IInv, Leased
<1>6. \A f \in Execs : Starts(f)' /\ Stops(f)' /\ exec'[f].hard <= MaxTime
  <2> TAKE f \in Execs
  <2>1. CASE f = e
    BY <1>1, <1>2, <1>3, <2>1 DEF Starts, Stops
  <2>2. CASE f # e
    BY <1>2, <1>3, <2>2, OthersStay DEF IInv, TypeOK, LeaseMoves
  <2> QED
    BY <2>1, <2>2
<1>7. \A h \in Hosts : Serves(h)'
  BY <1>3 DEF IInv, Serves
<1> QED
  BY <1>4, <1>5, <1>6, <1>7 DEF IInv

\* The other commands claim nothing.
LEMMA OtherCommand ==
  ASSUME IInv, NEW e \in Execs, NEW act \in {"ACTIVITY", "STOP", "REAP", "WATCH"},
         NEW s \in Sessions \cup {NoOne}, NEW rev \in Nat, NEW hard \in Nat, hard <= MaxTime,
         Command(e, act, s, rev, hard),
         UNCHANGED <<now, lease, health, links, capacity, host, started, mishaps>>,
         watch' \subseteq watch, commands' \in 0 .. MaxCommands
  PROVE  IInv'
<1>1. /\ exec' \in [Execs -> Exec] /\ \A f \in Execs \ {e} : exec'[f] = exec[f]
      /\ exec'[e].pc = "prepare" /\ exec'[e].act = act /\ exec'[e].hard = hard
  BY CommandFacts DEF IInv
<1>2. TypeOK'
  BY <1>1 DEF IInv, TypeOK
<1>3. Leased'
  BY DEF IInv, Leased
<1>4. Starts(e)' /\ Stops(e)'
  BY <1>1 DEF Starts, Stops
<1>5. LeaseMoves
  BY DEF LeaseMoves
<1> QED
  BY <1>1, <1>2, <1>3, <1>4, <1>5, ExecStep

LEMMA UserCommandStep ==
  ASSUME IInv, NEW e \in Execs, NEW s \in Sessions, NEW act \in {"STOP", "ACTIVITY"},
         UserCommand(e, s, act)
  PROVE  IInv'
<1>1. lease.rev \in Nat /\ lease.hard \in Nat /\ lease.hard <= MaxTime
  BY DEF IInv, TypeOK, Item, Leased
<1>2. commands' \in 0 .. MaxCommands
  BY CoreAssumption DEF UserCommand, IInv, TypeOK
<1> QED
  BY <1>1, <1>2, OtherCommand DEF UserCommand

LEMMA ReapCommandStep == ASSUME IInv, NEW e \in Execs, ReapCommand(e) PROVE IInv'
<1>1. 0 <= MaxTime
  BY CoreAssumption
<1> QED
  BY <1>1, OtherCommand DEF ReapCommand, rest, IInv, TypeOK

LEMMA WatchCommandStep ==
  ASSUME IInv, NEW e \in Execs, NEW w \in watch, WatchCommand(e, w)
  PROVE  IInv'
<1>1. w.s \in Sessions /\ w.rev \in Nat /\ w.deadline \in Nat /\ w.deadline <= MaxTime
  BY DEF IInv, TypeOK, Leased
<1> QED
  BY <1>1, OtherCommand DEF WatchCommand, rest, IInv, TypeOK

-----------------------------------------------------------------------------
(* START.                                                                  *)

\* What the lease is after a claim.
LEMMA ClaimFacts ==
  ASSUME IInv, NEW e \in Execs, exec[e].act = "START", exec[e].pc = "prepare",
         BindingCurrent(e), Claimable(e), ClaimLease(e)
  PROVE  /\ lease' \in Item /\ lease'.rev > lease.rev /\ exec[e].rev < lease'.rev
         /\ lease'.state = "STARTING" /\ lease'.session = exec[e].s /\ lease'.op = e
         /\ lease'.idle <= MaxTime /\ lease'.hard <= MaxTime /\ lease'.rev = lease.rev + 1
<1>1. /\ exec[e] \in Exec /\ exec[e].hard <= MaxTime /\ exec[e].rev <= lease.rev
      /\ exec[e].s \in started /\ now \in Nat /\ lease \in Item
  BY DEF IInv, TypeOK, Starts
<1>2. exec[e].rev \in Nat /\ exec[e].hard \in Nat /\ lease.rev \in Nat
  BY <1>1 DEF Exec, Item
<1>3. exec[e].rev = lease.rev
  BY <1>1, <1>2 DEF Claimable, IInv, Leased
<1> DEFINE idle == Min2(now + IdleTime, exec[e].hard)
<1>4. idle \in Nat /\ idle <= exec[e].hard
  BY <1>1, <1>2, CoreAssumption DEF Min2
<1>5. exec[e].s \in Sessions /\ now + OpTime \in Nat
  BY <1>1, CoreAssumption DEF IInv, TypeOK
<1> HIDE DEF idle
<1>6. lease' = [state |-> "STARTING", session |-> exec[e].s, rev |-> exec[e].rev + 1,
                idle |-> idle, hard |-> exec[e].hard, op |-> e, opExp |-> now + OpTime,
                ready |-> FALSE]
  BY DEF ClaimLease, idle
<1>7. lease' \in Item
  BY <1>2, <1>4, <1>5, <1>6 DEF Item, LeaseStates
<1> QED
  BY <1>1, <1>2, <1>3, <1>4, <1>6, <1>7, CoreAssumption

\* A start claims the revision it was sent for, once.
LEMMA ClaimStep == ASSUME IInv, NEW e \in Execs, Claim(e) PROVE IInv'
<1>1. UNCHANGED <<now, health, links, capacity, watch, host, started, commands>>
      /\ exec[e].pc = "prepare" /\ exec[e].act = "START"
  BY DEF Claim, rest
<1>2. /\ TypeOK /\ exec[e] \in Exec /\ exec[e].hard <= MaxTime /\ exec[e].s \in started
      /\ exec[e].rev <= lease.rev /\ exec[e].rev \in Nat /\ lease.rev \in Nat
      /\ exec[e].s = lease.session => exec[e].rev < lease.rev
  BY <1>1 DEF IInv, TypeOK, Starts, Exec, Item
<1>3. CASE BindingCurrent(e) /\ Claimable(e) /\ ClaimLease(e)
  <2>1. /\ lease' \in Item /\ lease'.rev > lease.rev /\ exec[e].rev < lease'.rev
        /\ lease'.state = "STARTING" /\ lease'.session = exec[e].s /\ lease'.op = e
        /\ lease'.idle <= MaxTime /\ lease'.hard <= MaxTime
    BY <1>1, <1>3, ClaimFacts
  <2>2. Leased'
    BY <1>1, <1>2, <2>1, CoreAssumption DEF Leased, IInv
  <2>3. LeaseMoves
    BY <2>1 DEF LeaseMoves
  <2>4. CASE Raise(e)
    <3>1. /\ exec' \in [Execs -> Exec] /\ \A f \in Execs \ {e} : exec'[f] = exec[f]
          /\ Starts(e)' /\ Stops(e)' /\ exec'[e].hard <= MaxTime
          /\ mishaps' \in 0 .. MaxMishaps
      BY <1>1, <1>2, <2>1, <2>4, Raised
    <3>2. TypeOK'
      BY <1>1, <1>2, <2>1, <3>1 DEF TypeOK
    <3> QED
      BY <1>1, <2>2, <2>3, <3>1, <3>2, ExecStep
  <2>5. CASE /\ exec' = [exec EXCEPT ![e].pc = "endpoints", ![e].at = now, ![e].op = e]
             /\ UNCHANGED mishaps
    <3>1. now \in Nat
      BY <1>2 DEF TypeOK
    <3>2. /\ exec' \in [Execs -> Exec] /\ \A f \in Execs \ {e} : exec'[f] = exec[f]
          /\ exec'[e].pc = "endpoints" /\ exec'[e].act = "START" /\ exec'[e].s = exec[e].s
          /\ exec'[e].rev = exec[e].rev /\ exec'[e].hard = exec[e].hard /\ exec'[e].op = e
      BY <1>1, <1>2, <2>5, <3>1 DEF TypeOK, Exec, InLambda
    <3>3. Starts(e)' /\ Stops(e)'
      BY <1>1, <1>2, <2>1, <3>2, CoreAssumption DEF Starts, Stops, Item
    <3>4. TypeOK'
      BY <1>1, <1>2, <2>1, <2>5, <3>2 DEF TypeOK
    <3> QED
      BY <1>1, <1>2, <2>2, <2>3, <3>2, <3>3, <3>4, ExecStep
  <2> QED
    BY <1>3, <2>4, <2>5 DEF Claim, SameReservation
<1>4. CASE /\ SameReservation(e)
           /\ exec' = [exec EXCEPT ![e].pc = "endpoints", ![e].at = now, ![e].op = lease.op]
           /\ UNCHANGED <<lease, mishaps>>
  <2>1. now \in Nat /\ lease.op \in Execs \cup {NoOne} /\ lease.op # NoOne
    BY <1>2, <1>4 DEF TypeOK, Item, SameReservation
  <2>2. /\ exec' \in [Execs -> Exec] /\ \A f \in Execs \ {e} : exec'[f] = exec[f]
        /\ exec'[e].pc = "endpoints" /\ exec'[e].act = "START" /\ exec'[e].s = exec[e].s
        /\ exec'[e].rev = exec[e].rev /\ exec'[e].hard = exec[e].hard
        /\ exec'[e].op = lease.op
    BY <1>1, <1>2, <1>4, <2>1 DEF TypeOK, Exec, InLambda
  <2>3. Starts(e)' /\ Stops(e)'
    BY <1>1, <1>2, <1>4, <2>1, <2>2 DEF Starts, Stops, SameReservation
  <2>4. TypeOK'
    BY <1>1, <1>2, <1>4, <2>2 DEF TypeOK
  <2>5. Leased' /\ LeaseMoves
    BY <1>1, <1>4 DEF IInv, Leased, LeaseMoves
  <2> QED
    BY <1>1, <1>2, <2>2, <2>3, <2>4, <2>5, ExecStep
<1>5. CASE End(e) /\ UNCHANGED <<lease, mishaps>>
  <2>1. /\ exec' \in [Execs -> Exec] /\ \A f \in Execs \ {e} : exec'[f] = exec[f]
        /\ Starts(e)' /\ Stops(e)' /\ exec'[e].hard <= MaxTime
    BY <1>2, <1>5, Ended
  <2>2. TypeOK'
    BY <1>1, <1>2, <1>5, <2>1 DEF TypeOK
  <2>3. Leased' /\ LeaseMoves
    BY <1>1, <1>5 DEF IInv, Leased, LeaseMoves
  <2> QED
    BY <1>1, <2>1, <2>2, <2>3, ExecStep
<1> QED
  BY <1>3, <1>4, <1>5 DEF Claim

\* The steps of an execution that leave the lease alone.
Aside(e) ==
  /\ UNCHANGED <<now, lease, watch, host, started, commands>>
  /\ health' \in [status : {"STOPPED", "READY", "UNHEALTHY"}, session : Sessions \cup {NoOne}]
  /\ links' \subseteq Sessions /\ capacity' \in 0 .. 1 /\ mishaps' \in 0 .. MaxMishaps

\* They keep the invariant when they end the execution, and when they retry it.
LEMMA AsideStep ==
  ASSUME IInv, NEW e \in Execs, Aside(e), exec' \in [Execs -> Exec],
         \A f \in Execs \ {e} : exec'[f] = exec[f],
         Starts(e)', Stops(e)', exec'[e].hard <= MaxTime
  PROVE  IInv'
<1>1. TypeOK'
  BY DEF IInv, TypeOK, Aside
<1>2. Leased' /\ LeaseMoves
  BY DEF IInv, Leased, LeaseMoves, Aside
<1> QED
  BY <1>1, <1>2, ExecStep DEF Aside

LEMMA AsideEnds ==
  ASSUME IInv, NEW e \in Execs, Aside(e), End(e)
  PROVE  IInv'
BY Ended, AsideStep DEF IInv

LEMMA AsideRaises ==
  ASSUME IInv, NEW e \in Execs, Aside(e), Raise(e),
         exec[e].act = "START" => exec[e].pc # "prepare"
  PROVE  IInv'
<1>1. exec[e].act = "START" => exec[e].s \in started /\ exec[e].rev < lease'.rev
  BY DEF IInv, Starts, Aside
<1>2. TypeOK /\ exec[e].hard <= MaxTime /\ lease' \in Item /\ started' = started
  BY DEF IInv, TypeOK, Aside
<1> QED
  BY <1>1, <1>2, Raised, AsideStep

\* The calls of a start and of a stop, each of which knows what it works for.
LEMMA AsideSteps ==
  ASSUME IInv, NEW e \in Execs, Aside(e), NEW pc \in {"commit", "abandon", "cleanup", "health"},
         Step(e, pc),
         \/ exec[e].act = "START" /\ exec[e].pc \in {"endpoints", "commit", "abandon"} /\ pc # "health"
         \/ exec[e].act # "START" /\ exec[e].pc = "release" /\ pc = "health"
  PROVE  IInv'
<1>1. /\ exec' \in [Execs -> Exec] /\ \A f \in Execs \ {e} : exec'[f] = exec[f]
      /\ exec'[e].pc = pc /\ exec'[e].act = exec[e].act /\ exec'[e].s = exec[e].s
      /\ exec'[e].rev = exec[e].rev /\ exec'[e].hard = exec[e].hard /\ exec'[e].op = exec[e].op
  BY SteppedTo DEF IInv, InLambda
<1>2. Starts(e) /\ Stops(e) /\ exec[e].hard <= MaxTime /\ lease' = lease /\ started' = started
  BY DEF IInv, Aside
<1>3. Starts(e)' /\ Stops(e)'
  BY <1>1, <1>2 DEF Starts, Stops
<1> QED
  BY <1>1, <1>2, <1>3, AsideStep

LEMMA EnsureEndpointsStep == ASSUME IInv, NEW e \in Execs, EnsureEndpoints(e) PROVE IInv'
<1>1. exec[e].act = "START" /\ exec[e].s \in Sessions
  BY DEF EnsureEndpoints, IInv, Starts, Stops, TypeOK
<1>2. Aside(e)
  BY <1>1, CoreAssumption DEF EnsureEndpoints, Aside, rest, Mishap, IInv, TypeOK
<1> QED
  BY <1>1, <1>2, AsideSteps DEF EnsureEndpoints

\* The lease stays typed and within its bounds when a field is set.
LEMMA LeaseSet ==
  ASSUME IInv, NEW x \in Item, lease' = x, x.state # "ABSENT", lease.state # "ABSENT",
         x.session = lease.session, x.idle <= MaxTime, x.hard = lease.hard,
         x.state = "READY" => x.op = NoOne,
         x.state \in {"STARTING", "READY"} /\ x.op = NoOne => x.ready,
         UNCHANGED <<watch, started>>
  PROVE  Leased'
BY DEF IInv, Leased

\* The endpoints are stored under the reservation, whose operation is the execution's.
LEMMA CommitStartStep == ASSUME IInv, NEW e \in Execs, CommitStart(e) PROVE IInv'
<1>1. UNCHANGED <<now, health, links, capacity, watch, host, started, commands>>
      /\ exec[e].pc = "commit" /\ exec[e].act = "START"
  BY DEF CommitStart, rest, IInv, Stops
<1>2. /\ TypeOK /\ exec[e] \in Exec /\ exec[e].hard <= MaxTime /\ exec[e].s \in started
      /\ exec[e].rev \in Nat /\ lease \in Item /\ exec[e].op # NoOne /\ exec[e].rev < lease.rev
      /\ exec[e].op \in Execs \cup {NoOne} /\ lease.rev \in Nat
  BY <1>1 DEF IInv, TypeOK, Starts, Exec, Item
<1>3. mishaps' \in 0 .. MaxMishaps
  BY <1>2, CoreAssumption DEF CommitStart, Mishap, TypeOK
<1>4. CASE lease' = lease /\ Step(e, "abandon")
  <2>1. Aside(e)
    BY <1>1, <1>2, <1>3, <1>4 DEF Aside, TypeOK
  <2> QED
    BY <1>1, <1>4, <2>1, AsideSteps
<1>5. CASE /\ Reserved(e) /\ lease' = [lease EXCEPT !.ready = TRUE]
           /\ Decided(e, "START", exec[e].op, exec[e].rev) \/ Step(e, "abandon")
  <2> DEFINE x == [lease EXCEPT !.ready = TRUE]
  <2>1. /\ x \in Item /\ x.state = "STARTING" /\ x.session = exec[e].s /\ x.rev = exec[e].rev + 1
        /\ x.op = exec[e].op /\ x.idle = lease.idle /\ x.hard = lease.hard /\ x.ready = TRUE
    BY <1>2, <1>5 DEF Item, Reserved
  <2>2. lease' = x /\ lease.state = "STARTING" /\ lease.session = x.session
        /\ lease.rev = x.rev /\ lease.op = x.op
    BY <1>5, <2>1 DEF Reserved
  <2> HIDE DEF x
  <2>3. LeaseMoves
    BY <2>1, <2>2 DEF LeaseMoves
  <2>4. Leased'
    BY <1>1, <2>1, <2>2, LeaseSet DEF IInv, Leased
  <2>5. /\ exec' \in [Execs -> Exec] /\ \A f \in Execs \ {e} : exec'[f] = exec[f]
        /\ exec'[e].act = "START" /\ exec'[e].s = exec[e].s /\ exec'[e].rev = exec[e].rev
        /\ exec'[e].op = exec[e].op /\ exec'[e].hard <= MaxTime
        /\ exec'[e].pc \in {"scale", "abandon"}
    <3>1. CASE Decided(e, "START", exec[e].op, exec[e].rev)
      BY <1>2, <3>1, DecidedFacts, CoreAssumption
    <3>2. CASE Step(e, "abandon")
      BY <1>1, <1>2, <3>2, SteppedTo DEF InLambda
    <3> QED
      BY <1>5, <3>1, <3>2
  <2>6. Starts(e)' /\ Stops(e)'
    BY <1>1, <1>2, <2>1, <2>2, <2>5 DEF Starts, Stops
  <2>7. TypeOK'
    BY <1>1, <1>2, <1>3, <2>1, <2>2, <2>5 DEF TypeOK
  <2> QED
    BY <1>1, <2>3, <2>4, <2>5, <2>6, <2>7, ExecStep
<1> QED
  BY <1>4, <1>5 DEF CommitStart

\* A start that failed gives the lease up, if it still has it.
LEMMA AbandonStep == ASSUME IInv, NEW e \in Execs, Abandon(e) PROVE IInv'
<1>1. UNCHANGED <<now, health, links, capacity, watch, host, started, commands>>
      /\ exec[e].pc = "abandon" /\ exec[e].act = "START" /\ Step(e, "cleanup")
  BY DEF Abandon, rest, IInv, Stops
<1>2. /\ TypeOK /\ exec[e] \in Exec /\ exec[e].hard <= MaxTime /\ exec[e].s \in started
      /\ exec[e].rev \in Nat /\ lease \in Item /\ exec[e].rev < lease.rev /\ lease.rev \in Nat
  BY <1>1 DEF IInv, TypeOK, Starts, Exec, Item
<1>3. mishaps' \in 0 .. MaxMishaps
  BY <1>2, CoreAssumption DEF Abandon, Mishap, TypeOK
<1>4. CASE lease' = lease
  <2>1. Aside(e)
    BY <1>1, <1>2, <1>3, <1>4 DEF Aside, TypeOK
  <2> QED
    BY <1>1, <2>1, AsideSteps
<1>5. CASE /\ Reserved(e)
           /\ lease' = [lease EXCEPT !.state = "FAILED", !.op = NoOne, !.opExp = 0, !.ready = FALSE]
  <2> DEFINE x == [lease EXCEPT !.state = "FAILED", !.op = NoOne, !.opExp = 0, !.ready = FALSE]
  <2>1. /\ x \in Item /\ x.state = "FAILED" /\ x.session = lease.session /\ x.rev = lease.rev
        /\ x.op = NoOne /\ x.idle = lease.idle /\ x.hard = lease.hard
    BY <1>2 DEF Item, LeaseStates
  <2>2. lease' = x /\ lease.state = "STARTING"
    BY <1>5 DEF Reserved
  <2> HIDE DEF x
  <2>3. LeaseMoves
    BY <2>1, <2>2 DEF LeaseMoves
  <2>4. Leased'
    BY <1>1, <2>1, <2>2, LeaseSet DEF IInv, Leased
  <2>5. /\ exec' \in [Execs -> Exec] /\ \A f \in Execs \ {e} : exec'[f] = exec[f]
        /\ exec'[e].act = "START" /\ exec'[e].s = exec[e].s /\ exec'[e].rev = exec[e].rev
        /\ exec'[e].hard <= MaxTime /\ exec'[e].pc = "cleanup"
    BY <1>1, <1>2, SteppedTo DEF InLambda
  <2>6. Starts(e)' /\ Stops(e)'
    BY <1>1, <1>2, <2>1, <2>2, <2>5 DEF Starts, Stops
  <2>7. TypeOK'
    BY <1>1, <1>2, <1>3, <2>1, <2>2, <2>5 DEF TypeOK
  <2> QED
    BY <1>1, <2>3, <2>4, <2>5, <2>6, <2>7, ExecStep
<1> QED
  BY <1>4, <1>5 DEF Abandon

\* A retry finds its revision taken, by itself.
LEMMA CleanupStep == ASSUME IInv, NEW e \in Execs, Cleanup(e) PROVE IInv'
<1>1. Aside(e) /\ exec[e].pc = "cleanup"
  BY DEF Cleanup, Aside, rest, IInv, TypeOK
<1>2. CASE End(e)
  BY <1>1, <1>2, AsideEnds
<1>3. CASE /\ exec[e].tries < 2
           /\ exec' = [exec EXCEPT ![e].pc = "prepare", ![e].op = NoOne, ![e].tries = @ + 1]
  <2>1. exec[e] \in Exec /\ exec[e].tries + 1 \in 0 .. 2
    BY <1>3 DEF IInv, TypeOK, Exec
  <2>2. /\ exec' \in [Execs -> Exec] /\ \A f \in Execs \ {e} : exec'[f] = exec[f]
        /\ exec'[e].pc = "prepare" /\ exec'[e].act = exec[e].act /\ exec'[e].s = exec[e].s
        /\ exec'[e].rev = exec[e].rev /\ exec'[e].hard = exec[e].hard
    BY <1>3, <2>1 DEF IInv, TypeOK, Exec
  <2>3. Starts(e)' /\ Stops(e)'
    BY <1>1, <2>2 DEF Starts, Stops, IInv, Aside
  <2> QED
    BY <1>1, <2>2, <2>3, AsideStep DEF IInv
<1> QED
  BY <1>2, <1>3 DEF Cleanup

-----------------------------------------------------------------------------
(* ACTIVITY, STOP and REAP.                                                *)

LEMMA ActivityStep == ASSUME IInv, NEW e \in Execs, Activity(e) PROVE IInv'
<1>1. UNCHANGED <<now, health, links, capacity, host, started, commands>>
      /\ exec[e].pc = "prepare" /\ exec[e].act = "ACTIVITY"
  BY DEF Activity, rest
<1>2. /\ TypeOK /\ exec[e] \in Exec /\ exec[e].hard <= MaxTime /\ lease \in Item /\ lease.rev \in Nat
      /\ now \in Nat /\ lease.hard \in Nat /\ lease.hard <= MaxTime
  BY DEF IInv, TypeOK, Leased, Item
<1>3. CASE UNCHANGED <<lease, watch, mishaps>> /\ End(e)
  <2>1. Aside(e)
    BY <1>1, <1>2, <1>3 DEF Aside, TypeOK
  <2> QED
    BY <1>3, <2>1, AsideEnds
<1> DEFINE idle == Min2(now + IdleTime, lease.hard)
           x == [lease EXCEPT !.idle = idle, !.rev = @ + 1]
<1>4. CASE /\ lease.session = exec[e].s /\ lease.state = "READY" /\ lease' = x
           /\ \/ /\ End(e) /\ UNCHANGED mishaps
                 /\ watch' = watch \cup {[s |-> exec[e].s, rev |-> lease.rev + 1, deadline |-> idle]}
              \/ Raise(e) /\ UNCHANGED watch
  <2>1. idle \in Nat /\ idle <= MaxTime
    BY <1>2, CoreAssumption DEF Min2
  <2> HIDE DEF idle
  <2>2. /\ x \in Item /\ x.state = lease.state /\ x.session = lease.session /\ x.rev = lease.rev + 1
        /\ x.op = lease.op /\ x.idle = idle /\ x.hard = lease.hard /\ x.ready = lease.ready
    <3> DEFINE r == lease.rev + 1
    <3>1. r \in Nat /\ x = [lease EXCEPT !.idle = idle, !.rev = r]
      BY <1>2
    <3> HIDE DEF x, r
    <3>2. /\ x \in Item /\ x.state = lease.state /\ x.session = lease.session /\ x.rev = r
          /\ x.op = lease.op /\ x.idle = idle /\ x.hard = lease.hard /\ x.ready = lease.ready
      BY <1>2, <2>1, <3>1 DEF Item
    <3> QED
      BY <3>2 DEF r
  <2> HIDE DEF x
  <2>3. exec[e].s \in started /\ exec[e].s \in Sessions
    BY <1>4 DEF IInv, Leased, TypeOK
  <2>4. /\ watch' \subseteq [s : Sessions, rev : Nat, deadline : Nat]
        /\ \A w \in watch' : w.s \in started /\ w.deadline <= MaxTime
    BY <1>2, <1>4, <2>1, <2>3 DEF IInv, TypeOK, Leased
  <2>5. Leased'
    BY <1>1, <1>2, <1>4, <2>1, <2>2, <2>4 DEF IInv, Leased
  <2>6. LeaseMoves
    BY <1>2, <1>4, <2>2 DEF LeaseMoves
  <2>7. /\ exec' \in [Execs -> Exec] /\ \A f \in Execs \ {e} : exec'[f] = exec[f]
        /\ Starts(e)' /\ Stops(e)' /\ exec'[e].hard <= MaxTime
        /\ mishaps' \in 0 .. MaxMishaps
    <3>1. CASE End(e) /\ UNCHANGED mishaps
      BY <1>2, <3>1, Ended DEF TypeOK
    <3>2. CASE Raise(e)
      BY <1>1, <1>2, <1>4, <2>2, <3>2, Raised
    <3> QED
      BY <1>4, <3>1, <3>2
  <2>8. TypeOK'
    BY <1>1, <1>2, <1>4, <2>2, <2>4, <2>7 DEF TypeOK
  <2> QED
    BY <1>1, <2>5, <2>6, <2>7, <2>8, ExecStep
<1> QED
  BY <1>3, <1>4 DEF Activity

\* A lease that is not terminal has a session.
LEMMA DecideStep == ASSUME IInv, NEW e \in Execs, Decide(e) PROVE IInv'
<1>1. Aside(e) /\ exec[e].pc = "prepare" /\ exec[e].act \in {"STOP", "REAP", "WATCH"}
  BY DEF Decide, Aside, rest, IInv, TypeOK
<1>2. TypeOK /\ exec[e] \in Exec /\ exec[e].hard <= MaxTime /\ now \in Nat /\ lease \in Item
  BY DEF IInv, TypeOK
<1>3. CASE End(e)
  BY <1>1, <1>3, AsideEnds
<1>4. CASE exec' = [exec EXCEPT ![e].pc = "sweep", ![e].at = now]
  <2>1. /\ exec' \in [Execs -> Exec] /\ \A f \in Execs \ {e} : exec'[f] = exec[f]
        /\ exec'[e].pc = "sweep" /\ exec'[e].act = exec[e].act /\ exec'[e].hard = exec[e].hard
    BY <1>2, <1>4 DEF TypeOK, Exec, InLambda
  <2>2. Starts(e)' /\ Stops(e)'
    BY <1>1, <2>1 DEF Starts, Stops
  <2> QED
    BY <1>1, <1>2, <2>1, <2>2, AsideStep
<1>5. CASE /\ WantsDown(e)
           /\ exec' = [exec EXCEPT ![e].pc = "drain", ![e].at = now, ![e].s = lease.session,
                                   ![e].rev = lease.rev]
  <2>1. lease.state # "ABSENT"
    BY <1>1, <1>5 DEF WantsDown, Terminal
  <2>2. lease.session \in started /\ lease.session \in Sessions /\ lease.rev \in Nat
    BY <1>2, <2>1 DEF IInv, Leased, TypeOK, Item
  <2>3. /\ exec' \in [Execs -> Exec] /\ \A f \in Execs \ {e} : exec'[f] = exec[f]
        /\ exec'[e].pc = "drain" /\ exec'[e].act = exec[e].act /\ exec'[e].hard = exec[e].hard
        /\ exec'[e].s = lease.session
    BY <1>2, <1>5, <2>2 DEF TypeOK, Exec, InLambda
  <2>4. Starts(e)' /\ Stops(e)'
    BY <1>1, <2>2, <2>3 DEF Starts, Stops, Aside
  <2> QED
    BY <1>1, <1>2, <2>3, <2>4, AsideStep
<1> QED
  BY <1>3, <1>4, <1>5 DEF Decide

LEMMA SweepStep == ASSUME IInv, NEW e \in Execs, Sweep(e) PROVE IInv'
<1>1. Aside(e) /\ exec[e].pc = "sweep"
  BY CoreAssumption DEF Sweep, Aside, rest, IInv, TypeOK, Raise, Mishap
<1> QED
  BY <1>1, AsideEnds, AsideRaises DEF Sweep

\* The drain raises the revision, so every other operation has lost the lease.
LEMMA BeginDownStep == ASSUME IInv, NEW e \in Execs, BeginDown(e) PROVE IInv'
<1>1. UNCHANGED <<now, health, links, capacity, watch, host, started, commands>>
      /\ exec[e].pc = "drain" /\ exec[e].act # "START"
  BY DEF BeginDown, rest, IInv, Starts
<1>2. /\ TypeOK /\ exec[e] \in Exec /\ exec[e].hard <= MaxTime /\ exec[e].s \in started
      /\ exec[e].rev \in Nat /\ lease \in Item /\ lease.rev \in Nat /\ exec[e].at \in Nat
  BY <1>1 DEF IInv, TypeOK, Stops, Exec, Item
<1>3. mishaps' \in 0 .. MaxMishaps
  BY <1>2, CoreAssumption DEF BeginDown, Mishap, Raise, TypeOK
<1>4. CASE lease' = lease /\ (End(e) \/ Raise(e))
  <2>1. Aside(e)
    BY <1>1, <1>2, <1>3, <1>4 DEF Aside, TypeOK
  <2> QED
    BY <1>1, <1>4, <2>1, AsideEnds, AsideRaises
<1> DEFINE x == [lease EXCEPT !.state = "DRAINING", !.rev = @ + 1, !.op = e,
                              !.opExp = exec[e].at + OpTime]
<1>5. CASE /\ DrainOk(e) /\ lease' = x
           /\ Decided(e, "STOP", e, exec[e].rev + 1) \/ Raise(e)
  <2>1. exec[e].at + OpTime \in Nat
    BY <1>2, CoreAssumption
  <2>2. /\ x \in Item /\ x.state = "DRAINING" /\ x.session = lease.session /\ x.rev = lease.rev + 1
        /\ x.op = e /\ x.idle = lease.idle /\ x.hard = lease.hard
    <3> DEFINE r == lease.rev + 1
               t == exec[e].at + OpTime
    <3>1. /\ r \in Nat /\ t \in Nat
          /\ x = [lease EXCEPT !.state = "DRAINING", !.rev = r, !.op = e, !.opExp = t]
      BY <1>2, <2>1
    <3> HIDE DEF x, r, t
    <3>2. /\ x \in Item /\ x.state = "DRAINING" /\ x.session = lease.session /\ x.rev = r
          /\ x.op = e /\ x.idle = lease.idle /\ x.hard = lease.hard
      BY <1>2, <3>1 DEF Item, LeaseStates
    <3> QED
      BY <3>2 DEF r
  <2>3. lease' = x /\ lease.rev = exec[e].rev /\ lease.state # "ABSENT"
    BY <1>5 DEF DrainOk, Drainable
  <2> HIDE DEF x
  <2>4. LeaseMoves
    BY <1>2, <2>2, <2>3 DEF LeaseMoves
  <2>5. Leased'
    BY <1>1, <1>2, <2>2, <2>3, LeaseSet DEF IInv, Leased
  <2>6. /\ exec' \in [Execs -> Exec] /\ \A f \in Execs \ {e} : exec'[f] = exec[f]
        /\ Starts(e)' /\ Stops(e)' /\ exec'[e].hard <= MaxTime
    <3>1. CASE Raise(e)
      BY <1>1, <1>2, <2>2, <2>3, <3>1, Raised
    <3>2. CASE Decided(e, "STOP", e, exec[e].rev + 1)
      <4>1. /\ exec' \in [Execs -> Exec] /\ \A f \in Execs \ {e} : exec'[f] = exec[f]
            /\ exec'[e].pc = "scale" /\ exec'[e].act = "STOP" /\ exec'[e].s = exec[e].s
            /\ exec'[e].op = e /\ exec'[e].rev = exec[e].rev + 1 /\ exec'[e].hard = 0
        BY <1>2, <3>2, DecidedFacts
      <4>2. Starts(e)' /\ Stops(e)'
        BY <1>1, <1>2, <2>2, <2>3, <4>1, CoreAssumption DEF Starts, Stops
      <4> QED
        BY <4>1, <4>2, CoreAssumption
    <3> QED
      BY <1>5, <3>1, <3>2
  <2>7. TypeOK'
    BY <1>1, <1>2, <1>3, <2>2, <2>3, <2>6 DEF TypeOK
  <2> QED
    BY <1>1, <2>4, <2>5, <2>6, <2>7, ExecStep
<1> QED
  BY <1>4, <1>5 DEF BeginDown

-----------------------------------------------------------------------------
(* Scale, finalize and what follows.                                       *)

LEMMA ScaleStep == ASSUME IInv, NEW e \in Execs, Scale(e) PROVE IInv'
<1>1. UNCHANGED <<now, lease, health, links, watch, started, commands>> /\ exec[e].pc = "scale"
  BY DEF Scale, rest
<1>2. TypeOK /\ exec[e] \in Exec /\ exec[e].hard <= MaxTime /\ lease \in Item /\ Starts(e) /\ Stops(e)
  BY DEF IInv, TypeOK
<1>3. CASE End(e) /\ Mishap /\ UNCHANGED <<capacity, host>>
  <2>1. Aside(e)
    BY <1>1, <1>2, <1>3, CoreAssumption DEF Aside, TypeOK, Mishap
  <2> QED
    BY <1>3, <2>1, AsideEnds
<1>4. CASE /\ capacity' = IF Up(e) THEN 1 ELSE 0
           /\ host' = IF Up(e) THEN host
                      ELSE [h \in Hosts |-> IF host[h].pc = "none" THEN host[h]
                                            ELSE [host[h] EXCEPT !.doomed = TRUE]]
           /\ exec' = [exec EXCEPT ![e].pc = "finalize"]
           /\ UNCHANGED mishaps
  <2>1. /\ exec' \in [Execs -> Exec] /\ \A f \in Execs \ {e} : exec'[f] = exec[f]
        /\ exec'[e].pc = "finalize" /\ exec'[e].act = exec[e].act /\ exec'[e].s = exec[e].s
        /\ exec'[e].rev = exec[e].rev /\ exec'[e].hard = exec[e].hard /\ exec'[e].op = exec[e].op
    BY <1>2, <1>4, SteppedTo DEF Step
  <2>2. \A h \in Hosts : host'[h] \in Host /\ host'[h].pc = host[h].pc /\ host'[h].s = host[h].s
    <3> TAKE h \in Hosts
    <3>1. host[h] \in Host
      BY <1>2 DEF TypeOK
    <3>2. CASE host'[h] = host[h]
      BY <3>1, <3>2
    <3>3. CASE host'[h] = [host[h] EXCEPT !.doomed = TRUE]
      BY <3>1, <3>3 DEF Host
    <3> QED
      BY <1>4, <3>2, <3>3
  <2>3. host' \in [Hosts -> Host]
    <3>1. CASE Up(e)
      BY <1>2, <1>4, <3>1 DEF TypeOK
    <3>2. CASE ~Up(e)
      <4>1. host' = [h \in Hosts |-> host'[h]]
        BY <1>4, <3>2
      <4> QED
        BY <2>2, <4>1
    <3> QED
      BY <3>1, <3>2
  <2>4. Starts(e)' /\ Stops(e)'
    BY <1>1, <1>2, <2>1 DEF Starts, Stops
  <2>5. TypeOK'
    BY <1>1, <1>2, <1>4, <2>1, <2>3 DEF TypeOK
  <2>6. Leased' /\ LeaseMoves
    BY <1>1 DEF IInv, Leased, LeaseMoves
  <2>7. \A f \in Execs : Starts(f)' /\ Stops(f)' /\ exec'[f].hard <= MaxTime
    <3> TAKE f \in Execs
    <3>1. CASE f = e
      BY <1>2, <2>1, <2>4, <3>1
    <3>2. CASE f # e
      BY <1>1, <1>2, <2>1, <2>6, <3>2, OthersStay DEF IInv
    <3> QED
      BY <3>1, <3>2
  <2>8. \A h \in Hosts : Serves(h)'
    BY <1>1, <2>2 DEF IInv, Serves
  <2> QED
    BY <2>5, <2>6, <2>7, <2>8 DEF IInv
<1> QED
  BY <1>3, <1>4 DEF Scale

\* Where an operation that still has the lease finds it.
LEMMA MineFacts ==
  ASSUME IInv, NEW e \in Execs, exec[e].pc = "finalize", Mine(e)
  PROVE  /\ Up(e) => lease.ready /\ lease.state \in {"STARTING", "FAILED"}
         /\ ~Up(e) => lease.state = "DRAINING"
BY DEF IInv, Starts, Stops, Mine, Up, OpRev

\* An operation that ends has kept the lease at its revision.
LEMMA FinalizeStep == ASSUME IInv, NEW e \in Execs, Finalize(e) PROVE IInv'
<1> DEFINE final == IF Up(e) THEN "STARTING" ELSE "STOPPED"
           x == [lease EXCEPT !.state = final, !.op = NoOne, !.opExp = 0,
                              !.ready = Up(e) /\ @]
<1>1. UNCHANGED <<now, health, links, capacity, host, started, commands>>
      /\ exec[e].pc = "finalize"
  BY DEF Finalize, rest
<1>2. /\ TypeOK /\ exec[e] \in Exec /\ exec[e].hard <= MaxTime /\ lease \in Item
      /\ exec[e].rev \in Nat /\ Starts(e) /\ Stops(e) /\ now \in Nat
  BY DEF IInv, TypeOK, Exec
<1>3. exec[e].s \in started /\ exec[e].s \in Sessions
  BY <1>1, <1>2 DEF Starts, Stops, TypeOK
<1>4. mishaps' \in 0 .. MaxMishaps
  BY <1>2, CoreAssumption DEF Finalize, Mishap, TypeOK
<1>5. lease.idle \in Nat /\ lease.idle <= MaxTime /\ OpRev(e) \in Nat
  BY <1>2 DEF IInv, Leased, Item, OpRev
<1>6. /\ watch' \subseteq [s : Sessions, rev : Nat, deadline : Nat]
      /\ \A w \in watch' : w.s \in started /\ w.deadline <= MaxTime
  <2>1. watch' \subseteq watch \cup {Watched(e)}
    BY DEF Finalize
  <2>2. /\ Watched(e) \in [s : Sessions, rev : Nat, deadline : Nat]
        /\ Watched(e).s \in started /\ Watched(e).deadline <= MaxTime
    BY <1>3, <1>5 DEF Watched
  <2> QED
    BY <1>2, <2>1, <2>2 DEF IInv, TypeOK, Leased
<1>7. CASE lease' = lease /\ End(e)
  <2>1. /\ exec' \in [Execs -> Exec] /\ \A f \in Execs \ {e} : exec'[f] = exec[f]
        /\ Starts(e)' /\ Stops(e)' /\ exec'[e].hard <= MaxTime
    BY <1>2, <1>7, Ended
  <2>2. TypeOK'
    BY <1>1, <1>2, <1>4, <1>6, <1>7, <2>1 DEF TypeOK
  <2>3. Leased' /\ LeaseMoves
    BY <1>1, <1>6, <1>7 DEF IInv, Leased, LeaseMoves
  <2> QED
    BY <1>1, <2>1, <2>2, <2>3, ExecStep
<1>8. CASE /\ Mine(e) /\ lease' = x
           /\ \/ ~Up(e) /\ exec' = [exec EXCEPT ![e].pc = "release", ![e].at = now]
              \/ End(e)
  <2>1. /\ x \in Item /\ x.state = final /\ x.session = lease.session /\ x.rev = lease.rev
        /\ x.op = NoOne /\ x.idle = lease.idle /\ x.hard = lease.hard
        /\ Up(e) /\ lease.ready => x.ready
    <3> DEFINE r == Up(e) /\ lease.ready
    <3>1. final \in LeaseStates /\ r \in BOOLEAN
      BY DEF LeaseStates
    <3>2. x = [lease EXCEPT !.state = final, !.op = NoOne, !.opExp = 0, !.ready = r]
      OBVIOUS
    <3>3. (Up(e) /\ lease.ready) => r
      OBVIOUS
    <3> HIDE DEF x, r, final
    <3> QED
      BY <1>2, <3>1, <3>2, <3>3 DEF Item
  <2>2. /\ lease' = x /\ lease.state # "ABSENT"
        /\ Up(e) => x.state = "STARTING" /\ lease.ready
        /\ ~Up(e) => x.state = "STOPPED"
    BY <1>1, <1>8, <2>1, MineFacts
  <2> HIDE DEF x, final
  <2>3. LeaseMoves
    BY <2>1, <2>2 DEF LeaseMoves
  <2>4. Leased'
    BY <1>1, <1>6, <2>1, <2>2 DEF IInv, Leased
  <2>5. /\ exec' \in [Execs -> Exec] /\ \A f \in Execs \ {e} : exec'[f] = exec[f]
        /\ Starts(e)' /\ Stops(e)' /\ exec'[e].hard <= MaxTime
    <3>1. CASE End(e)
      BY <1>2, <3>1, Ended
    <3>2. CASE ~Up(e) /\ exec' = [exec EXCEPT ![e].pc = "release", ![e].at = now]
      <4>1. /\ exec' \in [Execs -> Exec] /\ \A f \in Execs \ {e} : exec'[f] = exec[f]
            /\ exec'[e].pc = "release" /\ exec'[e].act = exec[e].act /\ exec'[e].s = exec[e].s
            /\ exec'[e].hard = exec[e].hard
        BY <1>2, <3>2 DEF TypeOK, Exec, InLambda
      <4>2. Starts(e)' /\ Stops(e)'
        BY <1>1, <1>3, <3>2, <4>1 DEF Starts, Stops, Up
      <4> QED
        BY <1>2, <4>1, <4>2
    <3> QED
      BY <1>8, <3>1, <3>2
  <2>6. TypeOK'
    BY <1>1, <1>2, <1>4, <1>6, <2>1, <2>2, <2>5 DEF TypeOK
  <2> QED
    BY <1>1, <2>3, <2>4, <2>5, <2>6, ExecStep
<1> QED
  BY <1>7, <1>8 DEF Finalize

LEMMA ReleaseStep == ASSUME IInv, NEW e \in Execs, Release(e) PROVE IInv'
<1>1. Aside(e) /\ exec[e].pc = "release" /\ exec[e].act # "START"
  BY CoreAssumption DEF Release, Aside, rest, IInv, TypeOK, Raise, Mishap, Starts
<1> QED
  BY <1>1, AsideSteps, AsideRaises DEF Release

LEMMA PublishStoppedStep == ASSUME IInv, NEW e \in Execs, PublishStopped(e) PROVE IInv'
<1>1. exec[e].s \in Sessions
  BY DEF PublishStopped, IInv, Starts, Stops, TypeOK
<1>2. Aside(e) /\ exec[e].pc = "health"
  BY <1>1, CoreAssumption DEF PublishStopped, Aside, rest, IInv, TypeOK, Raise, Mishap
<1> QED
  BY <1>2, AsideEnds, AsideRaises DEF PublishStopped

LEMMA TimeOutStep == ASSUME IInv, NEW e \in Execs, TimeOut(e) PROVE IInv'
<1>1. Aside(e) /\ exec[e].pc # "prepare"
  BY CoreAssumption DEF TimeOut, Aside, rest, IInv, TypeOK, Raise, Mishap, InLambda
<1> QED
  BY <1>1, AsideRaises DEF TimeOut

-----------------------------------------------------------------------------
(* The hosts and the clock.                                                *)

\* A step of a host that leaves the lease alone.
LEMMA HostAside ==
  ASSUME IInv, NEW h \in Hosts, UNCHANGED <<others, lease>>, NEW y \in Host,
         host' = [host EXCEPT ![h] = y],
         y.pc \notin {"none", "booting", "exited"} => y.s \in started,
         health' \in [status : {"STOPPED", "READY", "UNHEALTHY"}, session : Sessions \cup {NoOne}],
         mishaps' \in 0 .. MaxMishaps
  PROVE  IInv'
<1>1. host' \in [Hosts -> Host] /\ host'[h] = y /\ \A g \in Hosts \ {h} : host'[g] = host[g]
  BY DEF IInv, TypeOK
<1>2. UNCHANGED <<now, lease, links, capacity, exec, watch, started, commands>>
  BY DEF others, rest
<1>3. TypeOK'
  BY <1>1, <1>2 DEF IInv, TypeOK
<1>4. Leased' /\ LeaseMoves
  BY <1>2 DEF IInv, Leased, LeaseMoves
<1>5. Serves(h)'
  BY <1>1, <1>2 DEF Serves
<1> QED
  BY <1>1, <1>2, <1>3, <1>4, <1>5, HostMove

\* A host that stops or ends serves nobody.
LEMMA HostEnds ==
  ASSUME IInv, NEW h \in Hosts
  PROVE  /\ NoHost \in Host /\ NoHost.pc = "none"
         /\ \A d \in BOOLEAN : [NoHost EXCEPT !.pc = "exited", !.doomed = d] \in Host
         /\ host[h].doomed \in BOOLEAN
         /\ \A p \in {"booting", "announce", "failing", "loop", "work", "unhealthy", "exited"} :
              /\ [host[h] EXCEPT !.pc = p] \in Host
              /\ [host[h] EXCEPT !.pc = p].s = host[h].s /\ [host[h] EXCEPT !.pc = p].pc = p
BY DEF IInv, TypeOK, NoHost, Host

LEMMA LaunchStep == ASSUME IInv, NEW h \in Hosts, Launch(h) PROVE IInv'
<1>1. [host[h] EXCEPT !.pc = "booting"] \in Host /\ [host[h] EXCEPT !.pc = "booting"].pc = "booting"
  BY HostEnds
<1> QED
  BY <1>1, HostAside DEF Launch, HostStep, IInv, TypeOK

\* It serves the session that has the lease when it looks.
LEMMA BootStep == ASSUME IInv, NEW h \in Hosts, Boot(h) PROVE IInv'
<1>1. UNCHANGED <<others, lease, health, mishaps>> /\ lease \in Item /\ host[h] \in Host
  BY DEF Boot, IInv, TypeOK
<1>2. lease.session \in Sessions \cup {NoOne} /\ lease.hard \in Nat
  BY <1>1 DEF Item
<1>3. CASE lease.state = "STARTING"
  <2> DEFINE p == IF lease.ready THEN "starting" ELSE "failing"
             y == [host[h] EXCEPT !.pc = p, !.s = lease.session, !.hard = lease.hard]
  <2>1. p \in {"starting", "failing"}
    OBVIOUS
  <2>2. host' = [host EXCEPT ![h] = y]
    BY <1>3 DEF Boot
  <2> HIDE DEF p
  <2>3. y \in Host /\ y.s = lease.session
    BY <1>1, <1>2, <2>1 DEF Host
  <2>4. y.s \in started
    BY <1>3, <2>3 DEF IInv, Leased
  <2> HIDE DEF y
  <2> QED
    BY <1>1, <2>2, <2>3, <2>4, HostAside DEF IInv, TypeOK
<1>4. CASE lease.state # "STARTING"
  <2>1. host' = [host EXCEPT ![h] = [host[h] EXCEPT !.pc = "exited"]]
    BY <1>4 DEF Boot
  <2> QED
    BY <1>1, <2>1, HostEnds, HostAside DEF IInv, TypeOK
<1> QED
  BY <1>3, <1>4

\* Where the lease is STARTING and no operation is pending, it is complete.
LEMMA ReadyStep == ASSUME IInv, NEW h \in Hosts, Ready(h) PROVE IInv'
<1>1. /\ UNCHANGED <<now, health, links, capacity, exec, watch, started, commands, mishaps>>
      /\ host[h].pc = "starting" /\ lease \in Item /\ TypeOK /\ host[h].s \in started
  BY DEF Ready, others, rest, IInv, TypeOK, Serves
<1> DEFINE x == [lease EXCEPT !.state = "READY"]
<1>2. PICK p \in {"announce", "failing"} :
        /\ host' = [host EXCEPT ![h] = [host[h] EXCEPT !.pc = p]]
        /\ \/ lease' = lease
           \/ lease.state = "STARTING" /\ lease.op = NoOne /\ lease' = x
  BY DEF Ready, HostStep
<1> DEFINE y == [host[h] EXCEPT !.pc = p]
<1>3. y \in Host /\ y.s = host[h].s
  BY HostEnds
<1>4. host' = [host EXCEPT ![h] = y]
  BY <1>2
<1> HIDE DEF y
<1>5. host' \in [Hosts -> Host] /\ host'[h] = y /\ \A g \in Hosts \ {h} : host'[g] = host[g]
  BY <1>1, <1>3, <1>4 DEF TypeOK
<1>6. Serves(h)'
  BY <1>1, <1>3, <1>5 DEF Serves
<1>7. x \in Item /\ x.state = "READY" /\ x.session = lease.session /\ x.rev = lease.rev
      /\ x.op = lease.op /\ x.idle = lease.idle /\ x.hard = lease.hard /\ x.ready = lease.ready
  BY <1>1 DEF Item, LeaseStates
<1> HIDE DEF x
<1>8. Leased'
  BY <1>1, <1>2, <1>7 DEF IInv, Leased
<1>9. LeaseMoves
  BY <1>2, <1>7 DEF LeaseMoves
<1>10. TypeOK'
  BY <1>1, <1>2, <1>5, <1>7 DEF TypeOK
<1> QED
  BY <1>1, <1>5, <1>6, <1>8, <1>9, <1>10, HostMove

\* A host that gives up fails the lease, also one whose start has not finished.
LEMMA MarkFailedStep == ASSUME IInv, NEW h \in Hosts, MarkFailed(h) PROVE IInv'
<1>1. /\ UNCHANGED <<now, health, links, capacity, exec, watch, started, commands, mishaps>>
      /\ host[h].pc = "failing" /\ lease \in Item /\ TypeOK /\ host[h].s \in started
  BY DEF MarkFailed, others, rest, IInv, TypeOK, Serves
<1> DEFINE x == [lease EXCEPT !.state = "FAILED"]
           y == [host[h] EXCEPT !.pc = "unhealthy"]
<1>2. /\ host' = [host EXCEPT ![h] = y]
      /\ lease' = lease \/ (lease.state = "STARTING" /\ lease' = x)
  BY DEF MarkFailed, HostStep
<1>3. y \in Host /\ y.s = host[h].s
  BY HostEnds
<1> HIDE DEF y
<1>5. host' \in [Hosts -> Host] /\ host'[h] = y /\ \A g \in Hosts \ {h} : host'[g] = host[g]
  BY <1>1, <1>2, <1>3 DEF TypeOK
<1>6. Serves(h)'
  BY <1>1, <1>3, <1>5 DEF Serves
<1>7. x \in Item /\ x.state = "FAILED" /\ x.session = lease.session /\ x.rev = lease.rev
      /\ x.op = lease.op /\ x.idle = lease.idle /\ x.hard = lease.hard /\ x.ready = lease.ready
  BY <1>1 DEF Item, LeaseStates
<1> HIDE DEF x
<1>8. Leased'
  BY <1>1, <1>2, <1>7 DEF IInv, Leased
<1>9. LeaseMoves
  BY <1>2, <1>7 DEF LeaseMoves
<1>10. TypeOK'
  BY <1>1, <1>2, <1>5, <1>7 DEF TypeOK
<1> QED
  BY <1>1, <1>5, <1>6, <1>8, <1>9, <1>10, HostMove

\* The steps of a host that is at work.
LEMMA HostWorks ==
  ASSUME IInv, NEW h \in Hosts, Announce(h) \/ Look(h) \/ Report(h) \/ HostFails(h)
                                \/ PublishUnhealthy(h)
  PROVE  IInv'
<1>1. UNCHANGED <<others, lease>>
  BY DEF Announce, Look, Report, HostFails, PublishUnhealthy
<1>2. host[h].s \in started /\ host[h].s \in Sessions
  BY DEF Announce, Look, Report, HostFails, PublishUnhealthy, IInv, Serves, TypeOK
<1>3. mishaps' \in 0 .. MaxMishaps
  BY CoreAssumption DEF Announce, Look, Report, HostFails, PublishUnhealthy, Mishap, IInv, TypeOK
<1>4. health' \in [status : {"STOPPED", "READY", "UNHEALTHY"}, session : Sessions \cup {NoOne}]
  BY <1>2 DEF Announce, Look, Report, HostFails, PublishUnhealthy, PutHealth, IInv, TypeOK
<1>5. CASE HostExit(h)
  <2> DEFINE y == [NoHost EXCEPT !.pc = "exited", !.doomed = host[h].doomed]
  <2>1. host' = [host EXCEPT ![h] = y]
    BY <1>5 DEF HostExit
  <2>2. y \in Host
    BY HostEnds
  <2>3. y.pc = "exited"
    BY DEF NoHost
  <2> HIDE DEF y
  <2> QED
    BY <1>1, <1>3, <1>4, <2>1, <2>2, <2>3, HostAside
<1>6. CASE \E p \in {"loop", "work", "failing"} : HostStep(h, p)
  <2>1. PICK p \in {"loop", "work", "failing"} : host' = [host EXCEPT ![h] = [host[h] EXCEPT !.pc = p]]
    BY <1>6 DEF HostStep
  <2> DEFINE y == [host[h] EXCEPT !.pc = p]
  <2>2. y \in Host /\ y.s = host[h].s
    <3>1. p \in {"booting", "announce", "failing", "loop", "work", "unhealthy", "exited"}
      OBVIOUS
    <3>2. QED
      BY <3>1, HostEnds
  <2>3. host' = [host EXCEPT ![h] = y]
    BY <2>1
  <2> HIDE DEF y
  <2> QED
    BY <1>1, <1>2, <1>3, <1>4, <2>2, <2>3, HostAside
<1> QED
  BY <1>5, <1>6 DEF Announce, Look, Report, HostFails, PublishUnhealthy

LEMMA TerminateStep == ASSUME IInv, NEW h \in Hosts, Terminate(h) PROVE IInv'
<1>1. UNCHANGED <<others, lease, health>> /\ host' = [host EXCEPT ![h] = NoHost]
  BY DEF Terminate
<1>2. mishaps' \in 0 .. MaxMishaps
  BY CoreAssumption DEF Terminate, Mishap, IInv, TypeOK
<1> QED
  BY <1>1, <1>2, HostEnds, HostAside DEF IInv, TypeOK

\* Time alone, or nothing, changes nothing that the invariant is about.
LEMMA TickStep == ASSUME IInv, Tick \/ UNCHANGED vars PROVE IInv'
<1>1. /\ UNCHANGED <<lease, health, links, capacity, exec, watch, host, started, commands, mishaps>>
      /\ now' \in 0 .. MaxTime
  BY CoreAssumption DEF Tick, vars, rest, IInv, TypeOK
<1>2. TypeOK' /\ Leased'
  BY <1>1 DEF IInv, TypeOK, Leased
<1>3. \A e \in Execs : Starts(e)' /\ Stops(e)' /\ exec'[e].hard <= MaxTime
  BY <1>1 DEF IInv, Starts, Stops
<1>4. \A h \in Hosts : Serves(h)'
  BY <1>1 DEF IInv, Serves
<1> QED
  BY <1>2, <1>3, <1>4 DEF IInv

-----------------------------------------------------------------------------
(* The theorems.                                                           *)

LEMMA IInvStep == IInv /\ [Next]_vars => IInv'
<1> SUFFICES ASSUME IInv, [Next]_vars PROVE IInv'
  OBVIOUS
<1>1. CASE Tick \/ UNCHANGED vars
  BY <1>1, TickStep
<1>2. ASSUME NEW e \in Execs, \E s \in Sessions :
               StartCommand(e, s) \/ \E a \in {"STOP", "ACTIVITY"} : UserCommand(e, s, a)
      PROVE  IInv'
  BY <1>2, StartCommandStep, UserCommandStep
<1>3. ASSUME NEW e \in Execs, ReapCommand(e) \/ \E w \in watch : WatchCommand(e, w)
      PROVE  IInv'
  BY <1>3, ReapCommandStep, WatchCommandStep
<1>4. ASSUME NEW e \in Execs, Invocation(e) \/ TimeOut(e)
      PROVE  IInv'
  BY <1>4, ClaimStep, EnsureEndpointsStep, CommitStartStep, AbandonStep, CleanupStep,
     ActivityStep, DecideStep, SweepStep, BeginDownStep, ScaleStep, FinalizeStep, ReleaseStep,
     PublishStoppedStep, TimeOutStep DEF Invocation
<1>5. ASSUME NEW h \in Hosts, Launch(h) \/ HostNext(h) \/ Terminate(h)
      PROVE  IInv'
  BY <1>5, LaunchStep, BootStep, ReadyStep, HostWorks, MarkFailedStep, TerminateStep DEF HostNext
<1> QED
  BY <1>1, <1>2, <1>3, <1>4, <1>5 DEF Next

\* The inductive invariant (IInv): what every execution, the lease and every host know of
\* one another, however they overlap (claim, commit_start, _begin_down, _finalize, main).
THEOREM Invariant == Spec => []IInv
BY InitIInv, IInvStep, PTL DEF Spec

\* Every variable keeps its type, for any number of sessions, executions and hosts.
THEOREM TypeCorrect == Spec => []TypeOK
<1>1. IInv => TypeOK
  BY DEF IInv
<1> QED
  BY <1>1, Invariant, PTL

\* A lease that is READY has its endpoints and credentials stored and no operation
\* pending, whatever slow start, stale host or repeated final write came in between
\* (claim, commit_start, finalize and the host's transition to READY).
THEOREM ReadinessIsEarned == Spec => []ReadyIsComplete
<1>1. IInv => ReadyIsComplete
  BY DEF IInv, Leased, ReadyIsComplete
<1> QED
  BY <1>1, Invariant, PTL

-----------------------------------------------------------------------------
(* The refinement of CoreLease.                                            *)

\* The lease as its readers see it.
Shown == [state |-> lease.state, session |-> lease.session, rev |-> lease.rev,
          idle |-> lease.idle, hard |-> lease.hard]

Promised == Lease!Next \/ UNCHANGED <<Shown, health>>

\* Each kind of step of CoreLease, in terms of the lease itself.
LEMMA SeesClaim ==
  ASSUME NEW s \in Sessions, lease.state \in {"ABSENT", "STOPPED", "FAILED"}, s # lease.session,
         lease' \in Item, lease'.idle <= MaxTime, lease'.hard <= MaxTime,
         lease'.state = "STARTING", lease'.session = s, lease'.rev = lease.rev + 1,
         health' = health
  PROVE  Lease!Next
<1>1. lease'.idle \in 0 .. MaxTime /\ lease'.hard \in 0 .. MaxTime
  BY CoreAssumption DEF Item
<1>2. Lease!Claim(s, lease'.idle, lease'.hard)
  BY DEF Lease!Claim, Lease!Terminal
<1> QED
  BY <1>1, <1>2 DEF Lease!Next

LEMMA SeesMove ==
  ASSUME <<lease.state, lease'.state>> \in
           {<<"STARTING", "READY">>, <<"STARTING", "FAILED">>, <<"FAILED", "STARTING">>},
         lease'.session = lease.session, lease'.rev = lease.rev,
         lease'.idle = lease.idle, lease'.hard = lease.hard, health' = health
  PROVE  Lease!Next
<1>1. lease'.state \in {"STARTING", "READY", "FAILED"}
  OBVIOUS
<1>2. Lease!Move(lease'.state)
  BY DEF Lease!Move, Lease!Up
<1> QED
  BY <1>1, <1>2 DEF Lease!Next

LEMMA SeesRenew ==
  ASSUME lease.state = "READY", lease'.state = "READY", lease'.idle \in 0 .. MaxTime,
         lease'.session = lease.session, lease'.rev = lease.rev + 1,
         lease'.hard = lease.hard, health' = health
  PROVE  Lease!Next
<1> DEFINE i == lease'.idle
           r == Shown.rev + 1
<1>1. Shown' = [state |-> lease.state, session |-> lease.session, rev |-> r, idle |-> i,
                hard |-> lease.hard]
  BY DEF Shown
<1>2. [Shown EXCEPT !.idle = i, !.rev = r] = [[Shown EXCEPT !.idle = i] EXCEPT !.rev = r]
  BY DEF Shown
<1> HIDE DEF r, i
<1>3. [Shown EXCEPT !.idle = i] = [state |-> lease.state, session |-> lease.session,
                                   rev |-> lease.rev, idle |-> i, hard |-> lease.hard]
  BY DEF Shown
<1>4. [[Shown EXCEPT !.idle = i] EXCEPT !.rev = r] = Shown'
  <2>1. [[state |-> lease.state, session |-> lease.session, rev |-> lease.rev, idle |-> i,
          hard |-> lease.hard] EXCEPT !.rev = r] =
          [state |-> lease.state, session |-> lease.session, rev |-> r, idle |-> i,
           hard |-> lease.hard]
    OBVIOUS
  <2> QED
    BY <1>1, <1>3, <2>1
<1>5. Lease!Renew(i)
  <2>1. Shown' = [Shown EXCEPT !.idle = i, !.rev = Shown.rev + 1]
    BY <1>2, <1>4 DEF r
  <2> QED
    BY <2>1 DEF Lease!Renew, Shown
<1> QED
  BY <1>5 DEF Lease!Next, i

LEMMA SeesDrain ==
  ASSUME Drainable, lease'.state = "DRAINING",
         lease'.session = lease.session, lease'.rev = lease.rev + 1,
         lease'.idle = lease.idle, lease'.hard = lease.hard, health' = health
  PROVE  Lease!Next
<1> DEFINE d == "DRAINING"
           r == Shown.rev + 1
<1>1. Shown' = [state |-> d, session |-> lease.session, rev |-> r, idle |-> lease.idle,
                hard |-> lease.hard]
  BY DEF Shown
<1>2. [Shown EXCEPT !.state = d, !.rev = r] = [[Shown EXCEPT !.state = d] EXCEPT !.rev = r]
  BY DEF Shown
<1> HIDE DEF r
<1>3. [Shown EXCEPT !.state = d] = [state |-> d, session |-> lease.session, rev |-> lease.rev,
                                    idle |-> lease.idle, hard |-> lease.hard]
  BY DEF Shown
<1>4. [[Shown EXCEPT !.state = d] EXCEPT !.rev = r] = Shown'
  <2>1. [[state |-> d, session |-> lease.session, rev |-> lease.rev, idle |-> lease.idle,
          hard |-> lease.hard] EXCEPT !.rev = r] =
          [state |-> d, session |-> lease.session, rev |-> r, idle |-> lease.idle,
           hard |-> lease.hard]
    OBVIOUS
  <2> QED
    BY <1>1, <1>3, <2>1
<1>5. Lease!Drain
  <2>1. Shown' = [Shown EXCEPT !.state = "DRAINING", !.rev = Shown.rev + 1]
    BY <1>2, <1>4 DEF r
  <2> QED
    BY <2>1 DEF Drainable, Lease!Drain, Lease!Drainable, Shown
<1> QED
  BY <1>5 DEF Lease!Next

LEMMA SeesStop ==
  ASSUME lease.state = "DRAINING", lease'.state = "STOPPED",
         lease'.session = lease.session, lease'.rev = lease.rev,
         lease'.idle = lease.idle, lease'.hard = lease.hard, health' = health
  PROVE  Lease!Next
<1>1. Lease!Stop
  BY DEF Lease!Stop
<1> QED
  BY <1>1 DEF Lease!Next

LEMMA SeesPublish ==
  ASSUME lease' = lease, NEW status \in {"STOPPED", "READY", "UNHEALTHY"}, NEW s \in Sessions,
         health' = [status |-> status, session |-> s]
  PROVE  Lease!Next
<1>1. Lease!Publish(status, s)
  BY DEF Lease!Publish
<1> QED
  BY <1>1 DEF Lease!Next

LEMMA SeesNothing ==
  ASSUME health' = health, lease'.state = lease.state, lease'.session = lease.session,
         lease'.rev = lease.rev, lease'.idle = lease.idle, lease'.hard = lease.hard
  PROVE  Promised
BY DEF Promised, Shown

\* The steps that move the lease.
LEMMA ClaimIsPromised == ASSUME IInv, NEW e \in Execs, Claim(e) PROVE Promised
<1>1. health' = health /\ exec[e].pc = "prepare" /\ exec[e].act = "START"
  BY DEF Claim
<1>2. CASE BindingCurrent(e) /\ Claimable(e) /\ ClaimLease(e)
  <2>1. /\ lease' \in Item /\ lease'.rev = lease.rev + 1 /\ lease'.state = "STARTING"
        /\ lease'.session = exec[e].s /\ lease'.idle <= MaxTime /\ lease'.hard <= MaxTime
    BY <1>1, <1>2, ClaimFacts
  <2>2. lease.state \in {"ABSENT", "STOPPED", "FAILED"}
    BY <1>2 DEF Claimable
  <2>3. exec[e].s # lease.session
    <3>1. /\ exec[e].rev \in Nat /\ lease.rev \in Nat /\ exec[e].rev <= lease.rev
          /\ exec[e].s = lease.session => exec[e].rev < lease.rev
      BY <1>1 DEF IInv, TypeOK, Starts, Exec, Item
    <3>2. lease.rev = exec[e].rev
      BY <1>2, <3>1 DEF Claimable, IInv, Leased
    <3> QED
      BY <3>1, <3>2
  <2>4. exec[e].s \in Sessions
    BY <1>1 DEF IInv, TypeOK, Starts
  <2> QED
    BY <1>1, <2>1, <2>2, <2>3, <2>4, SeesClaim DEF Promised
<1>3. CASE lease' = lease
  BY <1>1, <1>3, SeesNothing
<1> QED
  BY <1>2, <1>3 DEF Claim

LEMMA CommitIsPromised == ASSUME IInv, NEW e \in Execs, CommitStart(e) PROVE Promised
<1>1. health' = health /\ lease \in Item
  BY DEF CommitStart, IInv, TypeOK
<1>2. CASE lease' = [lease EXCEPT !.ready = TRUE]
  BY <1>1, <1>2, SeesNothing DEF Item
<1>3. CASE lease' = lease
  BY <1>1, <1>3, SeesNothing
<1> QED
  BY <1>2, <1>3 DEF CommitStart

LEMMA AbandonIsPromised == ASSUME IInv, NEW e \in Execs, Abandon(e) PROVE Promised
<1>1. health' = health /\ lease \in Item
  BY DEF Abandon, IInv, TypeOK
<1>2. CASE /\ Reserved(e)
           /\ lease' = [lease EXCEPT !.state = "FAILED", !.op = NoOne, !.opExp = 0, !.ready = FALSE]
  <2>1. /\ lease.state = "STARTING" /\ lease'.state = "FAILED" /\ lease'.session = lease.session
        /\ lease'.rev = lease.rev /\ lease'.idle = lease.idle /\ lease'.hard = lease.hard
    BY <1>1, <1>2 DEF Reserved, Item
  <2> QED
    BY <1>1, <2>1, SeesMove DEF Promised
<1>3. CASE lease' = lease
  BY <1>1, <1>3, SeesNothing
<1> QED
  BY <1>2, <1>3 DEF Abandon

LEMMA ActivityIsPromised == ASSUME IInv, NEW e \in Execs, Activity(e) PROVE Promised
<1>1. /\ health' = health /\ lease \in Item /\ lease.rev \in Nat /\ lease.hard \in Nat
      /\ lease.hard <= MaxTime /\ now \in Nat
  BY DEF Activity, IInv, TypeOK, Leased, Item
<1> DEFINE idle == Min2(now + IdleTime, lease.hard)
           r == lease.rev + 1
<1>2. CASE lease.state = "READY" /\ lease' = [lease EXCEPT !.idle = idle, !.rev = r]
  <2>1. idle \in 0 .. MaxTime
    BY <1>1, CoreAssumption DEF Min2
  <2> HIDE DEF idle, r
  <2>2. /\ lease'.state = lease.state /\ lease'.session = lease.session /\ lease'.rev = r
        /\ lease'.idle = idle /\ lease'.hard = lease.hard
    BY <1>1, <1>2 DEF Item
  <2> QED
    BY <1>1, <1>2, <2>1, <2>2, SeesRenew DEF Promised, r
<1>3. CASE lease' = lease
  BY <1>1, <1>3, SeesNothing
<1> QED
  BY <1>2, <1>3 DEF Activity

LEMMA DrainIsPromised == ASSUME IInv, NEW e \in Execs, BeginDown(e) PROVE Promised
<1>1. health' = health /\ lease \in Item
  BY DEF BeginDown, IInv, TypeOK
<1> DEFINE r == lease.rev + 1
           t == exec[e].at + OpTime
<1>2. CASE /\ DrainOk(e)
           /\ lease' = [lease EXCEPT !.state = "DRAINING", !.rev = r, !.op = e, !.opExp = t]
  <2> HIDE DEF r, t
  <2>1. /\ lease'.state = "DRAINING" /\ lease'.session = lease.session /\ lease'.rev = r
        /\ lease'.idle = lease.idle /\ lease'.hard = lease.hard
    BY <1>1, <1>2 DEF Item
  <2>2. Drainable
    BY <1>2 DEF DrainOk
  <2> QED
    BY <1>1, <2>1, <2>2, SeesDrain DEF Promised, r
<1>3. CASE lease' = lease
  BY <1>1, <1>3, SeesNothing
<1> QED
  BY <1>2, <1>3 DEF BeginDown

\* The final write of a start may bring a lease back that its host gave up.
LEMMA FinalizeIsPromised == ASSUME IInv, NEW e \in Execs, Finalize(e) PROVE Promised
<1>1. health' = health /\ lease \in Item /\ exec[e].pc = "finalize"
  BY DEF Finalize, IInv, TypeOK
<1> DEFINE final == IF Up(e) THEN "STARTING" ELSE "STOPPED"
           r == Up(e) /\ lease.ready
<1>2. CASE /\ Mine(e)
           /\ lease' = [lease EXCEPT !.state = final, !.op = NoOne, !.opExp = 0, !.ready = r]
  <2>1. \/ final = "STARTING" /\ lease.state \in {"STARTING", "FAILED"}
        \/ final = "STOPPED" /\ lease.state = "DRAINING"
    BY <1>1, <1>2, MineFacts
  <2> HIDE DEF final, r
  <2>2. /\ lease'.state = final /\ lease'.session = lease.session /\ lease'.rev = lease.rev
        /\ lease'.idle = lease.idle /\ lease'.hard = lease.hard
    BY <1>1, <1>2 DEF Item
  <2>3. CASE final = "STARTING" /\ lease.state = "STARTING"
    BY <1>1, <2>2, <2>3, SeesNothing
  <2>4. CASE final = "STARTING" /\ lease.state = "FAILED"
    BY <1>1, <2>2, <2>4, SeesMove DEF Promised
  <2>5. CASE final = "STOPPED" /\ lease.state = "DRAINING"
    BY <1>1, <2>2, <2>5, SeesStop DEF Promised
  <2> QED
    BY <2>1, <2>3, <2>4, <2>5
<1>3. CASE lease' = lease
  BY <1>1, <1>3, SeesNothing
<1> QED
  BY <1>2, <1>3 DEF Finalize

LEMMA PublishIsPromised == ASSUME IInv, NEW e \in Execs, PublishStopped(e) PROVE Promised
<1>1. exec[e].s \in Sessions /\ lease' = lease
  BY DEF PublishStopped, IInv, Starts, Stops, TypeOK
<1>2. CASE health' = [status |-> "STOPPED", session |-> exec[e].s]
  BY <1>1, <1>2, SeesPublish DEF Promised
<1>3. CASE health' = health
  BY <1>1, <1>3, SeesNothing
<1> QED
  BY <1>2, <1>3 DEF PublishStopped

LEMMA HostIsPromised == ASSUME IInv, NEW h \in Hosts, HostNext(h) PROVE Promised
<1>1. lease \in Item
  BY DEF IInv, TypeOK
<1>2. CASE Ready(h)
  <2>1. CASE lease.state = "STARTING" /\ lease' = [lease EXCEPT !.state = "READY"]
    <3>1. /\ lease'.state = "READY" /\ lease'.session = lease.session /\ lease'.rev = lease.rev
          /\ lease'.idle = lease.idle /\ lease'.hard = lease.hard
      BY <1>1, <2>1 DEF Item
    <3> QED
      BY <1>2, <2>1, <3>1, SeesMove DEF Promised, Ready
  <2>2. CASE lease' = lease
    BY <1>2, <2>2, SeesNothing DEF Ready
  <2> QED
    BY <1>2, <2>1, <2>2 DEF Ready
<1>3. CASE MarkFailed(h)
  <2>1. CASE lease.state = "STARTING" /\ lease' = [lease EXCEPT !.state = "FAILED"]
    <3>1. /\ lease'.state = "FAILED" /\ lease'.session = lease.session /\ lease'.rev = lease.rev
          /\ lease'.idle = lease.idle /\ lease'.hard = lease.hard
      BY <1>1, <2>1 DEF Item
    <3> QED
      BY <1>3, <2>1, <3>1, SeesMove DEF Promised, MarkFailed
  <2>2. CASE lease' = lease
    BY <1>3, <2>2, SeesNothing DEF MarkFailed
  <2> QED
    BY <1>3, <2>1, <2>2 DEF MarkFailed
<1>4. CASE Announce(h) \/ Report(h) \/ PublishUnhealthy(h)
  <2>1. host[h].s \in Sessions /\ lease' = lease
    BY <1>4 DEF Announce, Report, PublishUnhealthy, IInv, Serves, TypeOK
  <2>2. \E status \in {"READY", "UNHEALTHY"} : health' = [status |-> status, session |-> host[h].s]
    BY <1>4 DEF Announce, Report, PublishUnhealthy, PutHealth
  <2> QED
    BY <2>1, <2>2, SeesPublish DEF Promised
<1>5. CASE Boot(h) \/ HostFails(h) \/ Look(h)
  BY <1>5, SeesNothing DEF Boot, HostFails, Look
<1> QED
  BY <1>2, <1>3, <1>4, <1>5 DEF HostNext

LEMMA PromisedStep ==
  ASSUME IInv, [Next]_vars
  PROVE  Promised
<1>1. CASE UNCHANGED <<lease, health>>
  BY <1>1, SeesNothing
<1>2. CASE Tick \/ UNCHANGED vars
  BY <1>1, <1>2 DEF Tick, vars
<1>3. ASSUME NEW e \in Execs,
             \/ \E s \in Sessions : \/ StartCommand(e, s)
                                    \/ \E a \in {"STOP", "ACTIVITY"} : UserCommand(e, s, a)
             \/ ReapCommand(e)
             \/ \E w \in watch : WatchCommand(e, w)
      PROVE  Promised
  BY <1>1, <1>3 DEF StartCommand, UserCommand, ReapCommand, WatchCommand
<1>4. ASSUME NEW e \in Execs, Invocation(e) \/ TimeOut(e)
      PROVE  Promised
  <2>1. CASE EnsureEndpoints(e) \/ Cleanup(e) \/ Decide(e) \/ Sweep(e) \/ Scale(e) \/ Release(e)
             \/ TimeOut(e)
    BY <1>1, <2>1 DEF EnsureEndpoints, Cleanup, Decide, Sweep, Scale, Release, TimeOut
  <2> QED
    BY <1>4, <2>1, ClaimIsPromised, CommitIsPromised, AbandonIsPromised, ActivityIsPromised,
       DrainIsPromised, FinalizeIsPromised, PublishIsPromised DEF Invocation
<1>5. ASSUME NEW h \in Hosts, Launch(h) \/ HostNext(h) \/ Terminate(h)
      PROVE  Promised
  BY <1>1, <1>5, HostIsPromised DEF Launch, Terminate, others
<1> QED
  BY <1>2, <1>3, <1>4, <1>5 DEF Next

\* The lease and the health item behave as CoreLease promises, for any number of
\* sessions, executions and hosts: a session that was drained stays down, and no
\* delayed or repeated START, finalize or host brings it back (the conditions of
\* claim, begin_downscale, finalize and the host's writes on session and revision).
THEOREM RefinesCoreLease == Spec => ImplementsLease
<1>1. Init => Lease!Init
  BY DEF Init, NoLease, Lease!Init, Lease!NoLease
<1>2. IInv /\ [Next]_vars => [Lease!Next]_<<Shown, health>>
  BY PromisedStep DEF Promised
<1> QED
  BY <1>1, <1>2, Invariant, PTL DEF Spec, ImplementsLease, Lease!Spec, Shown
=============================================================================

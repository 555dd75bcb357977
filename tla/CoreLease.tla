------------------------------ MODULE CoreLease ------------------------------
(***************************************************************************)
(* What the ephemeral DataHub Core promises to whoever reads its lease and *)
(* its health: one session at a time, a revision that every change of      *)
(* owner, every activity and every drain raises, and a session that, once  *)
(* drained, stays down.  CoreLifecycle shows how executions, endpoints and *)
(* hosts keep the promise; RuntimeSession builds on it.                    *)
(***************************************************************************)
EXTENDS Naturals

CONSTANTS
  Sessions, \* runtime sessions on Core
  NoOne,    \* no session
  Instants  \* the deadlines

ASSUME LeaseAssumption == NoOne \notin Sessions /\ Instants \subseteq Nat

VARIABLES
  lease,  \* CORE#LEASE / CURRENT
  health  \* RUNTIME#core / HEALTH

NoLease == [state |-> "ABSENT", session |-> NoOne, rev |-> 0, idle |-> 0, hard |-> 0]

\* What STOP, expiry and the reaper may drain, and where a START may claim.
Drainable == lease.state \in {"STARTING", "READY", "FAILED"}
Terminal == lease.state \in {"ABSENT", "STOPPED"}

Init ==
  /\ lease = NoLease
  /\ health = [status |-> "STOPPED", session |-> NoOne]

\* A session gets the lease from nobody, or from another session whose Core is
\* stopped or failed.
Claim(s, idle, hard) ==
  /\ Terminal \/ lease.state = "FAILED"
  /\ s # lease.session
  /\ lease' = [state |-> "STARTING", session |-> s, rev |-> lease.rev + 1,
               idle |-> idle, hard |-> hard]
  /\ UNCHANGED health

\* The host reports that its components came up or did not; the final write of
\* a start may still come after a host that gave up.
Up == {<<"STARTING", "READY">>, <<"STARTING", "FAILED">>, <<"FAILED", "STARTING">>}
Move(state) ==
  /\ <<lease.state, state>> \in Up
  /\ lease' = [lease EXCEPT !.state = state]
  /\ UNCHANGED health

Renew(idle) ==
  /\ lease.state = "READY"
  /\ lease' = [lease EXCEPT !.idle = idle, !.rev = @ + 1]
  /\ UNCHANGED health

Drain ==
  /\ Drainable
  /\ lease' = [lease EXCEPT !.state = "DRAINING", !.rev = @ + 1]
  /\ UNCHANGED health

Stop ==
  /\ lease.state = "DRAINING"
  /\ lease' = [lease EXCEPT !.state = "STOPPED"]
  /\ UNCHANGED health

\* Every health item is put without a condition, by a host or by the execution
\* that stopped the Core, however late.
Publish(status, s) ==
  /\ health' = [status |-> status, session |-> s]
  /\ UNCHANGED lease

Next ==
  \/ \E s \in Sessions, idle, hard \in Instants : Claim(s, idle, hard)
  \/ \E state \in {"STARTING", "READY", "FAILED"} : Move(state)
  \/ \E idle \in Instants : Renew(idle)
  \/ Drain \/ Stop
  \/ \E status \in {"STOPPED", "READY", "UNHEALTHY"}, s \in Sessions : Publish(status, s)

Spec == Init /\ [][Next]_<<lease, health>>
=============================================================================

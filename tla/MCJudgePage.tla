---------------------------- MODULE MCJudgePage ----------------------------
(***************************************************************************)
(* The page of the judge in two parts: the panel and the run of JudgePage   *)
(* (Page), and the steward's sign-in of SignIn (Auth), without which the    *)
(* steward may ask for nothing.  A behaviour is one of the two, chosen at   *)
(* the start; the variables of the other are idle.                          *)
(***************************************************************************)
EXTENDS Naturals

CONSTANTS
  MaxSessions, MaxRuns, MaxBegun, MaxRetries, MaxPolls, PageMishaps,  \* the bounds of the page
  None,
  Ttl, Tolerance, Skew, Lifetimes,
  LastTime, MaxSignIns, MaxLoads, SignInMishaps  \* the bounds of the sign-in

VARIABLES
  part,  \* the part that runs
  sessions, runs, panel, saved, command, polls, page, handler, fault, misses,  \* of Page
  time, deployment, visit, store, opened, last, exchanges, counters  \* of Auth

Page == INSTANCE JudgePage
          WITH stored <- saved, task <- handler, mishaps <- misses, MaxMishaps <- PageMishaps
Auth == INSTANCE SignIn
          WITH now <- time, MaxTime <- LastTime, MaxMishaps <- SignInMishaps

ASSUME PageAssumption == Page!PageAssumption
ASSUME SignInAssumption == Auth!SignInAssumption

pageVars == <<sessions, runs, panel, saved, command, polls, page, handler, fault, misses>>
authVars == <<time, deployment, visit, store, opened, last, exchanges, counters>>
allVars == <<part, pageVars, authVars>>

MCInit == Page!Init /\ Auth!Init /\ part \in {"page", "sign-in"}

PageStep(A) == part = "page" /\ A /\ UNCHANGED <<part, authVars>>
AuthStep(A) == part = "sign-in" /\ A /\ UNCHANGED <<part, pageVars>>

PageNext ==
  \/ PageStep(Page!ServerMoves) \/ PageStep(Page!Panel) \/ PageStep(Page!Judge)
  \/ PageStep(Page!Handler) \/ PageStep(Page!Reload)

AuthNext ==
  \/ AuthStep(Auth!Initialize) \/ AuthStep(Auth!ConfigAnswered)
  \/ AuthStep(Auth!TokenAnswered) \/ AuthStep(Auth!TimerFires)
  \/ AuthStep(Auth!SignIn) \/ AuthStep(Auth!Hashed) \/ AuthStep(Auth!SignOut)
  \/ AuthStep(Auth!Refused) \/ AuthStep(Auth!Depart) \/ AuthStep(Auth!Arrive)
  \/ AuthStep(Auth!Reload) \/ AuthStep(Auth!GoBack) \/ AuthStep(Auth!Redeploy)
  \/ AuthStep(Auth!Tick) \/ AuthStep(Auth!SetBack)

MCNext == PageNext \/ AuthNext

MCSafety == MCInit /\ [][MCNext]_allVars

\* With the fairness of JudgePage.
MCSpec == MCSafety /\ WF_allVars(PageStep(Page!Handler))

\* What the page shows of a run is true (JudgePage).
PageIsTruthful == Page!PageIsTruthful
\* A session gives way on the page only to a later one (JudgePage).
LatestIsShown == Page!LatestIsShown
\* The status of a run that succeeded is not refused (JudgePage).
SuccessIsShown == Page!SuccessIsShown
\* A run that has ended is not polled for ever (JudgePage).
PollsEnd == Page!PollsEnd
\* A session of the steward is earned (SignIn).
SessionIsEarned == Auth!SessionIsEarned
=============================================================================

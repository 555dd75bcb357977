------------------------------- MODULE SignIn -------------------------------
(***************************************************************************)
(* The steward's sign-in (auth.ts): a page of one browser tab that sends    *)
(* the steward to Cognito with a fresh state and code verifier, kept in the *)
(* sessionStorage of the tab, and that exchanges the code it comes back     *)
(* with.  The steward may click twice, come back from an older request or   *)
(* with another tab's answer, and reload; requests fail, the clock of the   *)
(* machine may be set back, and its timers may be late.                     *)
(*                                                                          *)
(* A request k stands for its state, its verifier and its challenge, all of *)
(* them drawn afresh; 0 is a request of another tab.                        *)
(***************************************************************************)
EXTENDS Naturals, FiniteSets

CONSTANTS
  None,
  Ttl,         \* TRANSACTION_TTL_MS, in units of the clock
  Tolerance,   \* the 60 seconds that a sign-in may lie in the future
  Skew,        \* TOKEN_EXPIRY_SKEW_MS
  Lifetimes,   \* the values of expires_in that Cognito answers
  MaxTime, MaxSignIns, MaxLoads, MaxMishaps  \* bounds

\* What the constants are (the instances assume it); None is no time and no token.
SignInAssumption ==
  /\ {Ttl, Tolerance, Skew, MaxTime, MaxSignIns, MaxLoads, MaxMishaps} \subseteq Nat
  /\ Lifetimes \subseteq Nat
  /\ None \notin Nat
  /\ None \notin [request : Nat, scope : {"omitted", "approve"}, expiresAt : Nat, left : Nat]

VARIABLES
  now,         \* Date.now()
  deployment,  \* what is deployed: the host of its Cognito
  visit,       \* the document in the tab, None while the tab is at Cognito
  store,       \* the transaction in sessionStorage
  opened,      \* the requests whose page at Cognito was opened, and where
  last,        \* the request of the last transaction that was stored
  exchanges,   \* by request: the exchanges with its verifier
  counters

vars == <<now, deployment, visit, store, opened, last, exchanges, counters>>

RequestIds == 1 .. MaxSignIns
Hosts == {"first", "second"}
Nowhere == [to |-> "nowhere"]

\* url: the callback parameters of the location; initial: those it was opened with;
\* boot: how far initializeOnce is; attempts: the signIns that await sha256.
Document(parameters) ==
  [url |-> parameters, initial |-> parameters, boot |-> "loaded", exchange |-> None,
   status |-> "loading", config |-> None, token |-> None, timer |-> None,
   attempts |-> {}, nav |-> Nowhere]

Init ==
  /\ now = Tolerance /\ deployment = "first" /\ visit = Document(None) /\ store = None
  /\ opened = {} /\ last = 0 /\ exchanges = [k \in RequestIds |-> 0]
  /\ counters = [signIns |-> 0, loads |-> 1, mishaps |-> 0, back |-> 0]

Count(field) == counters' = [counters EXCEPT ![field] = @ + 1]
Mishap == counters.mishaps < MaxMishaps /\ Count("mishaps")

-----------------------------------------------------------------------------
(* The documents the page reads *)

\* runtime-config.json of a deployment, and one that is wrong in one respect.
RuntimeConfig(host) ==
  [authorization |-> host, token |-> host, logout |-> host, clientId |-> TRUE,
   scopes |-> {"openid", "archon/approve"}, redirectUri |-> "root", logoutUri |-> "root",
   demoQuery |-> "narrow", keys |-> "exact"]
WrongConfigs(host) ==
  LET c == RuntimeConfig(host)
  IN {[c EXCEPT !.token = "elsewhere"], [c EXCEPT !.logout = "elsewhere"],
      [c EXCEPT !.scopes = {"openid"}], [c EXCEPT !.scopes = {"archon/approve"}],
      [c EXCEPT !.redirectUri = "path"], [c EXCEPT !.logoutUri = "path"],
      [c EXCEPT !.demoQuery = "wildcard"], [c EXCEPT !.clientId = FALSE],
      [c EXCEPT !.keys = "more"]}

\* A redirect URI must be the root of the page's own origin, so that those of two
\* deployments never differ.
ParseAppUri(uri) == uri = "root"
ParseRuntimeConfig(c) ==
  /\ c.keys = "exact" /\ c.clientId
  /\ {"openid", "archon/approve"} \subseteq c.scopes
  /\ c.token = c.authorization /\ c.logout = c.authorization
  /\ c.demoQuery = "narrow" /\ ParseAppUri(c.redirectUri) /\ ParseAppUri(c.logoutUri)

\* What the location may carry: the state once, a code or an error, at the root.
Callbacks(requests) ==
  [request : requests, kind : {"code", "error", "ill-formed"}, atRoot : {TRUE}]
Misplaced == [request |-> 0, kind |-> "code", atRoot |-> FALSE]

\* The token answer; a scope may be left out when it is the one that was asked for.
TokenAnswers == [scope : {"omitted", "approve", "other"}, expiresIn : Lifetimes, sound : BOOLEAN]
TokenContract(answer) ==
  answer.sound /\ answer.expiresIn > Skew /\ answer.scope \in {"omitted", "approve"}

-----------------------------------------------------------------------------
(* The controller *)

ClearToken(v) == [v EXCEPT !.token = None, !.timer = None]
Publish(v, status) == [v EXCEPT !.status = status]
\* An error can be left by another sign-in once the configuration is known.
Fail(v) == Publish(ClearToken(v), "error")
Recoverable(v) == v.status = "error" /\ v.config # None
Over(v) == [v EXCEPT !.boot = "done", !.exchange = None]

CleanCallbackUrl(v) == [v EXCEPT !.url = None]
Initialize ==
  /\ visit # None /\ visit.boot = "loaded"
  /\ visit' = [CleanCallbackUrl(visit) EXCEPT !.boot = "config"]
  /\ UNCHANGED <<now, deployment, store, opened, last, exchanges, counters>>

\* readTransaction and, however it ends, removeTransaction.
\* Mutant: the transaction stays where it is.
TakeTransactionKept == store' = store
TakeTransaction == store' = None

Fresh(transaction) ==
  /\ now + Tolerance >= transaction.createdAt
  /\ now <= transaction.createdAt + Ttl
Matches(callback) ==
  /\ store # None /\ Fresh(store) /\ callback.request = store.request

\* completeCallback up to the exchange of the code, with the configuration known.
CompleteCallback(v) ==
  LET callback == v.initial
  IN IF callback = None
     THEN /\ visit' = Over(Publish(v, "anonymous"))
          /\ UNCHANGED <<store, exchanges>>
     ELSE /\ TakeTransaction
          /\ IF callback.atRoot /\ Matches(callback) /\ callback.kind = "code"
             THEN /\ visit' = [v EXCEPT !.boot = "exchange",
                                 !.exchange = [code |-> callback.request,
                                               verifier |-> store.request]]
                  /\ exchanges' = [exchanges EXCEPT ![store.request] = @ + 1]
             ELSE visit' = Over(Fail(v)) /\ UNCHANGED exchanges

ConfigAnswered ==
  /\ visit # None /\ visit.boot = "config"
  /\ \/ \E c \in {RuntimeConfig(deployment)} \cup WrongConfigs(deployment) :
          IF ParseRuntimeConfig(c)
          THEN CompleteCallback([visit EXCEPT !.config = c.token]) /\ UNCHANGED counters
          ELSE /\ Mishap
               /\ visit' = Over(Fail(visit)) /\ UNCHANGED <<store, exchanges>>
     \/ /\ Mishap  \* the request failed, or its answer is no JSON
        /\ visit' = Over(Fail(visit)) /\ UNCHANGED <<store, exchanges>>
  /\ UNCHANGED <<now, deployment, opened, last>>

\* Cognito grants a code it issued, for the verifier of its challenge.
Grants(x) == x.code = x.verifier /\ [request |-> x.code, host |-> visit.config] \in opened

TokenAnswered ==
  /\ visit # None /\ visit.boot = "exchange"
  /\ \/ /\ Grants(visit.exchange)
        /\ \E answer \in TokenAnswers :
             IF TokenContract(answer)
             THEN /\ visit' = Over([Publish(visit, "authenticated") EXCEPT
                                !.token = [request |-> visit.exchange.code,
                                           scope |-> answer.scope,
                                           expiresAt |-> now + answer.expiresIn,
                                           left |-> answer.expiresIn],
                                !.timer = answer.expiresIn - Skew])
                  /\ UNCHANGED counters
             ELSE Mishap /\ visit' = Over(Fail(visit))
     \/ ~Grants(visit.exchange) /\ visit' = Over(Fail(visit)) /\ UNCHANGED counters
     \/ Mishap /\ visit' = Over(Fail(visit))  \* the request failed
  /\ UNCHANGED <<now, deployment, store, opened, last, exchanges>>

TimerFires ==
  /\ visit # None /\ visit.timer = 0
  /\ visit' = Publish(ClearToken(visit), "anonymous")
  /\ UNCHANGED <<now, deployment, store, opened, last, exchanges, counters>>

\* AuthControl offers the sign-in to a steward without a session, and again for an
\* error that can be left; until the challenge is digested it may be clicked again.
SignIn ==
  /\ visit # None
  /\ visit.status = "anonymous" \/ Recoverable(visit)
  /\ counters.signIns < MaxSignIns /\ Count("signIns")
  /\ visit' = [ClearToken(visit) EXCEPT !.attempts = @ \cup {counters.signIns + 1}]
  /\ UNCHANGED <<now, deployment, store, opened, last, exchanges>>

Hashed ==
  /\ visit # None
  /\ \E k \in visit.attempts :
       LET v == [visit EXCEPT !.attempts = @ \ {k}]
       IN \/ /\ store' = [request |-> k, createdAt |-> now] /\ last' = k
             /\ visit' = [Publish(v, "redirecting") EXCEPT !.nav = [to |-> "cognito", request |-> k]]
             /\ UNCHANGED counters
          \/ /\ Mishap  \* the digest or the storage failed
             /\ store' = None /\ UNCHANGED last
             /\ visit' = Fail(v)
  /\ UNCHANGED <<now, deployment, opened, exchanges>>

SignOut ==
  /\ visit # None /\ visit.status = "authenticated"
  /\ visit' = [Publish(ClearToken(visit), "anonymous") EXCEPT !.nav = [to |-> "logout"]]
  /\ store' = None
  /\ UNCHANGED <<now, deployment, opened, last, exchanges, counters>>

\* What getAccessToken hands out.
AccessToken(v) ==
  IF v.token # None /\ now + Skew < v.token.expiresAt THEN v.token ELSE None

\* A handler of the page asks for a token and there is none, or no longer.
Refused ==
  /\ visit # None /\ visit.boot = "done" /\ visit.config # None /\ AccessToken(visit) = None
  /\ visit' = Publish(ClearToken(visit), "anonymous")
  /\ UNCHANGED <<now, deployment, store, opened, last, exchanges, counters>>

-----------------------------------------------------------------------------
(* The steward, the browser and the clock *)

\* The browser carries out the last navigation.
Depart ==
  /\ visit # None /\ visit.nav.to # "nowhere"
  /\ visit' = None
  /\ opened' = IF visit.nav.to = "cognito"
               THEN opened \cup {[request |-> visit.nav.request, host |-> visit.config]}
               ELSE opened
  /\ UNCHANGED <<now, deployment, store, last, exchanges, counters>>

\* The tab comes back, from any page of Cognito that it had open, with another tab's
\* answer, or with no parameters.
Arrive ==
  /\ visit = None /\ counters.loads < MaxLoads /\ Count("loads")
  /\ \E parameters \in {None, Misplaced} \cup Callbacks({o.request : o \in opened} \cup {0}) :
       visit' = Document(parameters)
  /\ UNCHANGED <<now, deployment, store, opened, last, exchanges>>

Reload ==
  /\ visit # None /\ counters.loads < MaxLoads /\ Count("loads")
  /\ visit' = Document(visit.url)
  /\ UNCHANGED <<now, deployment, store, opened, last, exchanges>>

\* The steward leaves the page for one of Cognito's in the history of the tab.
GoBack ==
  /\ visit # None /\ opened # {} /\ Mishap
  /\ visit' = None
  /\ UNCHANGED <<now, deployment, store, opened, last, exchanges>>

Redeploy ==
  /\ deployment = "first" /\ Mishap
  /\ deployment' = "second"
  /\ UNCHANGED <<now, visit, store, opened, last, exchanges>>

\* Time passes; a timer that is due may be late, as it is after the machine slept.
Less(n) == IF n = 0 THEN 0 ELSE n - 1
Tick ==
  /\ now < MaxTime
  /\ now' = now + 1
  /\ visit' = IF visit = None \/ visit.token = None THEN visit
              ELSE [visit EXCEPT !.timer = Less(@), !.token.left = Less(@)]
  /\ UNCHANGED <<deployment, store, opened, last, exchanges, counters>>

SetBack ==
  /\ now > 0 /\ counters.mishaps < MaxMishaps
  /\ now' = now - 1
  /\ counters' = [counters EXCEPT !.mishaps = @ + 1, !.back = @ + 1]
  /\ UNCHANGED <<deployment, visit, store, opened, last, exchanges>>

Next ==
  \/ Initialize \/ ConfigAnswered \/ TokenAnswered \/ TimerFires
  \/ SignIn \/ Hashed \/ SignOut \/ Refused
  \/ Depart \/ Arrive \/ Reload \/ GoBack \/ Redeploy \/ Tick \/ SetBack

Spec == Init /\ [][Next]_vars

-----------------------------------------------------------------------------
(* Properties *)

TypeOK ==
  /\ now \in 0 .. MaxTime /\ deployment \in Hosts
  /\ visit # None =>
       /\ visit.boot \in {"loaded", "config", "exchange", "done"}
       /\ visit.status \in {"loading", "anonymous", "redirecting", "authenticated", "error"}
       /\ visit.config \in Hosts \cup {None} /\ visit.attempts \subseteq RequestIds
       /\ visit.nav.to \in {"nowhere", "cognito", "logout"}
  /\ store # None => store.request \in RequestIds /\ store.createdAt \in 0 .. MaxTime
  /\ opened \subseteq [request : RequestIds, host : Hosts]
  /\ last \in 0 .. MaxSignIns /\ exchanges \in [RequestIds -> Nat]

\* A verifier is sent once, and with the code of its own request.
ExchangedOnce ==
  /\ \A k \in RequestIds : exchanges[k] <= 1
  /\ visit # None /\ visit.exchange # None => visit.exchange.code = visit.exchange.verifier

\* The transaction in the tab is that of the last request it made, and a request on
\* its way to Cognito has its own there, unless a later attempt failed and took it.
StoredIsLast ==
  /\ store # None => store.request = last
  /\ visit # None /\ visit.nav.to = "cognito" => visit.nav.request = last

\* A session of the page is one of that request, with the right to approve, and the
\* page shows it as long as it holds a token.
SessionIsOwn ==
  visit # None =>
    /\ visit.status = "authenticated" <=> visit.token # None
    /\ visit.token # None => visit.token.request = last /\ visit.token.scope # "other"

\* A token that is handed out is valid for longer than the skew, unless the clock
\* was set back while the timer is late.
TokenIsValid ==
  visit # None /\ AccessToken(visit) # None =>
    AccessToken(visit).left > Skew \/ (counters.back > 0 /\ visit.timer = 0)

\* The parameters have left the location before anything is asked of the network.
LocationIsClean == visit # None /\ visit.boot # "loaded" => visit.url = None

\* Whatever the steward clicks, reloads or comes back with, a session is that of the
\* last sign-in this tab began, its code was exchanged once and with its own verifier,
\* and it is handed out while it lasts (AuthController).
SessionIsEarned ==
  ExchangedOnce /\ StoredIsLast /\ SessionIsOwn /\ TokenIsValid /\ LocationIsClean
=============================================================================

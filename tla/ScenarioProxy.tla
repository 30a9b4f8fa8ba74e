---------------------------- MODULE ScenarioProxy ----------------------------
(***************************************************************************)
(* handleRequest of the scenario proxy (apps/demo-console/worker/src/      *)
(* index.ts), with the limiter before it and /chat of an agent runtime     *)
(* (src/maritime_ratify/agent_runtime.py) behind it.                       *)
(*                                                                         *)
(* A click is one request of the console.  It is stamped, counted by the   *)
(* limiter and posted to the runtime, up to five times while the runtime   *)
(* seems not to be ready.  The runtime runs the scenario in every attempt  *)
(* it accepts, each time as a new work order, and its answer may be lost,  *)
(* late, a 503 after the work order was created, or cut off in its body.   *)
(***************************************************************************)
EXTENDS Integers, FiniteSets

CONSTANTS
  Click, Client,
  From,           \* the client of each click
  Hosted,         \* clicks that ask for the hosted walkthrough (env and header)
  Replaying,      \* clicks on the replay scenario, which dispatches its call twice
  ReadyAttempts,  \* AGENT_READY_ATTEMPTS
  HostedAttempts, \* HOSTED_LIVE_ATTEMPTS
  Window, GlobalLimit, ClientLimit, Skew,
  MaxTime         \* bound: the last instant

VARIABLES
  now,
  global, clients, admitted, latest,  \* the limiter
  click,      \* the handler's progress for each click
  running,    \* the scenarios the runtime is executing: click and attempt
  worked,     \* history: the attempts that created a work order
  received    \* history: the attempts whose response below 500 reached the Worker

Limiter == INSTANCE ScenarioLimiter WITH MaxStamp <- MaxTime

Attempt == 1..(IF ReadyAttempts > HostedAttempts THEN ReadyAttempts ELSE HostedAttempts)

ASSUME ProxyAssumption ==
  /\ From \in [Click -> Client]
  /\ Hosted \subseteq Click /\ Replaying \subseteq Click
  /\ ReadyAttempts \in Nat \ {0} /\ HostedAttempts \in Nat \ {0}
  /\ Window \in Nat \ {0} /\ Skew \in 0..Window /\ MaxTime \in Nat
  /\ GlobalLimit \in Nat \ {0} /\ ClientLimit \in Nat \ {0}

\* What a click can show: the runtime's decision, a fixed error, or the labelled
\* hosted walkthrough.
Result == {"none", "ALLOW", "DENY", "RATE_LIMITED", "SCENARIO_UNAVAILABLE", "walkthrough"}

\* pausing is a click between two attempts, reading one that has the headers of a
\* response and not yet its body; heard is upstreamResponseReceived.
Stage == {"idle", "stamped", "pausing", "posting", "reading", "done"}
Body  == {"none", "ALLOW", "DENY"}

Progress ==
  [stage : Stage, stamp : Nat, attempt : Attempt \cup {0}, heard : BOOLEAN,
   body : Body, result : Result]

vars == <<now, global, clients, admitted, latest, click, running, worked, received>>

ProxyTypeOK ==
  /\ Limiter!LimiterTypeOK
  /\ now \in 0..MaxTime
  /\ click \in [Click -> Progress]
  /\ running \subseteq Click \X Attempt
  /\ worked \subseteq Click \X Attempt
  /\ received \subseteq Click \X Attempt

Init ==
  /\ now = 0
  /\ Limiter!Init
  /\ click = [c \in Click |-> [stage |-> "idle", stamp |-> 0, attempt |-> 0,
                               heard |-> FALSE, body |-> "none", result |-> "none"]]
  /\ running = {}
  /\ worked = {}
  /\ received = {}

-----------------------------------------------------------------------------
InStage(c, stage) == click[c].stage = stage

Done(c, result) ==
  click' = [click EXCEPT ![c].stage = "done", ![c].result = result]

\* Date.now() goes into the limiter call that is about to be sent.
StampClick(c) ==
  /\ InStage(c, "idle")
  /\ click' = [click EXCEPT ![c].stage = "stamped", ![c].stamp = now]
  /\ UNCHANGED <<now, global, clients, admitted, latest, running, worked, received>>

\* Fault: an unavailable limiter lets the click pass.
CountClickOpen(c) ==
  /\ InStage(c, "stamped")
  /\ \/ /\ Limiter!Admit(From[c], click[c].stamp)
        /\ click' = [click EXCEPT ![c].stage = "pausing"]
     \/ /\ Limiter!Refuse(From[c], click[c].stamp)
        /\ Done(c, "RATE_LIMITED")
     \/ /\ click' = [click EXCEPT ![c].stage = "pausing"]
        /\ UNCHANGED <<global, clients, admitted, latest>>
  /\ UNCHANGED <<now, running, worked, received>>

\* The limiter's answer, or its failure.
CountClick(c) ==
  /\ InStage(c, "stamped")
  /\ \/ /\ Limiter!Admit(From[c], click[c].stamp)
        /\ click' = [click EXCEPT ![c].stage = "pausing"]
     \/ /\ Limiter!Refuse(From[c], click[c].stamp)
        /\ Done(c, "RATE_LIMITED")
     \/ /\ Done(c, "SCENARIO_UNAVAILABLE")
        /\ UNCHANGED <<global, clients, admitted, latest>>
  /\ UNCHANGED <<now, running, worked, received>>

-----------------------------------------------------------------------------
\* Fault: a hosted click gets the attempts of a live one.
AttemptsAll(c) == ReadyAttempts

Attempts(c) == IF c \in Hosted THEN HostedAttempts ELSE ReadyAttempts

\* fetchAgent: the runtime accepts the request and starts the scenario, or the
\* request never gets that far.
Post(c) ==
  LET attempt == click[c].attempt + 1 IN
  /\ InStage(c, "pausing")
  /\ click' = [click EXCEPT ![c].stage = "posting", ![c].attempt = attempt]
  /\ running' \in {running, running \cup {<<c, attempt>>}}
  /\ UNCHANGED <<now, global, clients, admitted, latest, worked, received>>

\* The last catch: the walkthrough only if it was asked for and no response below
\* 500 came.
Failure(c, heard) ==
  IF c \in Hosted /\ ~ heard THEN "walkthrough" ELSE "SCENARIO_UNAVAILABLE"

\* Fault: the attempt is not counted.
NotReadyAgain(c) ==
  IF click[c].attempt < Attempts(c)
  THEN click' = [click EXCEPT ![c].stage = "pausing", ![c].attempt = @ - 1]
  ELSE Done(c, Failure(c, FALSE))

\* A refused, broken or 5xx attempt: pause and try again, or give up.
NotReady(c) ==
  IF click[c].attempt < Attempts(c)
  THEN click' = [click EXCEPT ![c].stage = "pausing"]
  ELSE Done(c, Failure(c, FALSE))

\* The runtime was not reached, or the connection broke while it works.
ConnectionFails(c) ==
  /\ InStage(c, "posting")
  /\ NotReady(c)
  /\ UNCHANGED <<now, global, clients, admitted, latest, running, worked, received>>

\* AbortSignal.timeout before the headers: no second attempt.
TimeOut(c) ==
  /\ InStage(c, "posting")
  /\ Done(c, Failure(c, FALSE))
  /\ UNCHANGED <<now, global, clients, admitted, latest, running, worked, received>>

\* An error status below 500, of the platform or the runtime: its 401 and 429 come
\* before the scenario, its 400 before it or from a ValueError after the handler ran.
\* The run, if there is one, ends in Break.
Reject(c) ==
  /\ InStage(c, "posting")
  /\ click' = [click EXCEPT ![c].stage = "done", ![c].heard = TRUE,
                            ![c].result = Failure(c, TRUE)]
  /\ received' = received \cup {<<c, click[c].attempt>>}
  /\ UNCHANGED <<now, global, clients, admitted, latest, running, worked>>

\* Fault: an answer is taken for the attempt waited for, whichever it is of.
WaitsForAny(c, attempt) == InStage(c, "posting")

\* The response reaches the click if it still waits for this attempt.
Waits(c, attempt) == InStage(c, "posting") /\ click[c].attempt = attempt

\* Fault: upstreamResponseReceived is left to be set when the body has been read.
HearUnmarked(c, decision) ==
  click' = [click EXCEPT ![c].stage = "reading", ![c].body = decision]

\* The headers of a 200: the attempts are over, the body is still to come.
Hear(c, decision) ==
  click' = [click EXCEPT ![c].stage = "reading", ![c].heard = TRUE,
                         ![c].body = decision]

\* run_scenario ends with the receiver's decision.  An ALLOW created a work order.  The
\* replay scenario dispatches its call twice and answers with the second decision, a
\* DENY: the first may have created one.
Decide(c, attempt, decision) ==
  /\ <<c, attempt>> \in running
  /\ running' = running \ {<<c, attempt>>}
  /\ \/ /\ decision = "ALLOW" /\ c \notin Replaying
        /\ worked' = worked \cup {<<c, attempt>>}
     \/ decision = "DENY" /\ worked' = worked
     \/ /\ decision = "DENY" /\ c \in Replaying
        /\ worked' = worked \cup {<<c, attempt>>}
  /\ IF Waits(c, attempt)
     THEN Hear(c, decision) /\ received' = received \cup {<<c, attempt>>}
     ELSE UNCHANGED <<click, received>>
  /\ UNCHANGED <<now, global, clients, admitted, latest>>

\* The body is a decision in the schema, and is shown.
Show(c) ==
  /\ InStage(c, "reading")
  /\ Done(c, click[c].body)
  /\ UNCHANGED <<now, global, clients, admitted, latest, running, worked, received>>

\* The body breaks off, is aborted by the signal, or is outside the schema.
Spoil(c) ==
  /\ InStage(c, "reading")
  /\ Done(c, Failure(c, click[c].heard))
  /\ UNCHANGED <<now, global, clients, admitted, latest, running, worked, received>>

Read(c) == Show(c) \/ Spoil(c)

\* run_scenario raises: a 503, whether or not the receiver ran the handler by then.
\* A restart of the runtime looks the same.
Break(c, attempt) ==
  /\ <<c, attempt>> \in running
  /\ running' = running \ {<<c, attempt>>}
  /\ worked' \in {worked, worked \cup {<<c, attempt>>}}
  /\ IF Waits(c, attempt) THEN NotReady(c) ELSE UNCHANGED click
  /\ UNCHANGED <<now, global, clients, admitted, latest, received>>

Tick ==
  /\ now < MaxTime
  /\ now' = now + 1
  /\ UNCHANGED <<global, clients, admitted, latest, click, running, worked, received>>

Handle(c) ==
  \/ StampClick(c) \/ CountClick(c) \/ Post(c)
  \/ ConnectionFails(c) \/ TimeOut(c) \/ Reject(c) \/ Read(c)

Chat(c) ==
  \E attempt \in Attempt :
    \/ \E decision \in {"ALLOW", "DENY"} : Decide(c, attempt, decision)
    \/ Break(c, attempt)

Next ==
  \/ \E c \in Click : Handle(c) \/ Chat(c)
  \/ Tick

Spec == Init /\ [][Next]_vars

\* The Worker goes on, and the abort signal fires, while the body is read too.
\* Nothing is asked of the runtime.
FairSpec ==
  Spec /\ \A c \in Click : /\ WF_vars(CountClick(c)) /\ WF_vars(Post(c))
                          /\ WF_vars(TimeOut(c)) /\ WF_vars(Read(c))

-----------------------------------------------------------------------------
(***************************************************************************)
(* Properties.                                                             *)
(***************************************************************************)

\* What the console shows as a live decision is the one of the attempt it waited
\* for, however many earlier attempts broke or still run: an ALLOW has that attempt's
\* work order; a DENY is of a run that is over and has none, but for the replay
\* scenario, whose first dispatch may have been allowed.
LiveDecisionsHappened ==
  \A c \in Click :
    LET p == click[c] IN
    /\ p.result = "ALLOW" => <<c, p.attempt>> \in worked
    /\ p.result = "DENY" =>
         /\ <<c, p.attempt>> \notin running
         /\ <<c, p.attempt>> \in worked => c \in Replaying

\* A click that asked for the hosted walkthrough is content with one attempt, so it
\* makes one work order at most.
HostedClicksRunOnce ==
  \A c \in Hosted : Cardinality({w \in worked : w[1] = c}) <= HostedAttempts

\* A response below 500 stands, from its headers on: its attempt is the click's last,
\* and the click ends with the decision of that response, or with an error if the body
\* is cut off or malformed, and not with the walkthrough or another attempt's decision.
\* (A 5xx of the runtime, after the work order too, is retried and then covered by the
\* walkthrough: nothing is promised of it.)
AnswersStand ==
  \A w \in received :
    LET p == click[w[1]] IN
    /\ p.attempt = w[2]
    /\ p.result \in {"none", p.body, "SCENARIO_UNAVAILABLE"}
    /\ p.body # "none" => w \notin running

\* Only admitted clicks reach a runtime: in no window (shorter than the nominal one
\* by the skew) do more clicks than the global budget have a scenario run for them,
\* even while the limiter fails or stamps arrive out of order.
RunsAreBudgeted ==
  \A s \in 0..MaxTime :
    Cardinality({c \in Click :
      /\ click[c].attempt > 0
      /\ s - (Window - Skew) < click[c].stamp /\ click[c].stamp <= s}) <= GlobalLimit

\* Every click ends with a reply, even if the runtime never answers at all.
ClicksEnd == \A c \in Click : ~ InStage(c, "idle") ~> InStage(c, "done")

\* worker/src/index.ts: "A refused or 5xx upstream did not run the scenario, so
\* replaying it cannot double an authorization."  Refuted: a 503, or a connection
\* that breaks, can come after the work order was created.
OneOrderPerClick == \A c \in Click : Cardinality({w \in worked : w[1] = c}) <= 1
=============================================================================

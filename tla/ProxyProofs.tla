----------------------------- MODULE ProxyProofs -----------------------------
(***************************************************************************)
(* Proofs about ScenarioProxy, for any clicks, clients, limits and numbers *)
(* of attempts.  What a click shows does not depend on which clicks the    *)
(* limiter admits; what runs rests on its invariant, from LimiterProofs.   *)
(***************************************************************************)
EXTENDS ScenarioProxy, FiniteSetTheorems, TLAPS

\* A click that has no attempt yet, and the attempts the runtime knows of.
Untried(c) == InStage(c, "idle") \/ InStage(c, "stamped")
Known      == running \cup worked

\* The part of the type that the argument needs.
Made == [stage : Stage, stamp : Nat, attempt : Nat, heard : BOOLEAN, body : Body,
         result : Result]

PType ==
  /\ click \in [Click -> Made]
  /\ now \in Nat
  /\ running \subseteq Click \X Nat
  /\ worked \subseteq Click \X Nat
  /\ received \subseteq Click \X Nat

\* Attempts are numbered as they are made: none before the first, none past the
\* last, none known that was not made, and none that runs after it worked.
AttemptsInOrder ==
  /\ \A c \in Click :
       /\ click[c].attempt <= Attempts(c)
       /\ Untried(c) => click[c].attempt = 0
       /\ InStage(c, "pausing") => click[c].attempt < Attempts(c)
       /\ InStage(c, "posting") => click[c].attempt > 0
  /\ \A w \in Known : w[2] \in 1..click[w[1]].attempt
  /\ running \cap worked = {}

\* A click shows nothing before it is done, and holds no body but while it reads one
\* or after.
OpenClicksShowNothing ==
  \A c \in Click :
    /\ ~ InStage(c, "done") => click[c].result = "none"
    /\ ~ InStage(c, "done") /\ ~ InStage(c, "reading") =>
         click[c].body = "none" /\ ~ click[c].heard

\* A body is the decision of the attempt waited for.
BodiesHappened ==
  \A c \in Click :
    LET p == click[c] IN
    /\ p.body = "ALLOW" => <<c, p.attempt>> \in worked
    /\ p.body = "DENY" =>
         /\ <<c, p.attempt>> \notin running
         /\ <<c, p.attempt>> \in worked => c \in Replaying

\* What is shown of a decision is the body.
ShowsItsBody ==
  \A c \in Click : click[c].result \in {"ALLOW", "DENY"} => click[c].result = click[c].body

\* A received response is of the last attempt, and is marked as heard.
ReceivedAreHeard ==
  \A w \in received :
    LET p == click[w[1]] IN
    /\ p.attempt = w[2] /\ w[2] > 0 /\ p.heard /\ p.stage \in {"reading", "done"}
    /\ p.result \in {"none", p.body, "SCENARIO_UNAVAILABLE"}
    /\ p.body # "none" => w \notin running

PInv ==
  /\ PType /\ AttemptsInOrder /\ OpenClicksShowNothing
  /\ BodiesHappened /\ ShowsItsBody /\ ReceivedAreHeard

-----------------------------------------------------------------------------
LEMMA AttemptsPositive ==
  \A c \in Click : Attempts(c) \in Nat \ {0}
BY ProxyAssumption DEF Attempts

LEMMA PInvInit == Init => PInv
<1> SUFFICES ASSUME Init PROVE PInv
  OBVIOUS
<1>1. PType
  BY DEF Init, PType, Made, Stage, Body, Result
<1>2. AttemptsInOrder
  BY AttemptsPositive DEF Init, AttemptsInOrder, Untried, Known, InStage
<1>3. OpenClicksShowNothing /\ BodiesHappened /\ ShowsItsBody /\ ReceivedAreHeard
  BY DEF Init, OpenClicksShowNothing, BodiesHappened, ShowsItsBody, ReceivedAreHeard
<1> QED BY <1>1, <1>2, <1>3 DEF PInv

\* A click that reads nothing yet has heard and received nothing.
LEMMA OpenClicksHeardNothing ==
  ASSUME PInv, NEW c \in Click, ~ InStage(c, "reading"), ~ InStage(c, "done")
  PROVE  /\ click[c].result = "none" /\ click[c].body = "none" /\ ~ click[c].heard
         /\ \A w \in received : w[1] # c
BY DEF PInv, OpenClicksShowNothing, ReceivedAreHeard, InStage

\* What a step may do with a click: give it new progress and leave the runtime alone,
\* or end one of its attempts there, with or without a work order.
Quiet(c, p) ==
  /\ click' = [click EXCEPT ![c] = p]
  /\ now' = now /\ UNCHANGED <<running, worked>>

Ends(c, p, attempt) ==
  /\ click' = [click EXCEPT ![c] = p]
  /\ now' = now
  /\ <<c, attempt>> \in running
  /\ running' = running \ {<<c, attempt>>}
  /\ worked' \in {worked, worked \cup {<<c, attempt>>}}

\* What the progress of a click may say of its body, its result and what was received.
Tells(c, p) ==
  /\ p.stage # "done" => p.result = "none"
  /\ p.stage \notin {"done", "reading"} => p.body = "none" /\ ~ p.heard
  /\ p.body = "ALLOW" => <<c, p.attempt>> \in worked'
  /\ p.body = "DENY" =>
       /\ <<c, p.attempt>> \notin running'
       /\ <<c, p.attempt>> \in worked' => c \in Replaying
  /\ p.result \in {"ALLOW", "DENY"} => p.result = p.body
  /\ \A w \in received' : w[1] = c =>
       /\ w = <<c, p.attempt>> /\ p.attempt > 0 /\ p.heard /\ p.stage \in {"reading", "done"}
       /\ p.result \in {"none", p.body, "SCENARIO_UNAVAILABLE"}
       /\ p.body # "none" => w \notin running'

\* Both preserve the invariant if the progress keeps the attempt and tells no more
\* than what happened.
LEMMA ProgressStep ==
  ASSUME PInv, NEW c \in Click, NEW p \in Made,
         Quiet(c, p) \/ \E attempt \in Nat : Ends(c, p, attempt),
         received' \in {received, received \cup {<<c, p.attempt>>}},
         p.attempt = click[c].attempt,
         p.stage \in {"idle", "stamped"} => p.attempt = 0,
         p.stage = "pausing" => p.attempt < Attempts(c),
         p.stage = "posting" => p.attempt > 0,
         Tells(c, p)
  PROVE  PInv'
<1>1. PType'
  <2>1. p.attempt \in Nat
    BY DEF Made
  <2>2. click' \in [Click -> Made] /\ now' \in Nat
    BY DEF PInv, PType, Quiet, Ends
  <2>3. running' \subseteq running /\ worked' \subseteq Known
    BY DEF Quiet, Ends, Known
  <2>4. received' \subseteq Click \X Nat
    BY <2>1 DEF PInv, PType
  <2> QED BY <2>2, <2>3, <2>4 DEF PInv, PType, Known
<1>2. click'[c] = p /\ \A d \in Click : d # c => click'[d] = click[d]
  BY DEF PInv, PType, Quiet, Ends
<1>3. \A d \in Click : click'[d].attempt = click[d].attempt
  BY <1>2
<1>4. /\ Known' \subseteq Known /\ worked \subseteq worked'
      /\ \A w \in worked' : w \in worked \/ w[1] = c
      /\ running' \subseteq running
      /\ (running \cap worked = {})'
  <2>1. running \cap worked = {}
    BY DEF PInv, AttemptsInOrder
  <2>2. CASE UNCHANGED <<running, worked>>
    BY <2>1, <2>2 DEF Known
  <2>3. ASSUME NEW attempt \in Nat, Ends(c, p, attempt)
        PROVE  /\ Known' \subseteq Known /\ worked \subseteq worked'
               /\ \A w \in worked' : w \in worked \/ w[1] = c
               /\ running' \subseteq running
               /\ (running \cap worked = {})'
    <3>1. PICK e : e = <<c, attempt>>
      OBVIOUS
    <3>2. e \in running /\ running' = running \ {e} /\ worked' \in {worked, worked \cup {e}}
      BY <2>3, <3>1 DEF Ends
    <3>3. e[1] = c
      BY <3>1
    <3> QED BY <2>1, <3>2, <3>3 DEF Known
  <2> QED BY <2>2, <2>3 DEF Quiet
<1>5. AttemptsInOrder'
  <2>1. \A d \in Click :
          /\ click'[d].attempt <= Attempts(d)
          /\ Untried(d)' => click'[d].attempt = 0
          /\ InStage(d, "pausing")' => click'[d].attempt < Attempts(d)
          /\ InStage(d, "posting")' => click'[d].attempt > 0
    BY <1>2, <1>3 DEF PInv, AttemptsInOrder, Untried, InStage
  <2>2. \A w \in Known : w[1] \in Click
    BY DEF PInv, PType, Known
  <2>3. \A w \in Known' : w[2] \in 1..click'[w[1]].attempt
    BY <1>3, <1>4, <2>2 DEF PInv, AttemptsInOrder
  <2>4. \A d \in Click : Attempts(d)' = Attempts(d)
    BY DEF Attempts
  <2> QED BY <1>4, <2>1, <2>3, <2>4 DEF AttemptsInOrder
<1>6. OpenClicksShowNothing'
  BY <1>2 DEF PInv, OpenClicksShowNothing, Tells, InStage
<1>7. BodiesHappened'
  BY <1>2, <1>4 DEF PInv, BodiesHappened, Tells
<1>8. ShowsItsBody'
  BY <1>2 DEF PInv, ShowsItsBody, Tells
<1>9. ReceivedAreHeard'
  <2>1. ASSUME NEW w \in received', w[1] = c
        PROVE  ReceivedAreHeard!(w)'
    BY <1>2, <2>1 DEF Tells
  <2>2. ASSUME NEW w \in received', w[1] # c
        PROVE  ReceivedAreHeard!(w)'
    <3>1. w \in received /\ w[1] \in Click
      BY <2>2 DEF PInv, PType
    <3> QED BY <1>2, <1>4, <2>2, <3>1 DEF PInv, ReceivedAreHeard
  <2> QED BY <2>1, <2>2 DEF ReceivedAreHeard
<1> QED BY <1>1, <1>5, <1>6, <1>7, <1>8, <1>9 DEF PInv

\* A step to a stage that tells nothing, by a click that waits.
LEMMA SilentStep ==
  ASSUME PInv, NEW c \in Click, ~ InStage(c, "reading"), ~ InStage(c, "done"),
         NEW p \in Made,
         Quiet(c, p) \/ \E attempt \in Nat : Ends(c, p, attempt),
         received' = received,
         p.attempt = click[c].attempt,
         p.stage \in {"idle", "stamped"} => p.attempt = 0,
         p.stage = "pausing" => p.attempt < Attempts(c),
         p.stage = "posting" => p.attempt > 0,
         p.body = click[c].body, p.heard = click[c].heard,
         p.result \notin {"ALLOW", "DENY"},
         p.stage # "done" => p.result = "none"
  PROVE  PInv'
<1>1. Tells(c, p)
  BY OpenClicksHeardNothing DEF Tells
<1> QED BY <1>1, ProgressStep

\* The Worker's own steps, each on one click that waits for it.
LEMMA HandleStep ==
  ASSUME PInv, NEW c \in Click, Handle(c)
  PROVE  PInv'
<1>1. click[c] \in Made /\ Attempts(c) \in Nat \ {0} /\ now \in Nat
  BY AttemptsPositive DEF PInv, PType
<1>2. CASE StampClick(c)
  <2> DEFINE p == [click[c] EXCEPT !.stage = "stamped", !.stamp = now]
  <2>1. Quiet(c, p) /\ InStage(c, "idle") /\ received' = received
    BY <1>2 DEF StampClick, Quiet, PInv, PType
  <2>2. /\ p \in Made /\ p.attempt = click[c].attempt /\ p.attempt = 0
        /\ p.stage = "stamped" /\ p.body = click[c].body /\ p.heard = click[c].heard
        /\ p.result = "none"
    BY <1>1, <2>1, OpenClicksHeardNothing
    DEF Made, Stage, InStage, PInv, AttemptsInOrder, Untried
  <2> HIDE DEF p
  <2> QED BY <2>1, <2>2, SilentStep DEF InStage
<1>3. CASE CountClick(c)
  <2>1. click[c].attempt = 0 /\ InStage(c, "stamped") /\ received' = received
    BY <1>3 DEF CountClick, PInv, AttemptsInOrder, Untried
  <2>2. CASE click' = [click EXCEPT ![c].stage = "pausing"]
    <3> DEFINE p == [click[c] EXCEPT !.stage = "pausing"]
    <3>1. Quiet(c, p)
      BY <1>3, <2>2 DEF CountClick, Quiet, PInv, PType
    <3>2. /\ p \in Made /\ p.attempt = 0 /\ p.stage = "pausing"
          /\ p.body = click[c].body /\ p.heard = click[c].heard /\ p.result = "none"
      BY <1>1, <2>1, OpenClicksHeardNothing DEF Made, Stage, InStage
    <3>3. 0 < Attempts(c)
      BY <1>1
    <3> HIDE DEF p
    <3> QED BY <2>1, <3>1, <3>2, <3>3, SilentStep DEF InStage
  <2>3. ASSUME NEW result \in {"RATE_LIMITED", "SCENARIO_UNAVAILABLE"}, Done(c, result)
        PROVE  PInv'
    <3> DEFINE p == [click[c] EXCEPT !.stage = "done", !.result = result]
    <3>1. Quiet(c, p)
      BY <1>3, <2>3 DEF CountClick, Quiet, Done, PInv, PType
    <3>2. /\ p \in Made /\ p.attempt = 0 /\ p.stage = "done" /\ p.result = result
          /\ p.body = click[c].body /\ p.heard = click[c].heard
      BY <1>1, <2>1 DEF Made, Stage, Result
    <3> HIDE DEF p
    <3> QED BY <2>1, <3>1, <3>2, SilentStep DEF InStage
  <2> QED BY <1>3, <2>2, <2>3 DEF CountClick
<1>4. CASE ConnectionFails(c) \/ TimeOut(c)
  <2>1. /\ InStage(c, "posting") /\ now' = now
        /\ UNCHANGED <<running, worked>> /\ received' = received
    BY <1>4 DEF ConnectionFails, TimeOut
  <2>2. CASE /\ click[c].attempt < Attempts(c)
             /\ click' = [click EXCEPT ![c].stage = "pausing"]
    <3> DEFINE p == [click[c] EXCEPT !.stage = "pausing"]
    <3>1. Quiet(c, p)
      BY <2>1, <2>2 DEF Quiet, PInv, PType
    <3>2. /\ p \in Made /\ p.attempt = click[c].attempt /\ p.stage = "pausing"
          /\ p.body = click[c].body /\ p.heard = click[c].heard /\ p.result = "none"
      BY <1>1, <2>1, OpenClicksHeardNothing DEF Made, Stage, InStage
    <3> HIDE DEF p
    <3> QED BY <2>1, <2>2, <3>1, <3>2, SilentStep DEF InStage
  <2>3. CASE Done(c, Failure(c, FALSE))
    <3> DEFINE p == [click[c] EXCEPT !.stage = "done", !.result = Failure(c, FALSE)]
    <3>1. Quiet(c, p)
      BY <2>1, <2>3 DEF Quiet, Done, PInv, PType
    <3>2. /\ p \in Made /\ p.attempt = click[c].attempt /\ p.stage = "done"
          /\ p.body = click[c].body /\ p.heard = click[c].heard
          /\ p.result \notin {"ALLOW", "DENY"}
      BY <1>1 DEF Made, Stage, Result, Failure
    <3> HIDE DEF p
    <3> QED BY <2>1, <3>1, <3>2, SilentStep DEF InStage
  <2> QED BY <1>4, <2>2, <2>3 DEF ConnectionFails, TimeOut, NotReady
<1>5. CASE Reject(c)
  <2> DEFINE p == [click[c] EXCEPT !.stage = "done", !.heard = TRUE,
                                   !.result = Failure(c, TRUE)]
  <2>1. /\ Quiet(c, p) /\ InStage(c, "posting")
        /\ received' = received \cup {<<c, click[c].attempt>>}
    BY <1>5 DEF Reject, Quiet, PInv, PType
  <2>2. /\ p \in Made /\ p.attempt = click[c].attempt /\ p.stage = "done" /\ p.heard
        /\ p.body = "none" /\ p.result = "SCENARIO_UNAVAILABLE" /\ p.attempt > 0
    BY <1>1, <2>1, OpenClicksHeardNothing
    DEF Made, Stage, Result, Failure, InStage, PInv, AttemptsInOrder
  <2> HIDE DEF p
  <2>3. \A w \in received' : w[1] = c => w = <<c, p.attempt>>
    BY <2>1, <2>2, OpenClicksHeardNothing DEF InStage
  <2>4. Tells(c, p)
    BY <2>2, <2>3 DEF Tells
  <2> QED BY <2>1, <2>2, <2>4, ProgressStep
<1>6. CASE Post(c)
  <2> DEFINE attempt == click[c].attempt + 1
  <2>1. /\ InStage(c, "pausing") /\ click[c].attempt < Attempts(c)
        /\ now' = now /\ worked' = worked /\ received' = received
        /\ running' \in {running, running \cup {<<c, attempt>>}}
    BY <1>6 DEF Post, PInv, AttemptsInOrder
  <2>2. /\ click'[c] = [click[c] EXCEPT !.stage = "posting", !.attempt = attempt]
        /\ \A d \in Click : d # c => click'[d] = click[d]
    BY <1>6 DEF Post, PInv, PType
  <2>3. /\ click[c].result = "none" /\ click[c].body = "none" /\ ~ click[c].heard
        /\ \A w \in received : w[1] # c
    BY <2>1, OpenClicksHeardNothing DEF InStage
  <2>4. /\ click[c].attempt \in Nat /\ attempt \in Nat /\ Attempts(c) \in Nat
        /\ click'[c] \in Made /\ click'[c].attempt = attempt
        /\ click'[c].stage = "posting" /\ click'[c].result = "none"
        /\ click'[c].body = "none" /\ ~ click'[c].heard
        /\ attempt <= Attempts(c) /\ click[c].attempt <= attempt /\ attempt > 0
    <3>1. /\ attempt \in Nat /\ click[c].attempt \in Nat /\ attempt > 0
          /\ click[c].attempt <= attempt
      BY <1>1 DEF Made
    <3>2. attempt <= Attempts(c)
      BY <1>1, <2>1, <3>1
    <3> HIDE DEF attempt
    <3>3. click'[c] \in Made /\ click'[c].attempt = attempt
      BY <1>1, <2>2, <3>1 DEF Made, Stage
    <3>4. /\ click'[c].stage = "posting" /\ click'[c].result = click[c].result
          /\ click'[c].body = click[c].body /\ click'[c].heard = click[c].heard
      BY <1>1, <2>2 DEF Made
    <3> QED BY <1>1, <2>3, <3>1, <3>2, <3>3, <3>4
  <2>5. PType'
    <3>1. click' \in [Click -> Made]
      BY <1>1, <1>6, <2>2, <2>4 DEF Post, PInv, PType
    <3> QED BY <1>1, <2>1, <3>1 DEF PInv, PType, Made
  <2>6. <<c, attempt>> \notin Known
    BY <1>1 DEF PInv, AttemptsInOrder, Made
  <2>7. AttemptsInOrder'
    <3>1. \A d \in Click : Attempts(d)' = Attempts(d)
      BY DEF Attempts
    <3>2. ASSUME NEW d \in Click
          PROVE  /\ click'[d].attempt <= Attempts(d)
                 /\ Untried(d)' => click'[d].attempt = 0
                 /\ InStage(d, "pausing")' => click'[d].attempt < Attempts(d)
                 /\ InStage(d, "posting")' => click'[d].attempt > 0
      <4>1. CASE d = c
        BY <2>4, <4>1 DEF Untried, InStage
      <4>2. CASE d # c
        BY <2>2, <4>2 DEF PInv, AttemptsInOrder, Untried, InStage
      <4> QED BY <4>1, <4>2
    <3>3. (running \cap worked = {})'
      BY <2>1, <2>6 DEF PInv, AttemptsInOrder, Known
    <3>4. ASSUME NEW w \in Known' PROVE w[2] \in 1..click'[w[1]].attempt
      <4>1. CASE w = <<c, attempt>>
        BY <2>4, <4>1
      <4>2. CASE w \in Known
        <5>1. w[1] \in Click /\ w[2] \in 1..click[w[1]].attempt
          BY <4>2 DEF PInv, PType, AttemptsInOrder, Known
        <5>2. CASE w[1] = c
          <6> HIDE DEF attempt
          <6>1. w[2] \in 1..attempt
            BY <2>4, <5>1, <5>2
          <6> QED BY <2>4, <5>2, <6>1
        <5>3. CASE w[1] # c
          BY <2>2, <5>1, <5>3
        <5> QED BY <5>2, <5>3
      <4> QED BY <2>1, <3>4, <4>1, <4>2 DEF Known
    <3> QED BY <3>1, <3>2, <3>3, <3>4 DEF AttemptsInOrder
  <2>8. OpenClicksShowNothing' /\ ShowsItsBody'
    <3>1. ASSUME NEW d \in Click
          PROVE  /\ ~ InStage(d, "done")' => click'[d].result = "none"
                 /\ ~ InStage(d, "done")' /\ ~ InStage(d, "reading")' =>
                      click'[d].body = "none" /\ ~ click'[d].heard
                 /\ click'[d].result \in {"ALLOW", "DENY"} =>
                      click'[d].result = click'[d].body
      <4>1. CASE d = c
        BY <2>4, <4>1
      <4>2. CASE d # c
        BY <2>2, <4>2 DEF PInv, OpenClicksShowNothing, ShowsItsBody, InStage
      <4> QED BY <4>1, <4>2
    <3> QED BY <3>1 DEF OpenClicksShowNothing, ShowsItsBody
  <2>9. \A d \in Click : d # c => \A w : w[1] = d => (w \in running' <=> w \in running)
    BY <2>1
  <2>10. BodiesHappened'
    BY <2>1, <2>2, <2>4, <2>9 DEF PInv, BodiesHappened
  <2>11. ReceivedAreHeard'
    <3>1. \A w \in received : w[1] \in Click
      BY DEF PInv, PType
    <3> QED BY <2>1, <2>2, <2>3, <2>9, <3>1 DEF PInv, ReceivedAreHeard
  <2> QED BY <2>5, <2>7, <2>8, <2>10, <2>11 DEF PInv
<1>7. ASSUME InStage(c, "reading"), NEW result \in {click[c].body, "SCENARIO_UNAVAILABLE",
             Failure(c, click[c].heard)}, Done(c, result), now' = now,
             UNCHANGED <<running, worked, received>>
      PROVE  PInv'
  <2> DEFINE p == [click[c] EXCEPT !.stage = "done", !.result = result]
  <2>1. Quiet(c, p)
    BY <1>7 DEF Done, Quiet, PInv, PType
  <2>2. /\ p \in Made /\ p.attempt = click[c].attempt /\ p.stage = "done"
        /\ p.body = click[c].body /\ p.heard = click[c].heard /\ p.result = result
    BY <1>1, <1>7 DEF Made, Stage, Body, Result, Failure
  <2> HIDE DEF p
  <2>3. \A w \in received : w[1] = c =>
          /\ w = <<c, p.attempt>> /\ p.attempt > 0 /\ p.heard
          /\ p.result \in {"none", p.body, "SCENARIO_UNAVAILABLE"}
          /\ p.body # "none" => w \notin running
    BY <1>7, <2>2 DEF PInv, PType, ReceivedAreHeard, Failure
  <2>4. Tells(c, p)
    BY <1>7, <2>2, <2>3 DEF Tells, PInv, BodiesHappened, Failure
  <2> QED BY <1>7, <2>1, <2>2, <2>4, ProgressStep
<1>8. CASE Read(c)
  BY <1>7, <1>8 DEF Read, Show, Spoil
<1> QED BY <1>2, <1>3, <1>4, <1>5, <1>6, <1>8 DEF Handle

\* The runtime's steps.
LEMMA ChatStep ==
  ASSUME PInv, NEW c \in Click, Chat(c)
  PROVE  PInv'
<1>1. click[c] \in Made /\ Attempts(c) \in Nat \ {0}
  BY AttemptsPositive DEF PInv, PType
<1>2. PICK attempt \in Attempt :
        \/ \E decision \in {"ALLOW", "DENY"} : Decide(c, attempt, decision)
        \/ Break(c, attempt)
  BY DEF Chat
<1>3. attempt \in Nat
  BY <1>2, ProxyAssumption DEF Attempt
<1>4. \A p : click' = [click EXCEPT ![c] = p] => Ends(c, p, attempt)
  BY <1>2 DEF Ends, Decide, Break
<1>5. CASE UNCHANGED <<click, received>>
  <2> DEFINE p == click[c]
  <2>1. Ends(c, p, attempt)
    BY <1>4, <1>5 DEF PInv, PType
  <2>2. \A e : /\ e \in worked => e \in worked'
               /\ e \notin running => e \notin running' /\ (e \in worked' => e \in worked)
    BY <2>1 DEF Ends
  <2> HIDE DEF p
  <2>3. p = click[c]
    BY DEF p
  <2>4. \A w \in received' : w[1] = c =>
          /\ w = <<c, p.attempt>> /\ p.attempt > 0 /\ p.heard /\ p.stage \in {"reading", "done"}
          /\ p.result \in {"none", p.body, "SCENARIO_UNAVAILABLE"}
          /\ p.body # "none" => w \notin running'
    BY <1>5, <2>2, <2>3 DEF PInv, PType, ReceivedAreHeard
  <2>5. Tells(c, p)
    BY <2>2, <2>3, <2>4
    DEF Tells, PInv, OpenClicksShowNothing, BodiesHappened, ShowsItsBody, InStage
  <2>6. /\ p.stage \in {"idle", "stamped"} => p.attempt = 0
        /\ p.stage = "pausing" => p.attempt < Attempts(c)
        /\ p.stage = "posting" => p.attempt > 0
    BY <2>3 DEF PInv, AttemptsInOrder, Untried, InStage
  <2> QED BY <1>1, <1>3, <1>5, <2>1, <2>3, <2>5, <2>6, ProgressStep
<1>6. ASSUME NEW decision \in {"ALLOW", "DENY"}, Decide(c, attempt, decision),
             Waits(c, attempt)
      PROVE  PInv'
  <2> DEFINE p == [click[c] EXCEPT !.stage = "reading", !.heard = TRUE, !.body = decision]
  <2>1. /\ Ends(c, p, attempt) /\ received' = received \cup {<<c, attempt>>}
    BY <1>1, <1>4, <1>6 DEF Decide, Hear, PInv, PType
  <2>2. click[c].attempt = attempt /\ InStage(c, "posting")
    BY <1>6 DEF Waits
  <2>3. <<c, attempt>> \notin running' /\ <<c, attempt>> \notin worked
    BY <1>6 DEF Decide, PInv, AttemptsInOrder
  <2>4. /\ decision = "ALLOW" => <<c, attempt>> \in worked'
        /\ decision = "DENY" /\ <<c, attempt>> \in worked' => c \in Replaying
    BY <1>6, <2>3 DEF Decide
  <2>5. /\ p \in Made /\ p.attempt = attempt /\ p.body = decision /\ p.heard
        /\ p.stage = "reading" /\ p.result = "none" /\ p.attempt > 0
    BY <1>1, <1>6, <2>2, OpenClicksHeardNothing
    DEF Made, Stage, Body, Result, InStage, PInv, AttemptsInOrder
  <2> HIDE DEF p
  <2>6. \A w \in received' : w[1] = c => w = <<c, p.attempt>>
    BY <2>1, <2>2, <2>5, OpenClicksHeardNothing DEF InStage
  <2>7. Tells(c, p)
    BY <2>3, <2>4, <2>5, <2>6 DEF Tells
  <2> QED BY <1>3, <2>1, <2>2, <2>5, <2>7, ProgressStep
<1>7. CASE Break(c, attempt) /\ Waits(c, attempt)
  <2>1. InStage(c, "posting") /\ NotReady(c) /\ received' = received
    BY <1>7 DEF Break, Waits
  <2>2. CASE /\ click[c].attempt < Attempts(c)
             /\ click' = [click EXCEPT ![c].stage = "pausing"]
    <3> DEFINE p == [click[c] EXCEPT !.stage = "pausing"]
    <3>1. Ends(c, p, attempt)
      BY <1>4, <2>2 DEF PInv, PType
    <3>2. /\ p \in Made /\ p.attempt = click[c].attempt /\ p.stage = "pausing"
          /\ p.body = click[c].body /\ p.heard = click[c].heard /\ p.result = "none"
      BY <1>1, <2>1, OpenClicksHeardNothing DEF Made, Stage, InStage
    <3> HIDE DEF p
    <3> QED BY <1>3, <2>1, <2>2, <3>1, <3>2, SilentStep DEF InStage
  <2>3. CASE Done(c, Failure(c, FALSE))
    <3> DEFINE p == [click[c] EXCEPT !.stage = "done", !.result = Failure(c, FALSE)]
    <3>1. Ends(c, p, attempt)
      BY <1>4, <2>3 DEF Done, PInv, PType
    <3>2. /\ p \in Made /\ p.attempt = click[c].attempt /\ p.stage = "done"
          /\ p.body = click[c].body /\ p.heard = click[c].heard
          /\ p.result \notin {"ALLOW", "DENY"}
      BY <1>1 DEF Made, Stage, Result, Failure
    <3> HIDE DEF p
    <3> QED BY <1>3, <2>1, <3>1, <3>2, SilentStep DEF InStage
  <2> QED BY <2>1, <2>2, <2>3 DEF NotReady
<1> QED BY <1>2, <1>5, <1>6, <1>7 DEF Decide, Break

LEMMA PInvStep == PInv /\ [Next]_vars => PInv'
<1> SUFFICES ASSUME PInv, [Next]_vars PROVE PInv'
  OBVIOUS
<1>1. CASE \E c \in Click : Handle(c) \/ Chat(c)
  BY <1>1, HandleStep, ChatStep
<1>2. CASE Tick \/ UNCHANGED vars
  BY <1>2
  DEF Tick, vars, PInv, PType, AttemptsInOrder, OpenClicksShowNothing, BodiesHappened,
      ShowsItsBody, ReceivedAreHeard, Untried, Known, InStage, Attempts
<1> QED BY <1>1, <1>2 DEF Next

\* The inductive invariant of the proxy: attempts are made one after the other, a
\* click tells nothing before the headers of a response came, and the body it then
\* reads is the decision of the attempt it waited for.
THEOREM PInvCorrect == Spec => []PInv
BY PInvInit, PInvStep, PTL DEF Spec

\* A decision shown as live is the one the runtime took in the attempt waited for,
\* however many earlier attempts broke or still run; a DENY has a work order only in
\* the replay scenario.
THEOREM ShownDecisionsHappened == Spec => []LiveDecisionsHappened
<1>1. PInv => LiveDecisionsHappened
  BY DEF PInv, BodiesHappened, ShowsItsBody, LiveDecisionsHappened
<1> QED BY PInvCorrect, <1>1, PTL

\* A response below 500 stands from its headers on: no attempt follows it, and the
\* click ends with its decision or with an error.
THEOREM ReceivedAnswersStand == Spec => []AnswersStand
<1>1. PInv => AnswersStand
  BY DEF PInv, ReceivedAreHeard, AnswersStand
<1> QED BY PInvCorrect, <1>1, PTL

\* A hosted click makes at most as many work orders as it has attempts.
THEOREM HostedRunsAreBounded == Spec => []HostedClicksRunOnce
<1>1. ASSUME PInv PROVE HostedClicksRunOnce
  <2> SUFFICES ASSUME NEW c \in Hosted
               PROVE  Cardinality({w \in worked : w[1] = c}) <= HostedAttempts
    BY DEF HostedClicksRunOnce
  <2> DEFINE S == {w \in worked : w[1] = c}
             T == 1..HostedAttempts
  <2>1. c \in Click /\ HostedAttempts \in Nat
    BY ProxyAssumption
  <2>2. \A w \in S : w = <<c, w[2]>> /\ w[2] \in T
    <3> SUFFICES ASSUME NEW w \in S PROVE w = <<c, w[2]>> /\ w[2] \in T
      OBVIOUS
    <3>1. w \in Click \X Nat /\ w[2] \in 1..click[c].attempt
      BY <1>1 DEF PInv, PType, AttemptsInOrder, Known
    <3>2. click[c].attempt \in Nat /\ click[c].attempt <= HostedAttempts
      BY <1>1, <2>1 DEF PInv, PType, Made, AttemptsInOrder, Attempts
    <3> QED BY <2>1, <3>1, <3>2
  <2>3. IsFiniteSet(T) /\ Cardinality(T) = HostedAttempts
    BY <2>1, FS_Interval
  <2> DEFINE f == [w \in S |-> w[2]]
  <2>4. f \in Injection(S, T)
    BY <2>2 DEF Injection, IsInjective
  <2> HIDE DEF S, T, f
  <2>5. Cardinality(S) <= Cardinality(T)
    BY <2>3, <2>4, FS_Injection
  <2> QED BY <2>3, <2>5 DEF S
<1> QED BY PInvCorrect, <1>1, PTL
-----------------------------------------------------------------------------
(***************************************************************************)
(* The budget.  A click that the limiter admitted has a hit of its own     *)
(* among the admitted calls, so there are no more of the one than of the   *)
(* other.                                                                  *)
(***************************************************************************)
Budget == INSTANCE LimiterProofs WITH MaxStamp <- MaxTime

\* The clicks that came through the limiter.
Counted ==
  {c \in Click : \/ InStage(c, "pausing") \/ InStage(c, "posting") \/ InStage(c, "reading")
                \/ click[c].attempt > 0}

InTime == now \in 0..MaxTime /\ \A c \in Click : click[c].stamp \in 0..MaxTime

OwnHits ==
  \E f \in [Counted -> admitted] :
    /\ \A c \in Counted : f[c].stamp = click[c].stamp /\ f[c].client = From[c]
    /\ \A c, d \in Counted : f[c] = f[d] => c = d

BInv == PInv /\ Budget!LInv /\ InTime /\ OwnHits

LEMMA SameCount == \A S : Budget!Cardinality(S) = Cardinality(S)
BY DEF Budget!Cardinality, Cardinality

LEMMA BudgetAssumption == Budget!LimiterAssumption
BY ProxyAssumption DEF Budget!LimiterAssumption

\* The limiter that the proxy calls is the one the limiter's theorems are about.
LEMMA SameLimiter ==
  /\ Limiter!Init <=> Budget!Init
  /\ \A c \in Client, s \in 0..MaxTime :
       /\ Limiter!Admit(c, s) <=> Budget!Admit(c, s)
       /\ Limiter!Refuse(c, s) <=> Budget!Refuse(c, s)
<1>1. \A S : Limiter!Cardinality(S) = Budget!Cardinality(S)
  BY DEF Limiter!Cardinality, Budget!Cardinality
<1>2. \A hits, c : Limiter!Of(hits, c) = Budget!Of(hits, c)
  BY DEF Limiter!Of, Budget!Of
<1>3. \A hits, s : Limiter!Trim(hits, s) = Budget!Trim(hits, s)
  BY DEF Limiter!Trim, Budget!Trim
<1>4. \A c, s : Limiter!OverBudget(c, s) = Budget!OverBudget(c, s)
  BY <1>1, <1>2, <1>3 DEF Limiter!OverBudget, Budget!OverBudget
<1>5. \A c, s : Limiter!Call(c, s) = Budget!Call(c, s)
  BY <1>1, <1>2 DEF Limiter!Call, Budget!Call
<1>6. \A s : Limiter!Seen(s) = Budget!Seen(s)
  BY DEF Limiter!Seen, Budget!Seen
<1>7. Limiter!Init <=> Budget!Init
  BY DEF Limiter!Init, Budget!Init
<1>8. ASSUME NEW c, NEW s
      PROVE  /\ Limiter!Admit(c, s) <=> Budget!Admit(c, s)
             /\ Limiter!Refuse(c, s) <=> Budget!Refuse(c, s)
  BY <1>3, <1>4, <1>5, <1>6
  DEF Limiter!Admit, Budget!Admit, Limiter!Refuse, Budget!Refuse
<1> QED BY <1>7, <1>8

\* Clicks that were counted stay on their hits; one that leaves gives its hit up.
LEMMA HitsKept ==
  ASSUME OwnHits, Counted' \subseteq Counted, admitted \subseteq admitted',
         \A c \in Counted' : click'[c].stamp = click[c].stamp
  PROVE  OwnHits'
<1>1. PICK f \in [Counted -> admitted] :
        /\ \A c \in Counted : f[c].stamp = click[c].stamp /\ f[c].client = From[c]
        /\ \A c, d \in Counted : f[c] = f[d] => c = d
  BY DEF OwnHits
<1> DEFINE g == [c \in Counted' |-> f[c]]
<1>2. g \in [Counted' -> admitted']
  BY <1>1
<1>3. \A c \in Counted' : g[c].stamp = click'[c].stamp /\ g[c].client = From[c]
  BY <1>1
<1>4. \A c, d \in Counted' : g[c] = g[d] => c = d
  BY <1>1
<1> HIDE DEF g
<1> QED BY <1>2, <1>3, <1>4 DEF OwnHits

\* A click that the limiter admits gets the new hit.
LEMMA HitGiven ==
  ASSUME OwnHits, NEW c \in Click, c \notin Counted, Counted' = Counted \cup {c},
         NEW x, x \notin admitted, admitted' = admitted \cup {x},
         x.stamp = click'[c].stamp, x.client = From[c],
         \A d \in Counted : click'[d].stamp = click[d].stamp
  PROVE  OwnHits'
<1>1. PICK f \in [Counted -> admitted] :
        /\ \A d \in Counted : f[d].stamp = click[d].stamp /\ f[d].client = From[d]
        /\ \A d, e \in Counted : f[d] = f[e] => d = e
  BY DEF OwnHits
<1> DEFINE g == [d \in Counted' |-> IF d = c THEN x ELSE f[d]]
<1>2. g \in [Counted' -> admitted'] /\ g[c] = x /\ \A d \in Counted : g[d] = f[d]
  BY <1>1
<1> HIDE DEF g
<1>3. \A d \in Counted' : g[d].stamp = click'[d].stamp /\ g[d].client = From[d]
  BY <1>1, <1>2
<1>4. \A d, e \in Counted' : g[d] = g[e] => d = e
  BY <1>1, <1>2
<1> QED BY <1>2, <1>3, <1>4 DEF OwnHits

LEMMA BInvInit == Init => BInv
<1> SUFFICES ASSUME Init PROVE BInv
  OBVIOUS
<1>1. PInv
  BY PInvInit
<1>2. Budget!LInv
  BY SameLimiter, BudgetAssumption, Budget!LInvInit DEF Init
<1>3. InTime
  BY ProxyAssumption DEF Init, InTime
<1>4. OwnHits
  <2>1. Counted = {}
    BY DEF Init, Counted, InStage
  <2> DEFINE f == [c \in {} |-> c]
  <2>2. f \in [Counted -> admitted]
    BY <2>1
  <2> HIDE DEF f
  <2> QED BY <2>1, <2>2 DEF OwnHits
<1> QED BY <1>1, <1>2, <1>3, <1>4 DEF BInv

\* A step that gives one click new progress without counting it.
Stays(c) ==
  /\ \A d \in Click : d # c => click'[d] = click[d]
  /\ click'[c].stamp \in {click[c].stamp, now}
  /\ c \in Counted' => c \in Counted /\ click'[c].stamp = click[c].stamp
  /\ now' = now

LEMMA StaysKeepsBInv ==
  ASSUME BInv, PInv', Budget!LInv', NEW c \in Click, Stays(c), admitted \subseteq admitted'
  PROVE  BInv'
<1>1. InTime'
  BY DEF BInv, InTime, Stays
<1>2. \A d \in Counted' : d \in Counted /\ click'[d].stamp = click[d].stamp
  BY DEF Stays, Counted, InStage
<1>3. OwnHits'
  BY <1>2, HitsKept DEF BInv
<1> QED BY <1>1, <1>3 DEF BInv

LEMMA LimiterKeepsLInv ==
  ASSUME Budget!LInv,
         \/ UNCHANGED <<global, clients, admitted, latest>>
         \/ \E k \in Client, s \in 0..MaxTime : Limiter!Admit(k, s) \/ Limiter!Refuse(k, s)
  PROVE  Budget!LInv' /\ admitted \subseteq admitted'
<1>1. [Budget!Next]_(Budget!limiter)
  BY SameLimiter DEF Budget!Next, Budget!limiter, Budget!Stamp
<1>2. admitted \subseteq admitted'
  BY DEF Limiter!Admit, Limiter!Refuse
<1> QED BY <1>1, <1>2, BudgetAssumption, Budget!LInvStep

\* The limiter's answer, or its failure.
LEMMA CountKeepsBInv ==
  ASSUME BInv, PInv', NEW c \in Click, CountClick(c)
  PROVE  BInv'
<1>1. /\ From[c] \in Client /\ click[c].stamp \in 0..MaxTime
      /\ click[c].attempt = 0 /\ InStage(c, "stamped") /\ now' = now
  BY ProxyAssumption
  DEF CountClick, BInv, InTime, PInv, AttemptsInOrder, Untried
<1>2. Budget!LInv' /\ admitted \subseteq admitted'
  BY <1>1, LimiterKeepsLInv DEF CountClick, BInv
<1>3. c \notin Counted
  BY <1>1 DEF Counted, InStage
<1>4. ASSUME NEW result, Done(c, result) PROVE BInv'
  <2>1. /\ click'[c].stage = "done" /\ click'[c].attempt = 0
        /\ click'[c].stamp = click[c].stamp
        /\ \A d \in Click : d # c => click'[d] = click[d]
    BY <1>1, <1>4 DEF Done, BInv, PInv, PType
  <2>2. Stays(c)
    BY <1>1, <2>1 DEF Stays, Counted, InStage
  <2> QED BY <1>2, <2>2, StaysKeepsBInv
<1>5. ASSUME Limiter!Admit(From[c], click[c].stamp),
             click' = [click EXCEPT ![c].stage = "pausing"]
      PROVE  BInv'
  <2> DEFINE x == Budget!Call(From[c], click[c].stamp)
  <2>1. Budget!Admit(From[c], click[c].stamp)
    BY <1>1, <1>5, SameLimiter
  <2>2. admitted' = admitted \cup {x}
    BY <2>1 DEF Budget!Admit
  <2>3. x \notin admitted /\ x.client = From[c] /\ x.stamp = click[c].stamp
    BY <1>1, Budget!CallIsNew, BudgetAssumption DEF BInv, Budget!Stamp
  <2>4. /\ click'[c].stage = "pausing" /\ click'[c].stamp = click[c].stamp
        /\ \A d \in Click : d # c => click'[d] = click[d]
    BY <1>5 DEF BInv, PInv, PType
  <2>5. Counted' = Counted \cup {c}
    BY <1>3, <2>4 DEF Counted, InStage
  <2> HIDE DEF x
  <2>6. \A d \in Counted : click'[d].stamp = click[d].stamp
    BY <1>3, <2>4 DEF Counted
  <2>7. OwnHits'
    BY <1>3, <2>2, <2>3, <2>4, <2>5, <2>6, HitGiven DEF BInv
  <2>8. InTime'
    BY <1>1, <2>4 DEF BInv, InTime
  <2> QED BY <1>2, <2>7, <2>8 DEF BInv
<1> QED BY <1>4, <1>5 DEF CountClick

LEMMA BInvStep == BInv /\ [Next]_vars => BInv'
<1> SUFFICES ASSUME BInv, [Next]_vars PROVE BInv'
  OBVIOUS
<1>1. PInv'
  BY PInvStep DEF BInv
<1>2. ASSUME UNCHANGED <<global, clients, admitted, latest>>
      PROVE  Budget!LInv' /\ admitted \subseteq admitted'
  BY <1>2, LimiterKeepsLInv DEF BInv
<1>3. ASSUME NEW c \in Click, StampClick(c) PROVE BInv'
  <2>1. /\ InStage(c, "idle") /\ click[c].attempt = 0 /\ now' = now
        /\ click' = [click EXCEPT ![c].stage = "stamped", ![c].stamp = now]
        /\ UNCHANGED <<global, clients, admitted, latest>>
    BY <1>3 DEF StampClick, BInv, PInv, AttemptsInOrder, Untried
  <2>2. /\ click'[c].stage = "stamped" /\ click'[c].stamp = now /\ click'[c].attempt = 0
        /\ \A d \in Click : d # c => click'[d] = click[d]
    BY <2>1 DEF BInv, PInv, PType
  <2>3. c \notin Counted'
    BY <2>2 DEF Counted, InStage
  <2>4. Stays(c)
    BY <2>1, <2>2, <2>3 DEF Stays
  <2> QED BY <1>1, <1>2, <2>1, <2>4, StaysKeepsBInv
<1>4. ASSUME NEW c \in Click, Post(c) PROVE BInv'
  <2>1. /\ InStage(c, "pausing") /\ now' = now
        /\ click' = [click EXCEPT ![c].stage = "posting",
                                  ![c].attempt = click[c].attempt + 1]
        /\ UNCHANGED <<global, clients, admitted, latest>>
    BY <1>4 DEF Post
  <2>2. /\ click'[c].stamp = click[c].stamp
        /\ \A d \in Click : d # c => click'[d] = click[d]
    BY <2>1 DEF BInv, PInv, PType
  <2>3. Stays(c)
    BY <2>1, <2>2 DEF Stays, Counted
  <2> QED BY <1>1, <1>2, <2>1, <2>3, StaysKeepsBInv
<1>5. ASSUME NEW c \in Click, c \in Counted, NEW p,
             p.stamp = click[c].stamp, click' = [click EXCEPT ![c] = p], now' = now,
             UNCHANGED <<global, clients, admitted, latest>>
      PROVE  BInv'
  <2>1. click'[c] = p /\ \A d \in Click : d # c => click'[d] = click[d]
    BY <1>5 DEF BInv, PInv, PType
  <2>2. Stays(c)
    BY <1>5, <2>1 DEF Stays
  <2> QED BY <1>1, <1>2, <1>5, <2>2, StaysKeepsBInv
<1>6. ASSUME NEW c \in Click, c \in Counted, now' = now,
             UNCHANGED <<global, clients, admitted, latest>>,
             NotReady(c) \/ \E result : Done(c, result)
      PROVE  BInv'
  <2>1. CASE click' = [click EXCEPT ![c].stage = "pausing"]
    <3> DEFINE p == [click[c] EXCEPT !.stage = "pausing"]
    <3>1. p.stamp = click[c].stamp /\ click' = [click EXCEPT ![c] = p]
      BY <2>1 DEF BInv, PInv, PType
    <3> HIDE DEF p
    <3> QED BY <1>5, <1>6, <3>1
  <2>2. ASSUME NEW result, Done(c, result) PROVE BInv'
    <3> DEFINE p == [click[c] EXCEPT !.stage = "done", !.result = result]
    <3>1. p.stamp = click[c].stamp /\ click' = [click EXCEPT ![c] = p]
      BY <2>2 DEF Done, BInv, PInv, PType, Made
    <3> HIDE DEF p
    <3> QED BY <1>5, <1>6, <3>1
  <2> QED BY <1>6, <2>1, <2>2 DEF NotReady
<1>7. CASE UNCHANGED click /\ now' \in 0..MaxTime /\
           UNCHANGED <<global, clients, admitted, latest>>
  <2>1. InTime'
    BY <1>7 DEF BInv, InTime
  <2>2. Counted' = Counted
    BY <1>7 DEF Counted, InStage
  <2>3. OwnHits'
    BY <1>7, <2>2, HitsKept DEF BInv
  <2> QED BY <1>1, <1>2, <1>7, <2>1, <2>3 DEF BInv
<1>8. ASSUME NEW c \in Click, Handle(c) PROVE BInv'
  <2>1. CASE ConnectionFails(c) \/ TimeOut(c)
    <3>1. c \in Counted
      BY <2>1 DEF ConnectionFails, TimeOut, Counted
    <3> QED BY <1>6, <2>1, <3>1 DEF ConnectionFails, TimeOut
  <2>2. CASE Reject(c)
    <3>1. c \in Counted
      BY <2>2 DEF Reject, Counted
    <3> DEFINE p == [click[c] EXCEPT !.stage = "done", !.heard = TRUE,
                                     !.result = Failure(c, TRUE)]
    <3>2. p.stamp = click[c].stamp /\ click' = [click EXCEPT ![c] = p]
      BY <2>2 DEF Reject, BInv, PInv, PType, Made
    <3>3. now' = now /\ UNCHANGED <<global, clients, admitted, latest>>
      BY <2>2 DEF Reject
    <3> HIDE DEF p
    <3> QED BY <1>5, <3>1, <3>2, <3>3
  <2>3. CASE Read(c)
    <3>1. c \in Counted
      BY <2>3 DEF Read, Show, Spoil, Counted, BInv, PInv, AttemptsInOrder
    <3> QED BY <1>6, <2>3, <3>1 DEF Read, Show, Spoil
  <2> QED BY <1>1, <1>3, <1>4, <1>8, <2>1, <2>2, <2>3, CountKeepsBInv DEF Handle
<1>9. ASSUME NEW c \in Click, Chat(c) PROVE BInv'
  <2>1. PICK attempt \in Attempt :
          \/ \E decision \in {"ALLOW", "DENY"} : Decide(c, attempt, decision)
          \/ Break(c, attempt)
    BY <1>9 DEF Chat
  <2>2. now' = now /\ UNCHANGED <<global, clients, admitted, latest>>
    BY <2>1 DEF Decide, Break
  <2>3. CASE UNCHANGED click
    BY <1>7, <2>2, <2>3 DEF BInv, InTime
  <2>4. ASSUME NEW decision \in {"ALLOW", "DENY"}, Decide(c, attempt, decision),
               Waits(c, attempt)
        PROVE  BInv'
    <3>1. c \in Counted
      BY <2>4 DEF Waits, Counted
    <3> DEFINE p == [click[c] EXCEPT !.stage = "reading", !.heard = TRUE,
                                     !.body = decision]
    <3>2. Hear(c, decision)
      BY <2>4 DEF Decide
    <3>3. p.stamp = click[c].stamp /\ click' = [click EXCEPT ![c] = p]
      BY <3>2 DEF Hear, BInv, PInv, PType, Made
    <3> HIDE DEF p
    <3> QED BY <1>5, <2>2, <3>1, <3>3
  <2>5. CASE Break(c, attempt) /\ Waits(c, attempt)
    <3>1. c \in Counted
      BY <2>5 DEF Waits, Counted
    <3> QED BY <1>6, <2>2, <2>5, <3>1 DEF Break
  <2> QED BY <2>1, <2>3, <2>4, <2>5 DEF Decide, Break
<1>10. CASE Tick \/ UNCHANGED vars
  <2>1. /\ UNCHANGED click /\ now' \in 0..MaxTime
        /\ UNCHANGED <<global, clients, admitted, latest>>
    BY <1>10, ProxyAssumption DEF Tick, vars, BInv, InTime
  <2> QED BY <1>7, <2>1
<1> QED BY <1>8, <1>9, <1>10 DEF Next

\* The inductive invariant of the budget: the limiter's own, and a hit for every
\* click that came through it.
THEOREM BInvCorrect == Spec => []BInv
BY BInvInit, BInvStep, PTL DEF Spec

\* In no window, shorter than the nominal one by the skew, do more clicks than the
\* global budget reach a runtime: the limiter failing, stamps arriving late and clicks
\* retrying included.
THEOREM RunsStayBudgeted == Spec => []RunsAreBudgeted
<1>1. ASSUME BInv PROVE RunsAreBudgeted
  <2> SUFFICES ASSUME NEW s \in 0..MaxTime
               PROVE  Cardinality({c \in Click :
                        /\ click[c].attempt > 0
                        /\ s - (Window - Skew) < click[c].stamp
                        /\ click[c].stamp <= s}) <= GlobalLimit
    BY DEF RunsAreBudgeted
  <2> DEFINE R == {c \in Click :
                     /\ click[c].attempt > 0
                     /\ s - (Window - Skew) < click[c].stamp /\ click[c].stamp <= s}
             T == {h \in admitted : s - (Window - Skew) < h.stamp /\ h.stamp <= s}
  <2>1. PICK f \in [Counted -> admitted] :
          /\ \A c \in Counted : f[c].stamp = click[c].stamp
          /\ \A c, d \in Counted : f[c] = f[d] => c = d
    BY <1>1 DEF BInv, OwnHits
  <2>2. IsFiniteSet(T)
    <3>1. IsFiniteSet(admitted)
      BY <1>1 DEF BInv, Budget!LInv, Budget!IsFiniteSet, IsFiniteSet
    <3> QED BY <3>1, FS_Subset
  <2>3. Cardinality(T) <= GlobalLimit
    BY <1>1, SameCount DEF BInv, Budget!LInv, Budget!LimitedUpToSkew, Budget!Stamp
  <2> DEFINE g == [c \in R |-> f[c]]
  <2>4. g \in Injection(R, T)
    <3>1. \A c \in R : c \in Counted /\ f[c] \in T
      BY <2>1 DEF Counted
    <3> HIDE DEF R, T
    <3> QED BY <2>1, <3>1 DEF Injection, IsInjective
  <2> HIDE DEF R, T, g
  <2>5. Cardinality(R) <= Cardinality(T) /\ Cardinality(R) \in Nat /\ Cardinality(T) \in Nat
    BY <2>2, <2>4, FS_Injection, FS_CardinalityType
  <2>6. GlobalLimit \in Nat
    BY ProxyAssumption
  <2>7. Cardinality(R) <= GlobalLimit
    BY <2>3, <2>5, <2>6
  <2> QED BY <2>7 DEF R
<1> QED BY BInvCorrect, <1>1, PTL

\* Within the proxy the limiter is what ScenarioLimiter says it is: the proxy touches
\* its hits only through its transaction.
THEOREM LimiterInsideProxy == Spec => Limiter!Spec
<1>1. Init => Limiter!Init
  BY DEF Init
<1>2. BInv /\ [Next]_vars => [Limiter!Next]_(Limiter!limiter)
  <2> SUFFICES ASSUME BInv, [Next]_vars, ~ UNCHANGED <<global, clients, admitted, latest>>
               PROVE  Limiter!Next
    BY DEF Limiter!limiter
  <2>1. PICK c \in Click : CountClick(c)
    BY DEF Next, Handle, Chat, StampClick, Post, ConnectionFails, TimeOut, Reject, Read,
           Show, Spoil, Decide, Break, Tick, vars
  <2>2. From[c] \in Client /\ click[c].stamp \in Limiter!Stamp
    BY ProxyAssumption DEF BInv, InTime, Limiter!Stamp
  <2>3. Limiter!Admit(From[c], click[c].stamp) \/ Limiter!Refuse(From[c], click[c].stamp)
    BY <2>1 DEF CountClick
  <2> QED BY <2>2, <2>3 DEF Limiter!Next
<1> QED BY <1>1, <1>2, BInvCorrect, PTL DEF Spec, Limiter!Spec

\* The proxy's variables keep their types: attempts stay within those allowed.
THEOREM ProxyTypeCorrect == Spec => []ProxyTypeOK
<1>1. ASSUME BInv PROVE ProxyTypeOK
  <2>1. Limiter!LimiterTypeOK
    BY <1>1 DEF BInv, Budget!LInv, Budget!LimiterTypeOK, Limiter!LimiterTypeOK,
                Budget!Hit, Limiter!Hit, Budget!Stamp, Limiter!Stamp
  <2>2. \A c \in Click : /\ click[c].attempt \in Nat
                         /\ click[c].attempt <= Attempts(c)
                         /\ Attempts(c) \in Attempt
    BY <1>1, ProxyAssumption
    DEF BInv, PInv, PType, Made, AttemptsInOrder, Attempts, Attempt
  <2>3. \A c \in Click : click[c].attempt \in Attempt \cup {0}
    BY <2>2, ProxyAssumption DEF Attempt
  <2>4. click \in [Click -> Progress]
    <3>1. ASSUME NEW c \in Click PROVE click[c] \in Progress
      <4>1. click[c] \in Made
        BY <1>1 DEF BInv, PInv, PType
      <4> QED BY <2>3, <4>1 DEF Progress, Made
    <3> QED BY <1>1, <3>1 DEF BInv, PInv, PType
  <2>5. ASSUME NEW w \in Known PROVE w \in Click \X Attempt
    <3>1. w \in Click \X Nat /\ w[2] \in 1..click[w[1]].attempt
      BY <1>1, <2>5 DEF BInv, PInv, PType, AttemptsInOrder, Known
    <3>2. w[1] \in Click /\ w[2] \in Nat
      BY <3>1
    <3>3. w[2] \in Attempt
      BY <2>2, <3>1, <3>2, ProxyAssumption DEF Attempt
    <3> QED BY <3>1, <3>3
  <2>6. ASSUME NEW w \in received PROVE w \in Click \X Attempt
    <3>1. /\ w \in Click \X Nat /\ w[2] > 0
          /\ w[1] \in Click => click[w[1]].attempt = w[2]
      BY <1>1 DEF BInv, PInv, PType, ReceivedAreHeard
    <3>2. w[2] \in Attempt
      BY <2>3, <3>1
    <3> QED BY <3>1, <3>2
  <2> QED BY <1>1, <2>1, <2>4, <2>5, <2>6 DEF ProxyTypeOK, BInv, InTime, Known
<1> QED BY BInvCorrect, <1>1, PTL
=============================================================================

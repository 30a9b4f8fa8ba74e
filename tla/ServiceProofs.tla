--------------------------- MODULE ServiceProofs ---------------------------
(***************************************************************************)
(* Theorems about ReceiverService, for any number of flows, callers,       *)
(* references and challenges: what an agent is told is what happened, a    *)
(* flow that does what its runtime is authorized to do is not refused, and *)
(* what receiver and registry promise alone holds in the composition.      *)
(* They rest on the receiver's invariant IInv, on whose challenge travels  *)
(* where, and on whose doing every refusal is.                             *)
(***************************************************************************)
EXTENDS ReceiverService, ReceiverProofs

Own(f) == flow[f].challenge

\* Nothing of a flow is on its way into the receiver or inside.
Idle(f) == handed[f] = NoBundle /\ call[f] = NoCall

FlowTypes ==
  /\ flow \in [Flow -> Progress]
  /\ handed \in [Flow -> Bundle \cup {NoBundle}]
  /\ DOMAIN filed = Reference /\ DOMAIN entries = Reference
  /\ \A r \in Reference : filed[r] # NoEntry => filed[r].bundle \in Bundle

\* No two flows hold the same challenge.
ChallengesOwned ==
  \A f \in Flow :
    /\ Own(f) # NoChallenge =>
         grant[Own(f)] # NoGrant /\ \A g \in Flow : Own(g) = Own(f) => g = f
    /\ flow[f].stage \in {"challenged", "uploaded", "waiting"} => Own(f) # NoChallenge
    /\ flow[f].stage = "start" => Own(f) = NoChallenge

\* A bundle filed, handed over or inside the receiver for a flow is signed over that
\* flow's challenge.
BundlesOwned ==
  /\ \A r \in Reference : entries[r] # NoEntry => entries[r] = filed[r]
  /\ \A f \in Flow :
       /\ flow[f].stage \in {"uploaded", "waiting"} =>
            LET r == flow[f].reference IN
            r \in Reference /\ filed[r] # NoEntry /\ filed[r].bundle.challenge = Own(f)
       /\ handed[f] # NoBundle => handed[f].challenge = Own(f)
       /\ call[f] # NoCall => call[f].bundle.challenge = Own(f)

StepsInOrder ==
  \A f \in Flow :
    /\ handed[f] = NoBundle \/ call[f] = NoCall
    /\ flow[f].stage \in {"start", "challenged", "uploaded"} => Idle(f)
    /\ flow[f].stage \in {"start", "challenged"} => flow[f].sent = 0
    /\ flow[f].stage = "uploaded" => flow[f].sent <= 1
    /\ flow[f].stage = "done" /\ flow[f].result # "lost" => Idle(f)

\* A flow that dispatches once has no work order before it is answered.
RunsSoFar ==
  \A f \in Flow :
    flow[f].stage # "done" /\ ~ Script[f].replay /\ Own(f) # NoChallenge =>
      runs[Own(f)] = 0

FInv ==
  /\ IInv /\ FlowTypes /\ ChallengesOwned /\ BundlesOwned /\ StepsInOrder
  /\ RunsSoFar /\ AnswersAgreeWithOrders

-----------------------------------------------------------------------------
(***************************************************************************)
(* The receiver inside the service.                                        *)
(***************************************************************************)
LEMMA ScriptFields ==
  \A f \in Flow :
    /\ Script[f].caller \in Caller /\ Script[f].action \in Action
    /\ Script[f].dispatched \in Action /\ Script[f].replay \in BOOLEAN
    /\ Script[f].proof \in Presentation
BY ServiceAssumption

LEMMA EnterType ==
  ASSUME TypeOK, NEW t \in Thread, NEW action \in Action, NEW caller \in Caller,
         NEW bundle \in Bundle, Enter(t, action, caller, bundle)
  PROVE  TypeOK'
<1>1. pending' \in [RequestId -> Challenge \cup {NoChallenge}]
  BY ReapedType DEF Enter, TypeOK
<1>2. call' \in [Thread -> Call \cup {NoCall}]
  BY DEF Enter, Call, TypeOK
<1> QED BY <1>1, <1>2 DEF Enter, environment, history, TypeOK

LEMMA ServiceKeepsIInv == FInv /\ [ServiceNext]_serviceVars => IInv'
<1> SUFFICES ASSUME FInv, [ServiceNext]_serviceVars PROVE IInv' OBVIOUS
<1>0. IInv /\ TypeOK
  BY DEF FInv, IInv
<1>1. CASE UNCHANGED vars
  BY <1>0, <1>1, IInvInductive
<1>2. ASSUME NEW f \in Flow, AskChallenge(f) PROVE IInv'
  <2>1. IssueChallenge(Script[f].action, Script[f].caller)
    BY <1>2 DEF AskChallenge
  <2>2. Next
    BY <2>1, ScriptFields DEF Next
  <2> QED BY <1>0, <2>2, IInvInductive
<1>3. ASSUME NEW f \in Flow, EnterReceiver(f) PROVE IInv'
  <2>1. Enter(f, Script[f].dispatched, Script[f].caller, handed[f])
    BY <1>3 DEF EnterReceiver
  <2>2. f \in Thread /\ handed[f] \in Bundle
    BY <1>3 DEF EnterReceiver, Flow, FInv, FlowTypes
  <2>3. TypeOK'
    BY <1>0, <2>1, <2>2, ScriptFields, EnterType DEF Flow
  <2> QED BY <1>0, <2>1, <2>2, <2>3, ScriptFields, EnterKeepsIInv DEF Flow
<1>4. ASSUME NEW f \in Flow, RunCall(f) PROVE IInv'
  <2>1. f \in Thread /\ Execute(f)
    BY <1>4 DEF RunCall, Execute, Flow
  <2> QED BY <1>0, <2>1, IInvInductive DEF Next
<1>5. CASE RestartService
  BY <1>0, <1>5, IInvInductive DEF RestartService, Next
<1>6. CASE World
  BY <1>0, <1>6, IInvInductive DEF World, Next
<1>7. ASSUME NEW f \in Flow, Upload(f) \/ CreateWorkOrder(f) \/ LoseAnswer(f)
      PROVE  UNCHANGED vars
  BY <1>7 DEF Upload, CreateWorkOrder, LoseAnswer
<1>8. Stray \/ UNCHANGED serviceVars => UNCHANGED vars
  BY DEF Stray, serviceVars
<1> QED
  BY <1>1, <1>2, <1>3, <1>4, <1>5, <1>6, <1>7, <1>8 DEF ServiceNext, FlowStep

\* One step of execute: the other calls stay, the bundle stays the same, and the
\* handler runs for the challenge of the bundle exactly when the call answers ALLOW.
LEMMA CallStep ==
  ASSUME IInv, IInv', NEW t \in Thread,
         Refuse(t) \/ Admit(t) \/ Verify(t) \/ Deny(t) \/ InvokeHandler(t)
  PROVE  /\ call[t] # NoCall /\ grant' = grant
         /\ \A u \in Thread : u # t => call'[u] = call[u]
         /\ call'[t] # NoCall => call'[t].bundle = call[t].bundle /\ runs' = runs
         /\ call'[t] = NoCall =>
              \/ answer' # "ALLOW" /\ runs' = runs
              \/ /\ answer' = "ALLOW" /\ call[t].bundle.challenge \in Challenge
                 /\ runs' = [runs EXCEPT ![call[t].bundle.challenge] = 1]
<1>0. /\ TypeOK /\ call \in [Thread -> Call \cup {NoCall}]
      /\ call[t] # NoCall
  BY DEF IInv, TypeOK, Refuse, Admit, Verify, VerifierFails, Reject, Commit, Deny,
         InvokeHandler, InStage
<1>1. call[t] \in Call /\ lock = t
  BY <1>0 DEF IInv, LockHeld
<1>2. ASSUME NEW reason, Return(t, reason)
      PROVE  /\ call'[t] = NoCall /\ answer' = reason
             /\ \A u \in Thread : u # t => call'[u] = call[u]
  BY <1>0, <1>2 DEF Return
<1>3. CASE Refuse(t)
  <2>1. PICK reason : Return(t, reason) /\ reason # "ALLOW"
    BY <1>3 DEF Refuse
  <2> QED BY <1>0, <1>2, <1>3, <2>1 DEF Refuse, history
<1>4. CASE VerifierFails(t)
  BY <1>0, <1>2, <1>4 DEF VerifierFails
<1>5. CASE Reject(t)
  <2>1. \A e : RejectionReason(e) # "ALLOW"
    BY DEF RejectionReason
  <2>2. PICK reason : Return(t, reason) /\ reason # "ALLOW"
    BY <1>5, <2>1 DEF Reject
  <2> QED BY <1>0, <1>2, <1>5, <2>2 DEF Reject
<1>6. CASE Deny(t)
  BY <1>0, <1>2, <1>6 DEF Deny, history
<1>7. CASE Admit(t) \/ Commit(t)
  <2>1. lock' = lock /\ runs' = runs /\ grant' = grant
    BY <1>7 DEF Admit, Commit
  <2>2. call'[t] # NoCall
    BY <1>1, <2>1 DEF IInv, LockHeld
  <2>3. /\ call'[t].bundle = call[t].bundle
        /\ \A u \in Thread : u # t => call'[u] = call[u]
    BY <1>0, <1>1, <1>7 DEF Admit, Commit, Call
  <2> QED BY <1>0, <2>1, <2>2, <2>3
<1>8. CASE InvokeHandler(t)
  <2> DEFINE c == call[t].challenge
  <2>1. InStage(t, "decided") /\ Return(t, "ALLOW") /\ grant' = grant
        /\ runs' = [runs EXCEPT ![c] = @ + 1]
    BY <1>8 DEF InvokeHandler
  <2>2. c = call[t].bundle.challenge /\ runs[c] = 0 /\ c \in Challenge
    BY <1>0, <2>1, CallFields DEF IInv, InFlightFaithful, Faithful, Bound, InStage
  <2> QED BY <1>0, <1>2, <2>1, <2>2
<1> QED BY <1>3, <1>4, <1>5, <1>6, <1>7, <1>8 DEF Verify

-----------------------------------------------------------------------------
(***************************************************************************)
(* One lemma per kind of step: FInv is inductive.                          *)
(***************************************************************************)
EntriesOnlyGo ==
  DOMAIN entries' = Reference
  /\ \A r \in Reference : entries'[r] # NoEntry => entries'[r] = entries[r]

\* Reaping, refusing and forgetting only take entries away.
LEMMA ReapedGo ==
  ASSUME entries' = Registry!Reap
  PROVE  EntriesOnlyGo
BY DEF EntriesOnlyGo, Registry!Reap

\* A step in which no flow moves and nothing is filed, granted or run.
LEMMA QuietStep ==
  ASSUME FInv, IInv', UNCHANGED <<flow, handed, call, filed, grant, runs>>, EntriesOnlyGo
  PROVE  FInv'
<1>1. FlowTypes' /\ ChallengesOwned' /\ BundlesOwned'
  BY DEF FInv, FlowTypes, ChallengesOwned, BundlesOwned, EntriesOnlyGo, Own
<1>2. StepsInOrder' /\ RunsSoFar' /\ AnswersAgreeWithOrders'
  BY DEF FInv, StepsInOrder, RunsSoFar, AnswersAgreeWithOrders, Own, Idle
<1> QED BY <1>1, <1>2 DEF FInv

\* A flow gives up, is refused before it reaches the receiver, or goes back to
\* dispatch once more.
LEMMA FlowStops ==
  ASSUME FInv, IInv', NEW f \in Flow, NEW p \in Progress,
         flow[f].stage # "start",
         flow' = [flow EXCEPT ![f] = p],
         p.challenge = Own(f), p.reference = flow[f].reference,
         UNCHANGED <<handed, call, filed, grant, runs>>, EntriesOnlyGo,
         \/ p.stage = "done" /\ p.result = "lost"
         \/ /\ flow[f].stage \in {"challenged", "uploaded"}
            /\ p.stage = "done" /\ p.result # "ALLOW"
         \/ flow[f].stage = "uploaded" /\ p.stage = "uploaded" /\ p.sent = 1
  PROVE  FInv'
<1>0. /\ flow \in [Flow -> Progress] /\ flow'[f] = p /\ flow' \in [Flow -> Progress]
      /\ \A g \in Flow : g # f => flow'[g] = flow[g]
      /\ \A g \in Flow : Own(g)' = Own(g)
  BY DEF FInv, FlowTypes, Own
<1>1. FlowTypes'
  BY <1>0 DEF FInv, FlowTypes, EntriesOnlyGo
<1>2. ChallengesOwned'
  <2> SUFFICES ASSUME NEW g \in Flow
               PROVE /\ Own(g)' # NoChallenge =>
                          grant'[Own(g)'] # NoGrant /\ \A h \in Flow : Own(h)' = Own(g)' => h = g
                     /\ flow'[g].stage \in {"challenged", "uploaded", "waiting"} =>
                          Own(g)' # NoChallenge
                     /\ flow'[g].stage = "start" => Own(g)' = NoChallenge
    BY DEF ChallengesOwned
  <2> QED BY <1>0 DEF FInv, ChallengesOwned
<1>3. BundlesOwned'
  <2>1. \A r \in Reference : entries'[r] # NoEntry => entries'[r] = filed'[r]
    BY DEF FInv, BundlesOwned, EntriesOnlyGo
  <2>2. ASSUME NEW g \in Flow, flow'[g].stage \in {"uploaded", "waiting"}
        PROVE  /\ flow'[g].reference \in Reference /\ filed'[flow'[g].reference] # NoEntry
               /\ filed'[flow'[g].reference].bundle.challenge = Own(g)'
    <3>1. flow[g].stage \in {"uploaded", "waiting"} /\ flow'[g].reference = flow[g].reference
      BY <1>0, <2>2
    <3> QED BY <1>0, <3>1 DEF FInv, BundlesOwned
  <2> QED BY <1>0, <2>1, <2>2 DEF FInv, BundlesOwned
<1>4. StepsInOrder'
  BY <1>0 DEF FInv, StepsInOrder, Idle
<1>5. RunsSoFar' /\ AnswersAgreeWithOrders'
  <2>1. ASSUME NEW g \in Flow, g # f
        PROVE  /\ flow'[g].stage # "done" /\ ~ Script[g].replay /\ Own(g)' # NoChallenge =>
                    runs'[Own(g)'] = 0
               /\ (flow'[g].stage = "done" /\ flow'[g].result # "lost" /\ ~ Script[g].replay =>
                    IF flow'[g].result = "ALLOW"
                    THEN flow'[g].challenge # NoChallenge /\ runs'[flow'[g].challenge] = 1
                    ELSE flow'[g].challenge # NoChallenge => runs'[flow'[g].challenge] = 0)
    BY <1>0, <2>1 DEF FInv, RunsSoFar, AnswersAgreeWithOrders, Own
  <2>2. flow[f].stage # "done" /\ ~ Script[f].replay /\ Own(f) # NoChallenge =>
          runs'[Own(f)] = 0
    BY DEF FInv, RunsSoFar
  <2> QED BY <1>0, <2>1, <2>2 DEF RunsSoFar, AnswersAgreeWithOrders, Own
<1> QED BY <1>1, <1>2, <1>3, <1>4, <1>5 DEF FInv

\* The challenge a flow is issued is nobody else's, and no handler ran for it.
LEMMA AskKeepsFInv ==
  ASSUME FInv, IInv', NEW f \in Flow, AskChallenge(f)
  PROVE  FInv'
<1> DEFINE action == Script[f].action
<1>0. /\ flow[f].stage = "start" /\ Own(f) = NoChallenge /\ Idle(f)
      /\ IssueChallenge(action, Script[f].caller)
      /\ flow \in [Flow -> Progress] /\ TypeOK /\ TypeOK' /\ action.request_id \in RequestId
      /\ UNCHANGED <<entries, filed, uses, handed, call, runs>>
  BY ScriptFields DEF AskChallenge, FInv, FlowTypes, IInv, ChallengesOwned, StepsInOrder,
     IssueChallenge, RequestId
<1>1. CASE answer' # "ALLOW"
  <2> DEFINE p == [flow[f] EXCEPT !.stage = "done", !.result = answer']
  <2>1. flow' = [flow EXCEPT ![f] = p] /\ grant' = grant
    BY <1>0, <1>1 DEF AskChallenge, Finish, IssueChallenge
  <2>2. p \in Progress /\ p.challenge = NoChallenge /\ p.stage = "done"
        /\ p.result = answer'
    BY <1>0 DEF Progress, TypeOK, Own
  <2> HIDE DEF p
  <2>3. /\ flow'[f] = p /\ flow' \in [Flow -> Progress]
        /\ \A g \in Flow : g # f => flow'[g] = flow[g]
        /\ \A g \in Flow : Own(g)' = Own(g)
    BY <1>0, <2>1, <2>2 DEF Own
  <2>4. FlowTypes'
    BY <1>0, <2>3 DEF FInv, FlowTypes
  <2>5. ChallengesOwned'
    <3>1. ASSUME NEW g \in Flow
          PROVE /\ Own(g)' # NoChallenge => grant'[Own(g)'] # NoGrant
                /\ \A h \in Flow : Own(g)' # NoChallenge /\ Own(h)' = Own(g)' => h = g
                /\ flow'[g].stage \in {"challenged", "uploaded", "waiting"} =>
                     Own(g)' # NoChallenge
                /\ flow'[g].stage = "start" => Own(g)' = NoChallenge
      BY <1>0, <2>1, <2>2, <2>3 DEF FInv, ChallengesOwned
    <3> QED BY <3>1 DEF ChallengesOwned
  <2>6. BundlesOwned'
    BY <1>0, <2>2, <2>3 DEF FInv, BundlesOwned
  <2>7. StepsInOrder'
    BY <1>0, <2>2, <2>3 DEF FInv, StepsInOrder, Idle
  <2>8. RunsSoFar' /\ AnswersAgreeWithOrders'
    BY <1>0, <1>1, <2>2, <2>3 DEF FInv, RunsSoFar, AnswersAgreeWithOrders, Own
  <2> QED BY <2>4, <2>5, <2>6, <2>7, <2>8 DEF FInv
<1>2. CASE answer' = "ALLOW"
  <2>0. PICK c \in Challenge :
          /\ grant[c] = NoGrant
          /\ pending' = [Reaped(now) EXCEPT ![action.request_id] = c]
          /\ \E g : grant' = [grant EXCEPT ![c] = g]
    BY <1>0, <1>2 DEF IssueChallenge
  <2>1. /\ \A d \in Challenge : d # c => grant'[d] = grant[d]
        /\ pending'[action.request_id] = c /\ c # NoChallenge
        /\ runs[c] = 0
    <3>1. pending'[action.request_id] = c
      BY <1>0, <2>0 DEF Reaped
    <3>2. runs[c] = 0
      BY <1>0, <2>0 DEF FInv, IInv, Counted, TypeOK
    <3> QED BY <1>0, <2>0, <3>1, <3>2, ReceiverAssumption DEF TypeOK
  <2>2. grant'[c] # NoGrant
    BY <1>0, <2>1, ReceiverAssumption DEF IInv, PendingFresh
  <2> DEFINE p == [flow[f] EXCEPT !.stage = "challenged", !.challenge = c]
  <2>3. flow' = [flow EXCEPT ![f] = p]
    BY <1>0, <1>2, <2>1 DEF AskChallenge
  <2>4. p \in Progress /\ p.challenge = c /\ p.stage = "challenged" /\ p.sent = 0
    BY <1>0 DEF Progress, FInv, StepsInOrder
  <2> HIDE DEF p
  <2>5. /\ flow'[f] = p /\ flow' \in [Flow -> Progress]
        /\ \A g \in Flow : g # f => flow'[g] = flow[g] /\ Own(g)' = Own(g)
        /\ Own(f)' = c
    BY <1>0, <2>3, <2>4 DEF Own
  <2>6. \A g \in Flow : g # f /\ Own(g) # NoChallenge =>
          Own(g) \in Challenge /\ Own(g) # c /\ grant'[Own(g)] # NoGrant
    <3>1. \A g \in Flow : Own(g) # NoChallenge => Own(g) \in Challenge
      BY <1>0 DEF Progress, Own
    <3> QED BY <2>0, <2>1, <3>1 DEF FInv, ChallengesOwned
  <2>7. FlowTypes'
    BY <1>0, <2>5 DEF FInv, FlowTypes
  <2>8. ChallengesOwned'
    <3>1. ASSUME NEW g \in Flow
          PROVE /\ Own(g)' # NoChallenge => grant'[Own(g)'] # NoGrant
                /\ \A h \in Flow : Own(g)' # NoChallenge /\ Own(h)' = Own(g)' => h = g
                /\ flow'[g].stage \in {"challenged", "uploaded", "waiting"} =>
                     Own(g)' # NoChallenge
                /\ flow'[g].stage = "start" => Own(g)' = NoChallenge
      <4>1. CASE g = f
        BY <4>1, <2>1, <2>2, <2>4, <2>5, <2>6
      <4>2. CASE g # f
        BY <4>2, <2>5, <2>6 DEF FInv, ChallengesOwned
      <4> QED BY <4>1, <4>2
    <3> QED BY <3>1 DEF ChallengesOwned
  <2>9. BundlesOwned'
    BY <1>0, <2>4, <2>5 DEF FInv, BundlesOwned, Idle
  <2>10. StepsInOrder'
    BY <1>0, <2>4, <2>5 DEF FInv, StepsInOrder, Idle
  <2>11. RunsSoFar' /\ AnswersAgreeWithOrders'
    BY <1>0, <2>1, <2>4, <2>5 DEF FInv, RunsSoFar, AnswersAgreeWithOrders, Own
  <2> QED BY <2>7, <2>8, <2>9, <2>10, <2>11 DEF FInv
<1> QED BY <1>1, <1>2

\* Only a flow that waits for its answer, or gave up on it, has something on its way.
LEMMA InTransit ==
  ASSUME FInv, NEW f \in Flow, handed[f] # NoBundle \/ call[f] # NoCall
  PROVE  flow[f].stage = "waiting" \/ (flow[f].stage = "done" /\ flow[f].result = "lost")
<1>1. flow[f] \in Progress
  BY DEF FInv, FlowTypes
<1>2. flow[f].stage \in {"start", "challenged", "uploaded", "waiting", "done"}
  BY <1>1 DEF Progress
<1>3. StepsInOrder /\ ~ Idle(f)
  BY DEF FInv, Idle
<1>4. /\ ~ flow[f].stage \in {"start", "challenged", "uploaded"}
      /\ ~ (flow[f].stage = "done" /\ flow[f].result # "lost")
  BY <1>3 DEF StepsInOrder
<1> QED BY <1>2, <1>4

\* What a flow uploads is signed over its own challenge, and the reference it gets
\* was never filed before.
LEMMA UploadKeepsFInv ==
  ASSUME FInv, IInv', NEW f \in Flow, Upload(f)
  PROVE  FInv'
<1>0. /\ flow[f].stage = "challenged" /\ Own(f) \in Challenge /\ Idle(f)
      /\ UNCHANGED <<vars, handed, call, grant, runs>>
      /\ flow \in [Flow -> Progress]
      /\ \A r \in Reference : Registry!Reap[r] # NoEntry => Registry!Reap[r] = entries[r]
      /\ DOMAIN filed = Reference
  BY DEF Upload, FInv, FlowTypes, ChallengesOwned, StepsInOrder, Progress, Own, vars,
     history, Registry!Reap
<1>1. CASE Registry!RefuseFull /\ Finish(f, "DENY_VERIFIER_UNAVAILABLE")
  <2> DEFINE p == [flow[f] EXCEPT !.stage = "done", !.result = "DENY_VERIFIER_UNAVAILABLE"]
  <2>1. /\ p \in Progress /\ p.challenge = Own(f) /\ p.reference = flow[f].reference
        /\ p.stage = "done" /\ p.result # "ALLOW"
    BY <1>0 DEF Progress, Own, Reason
  <2>2. flow' = [flow EXCEPT ![f] = p] /\ filed' = filed /\ entries' = Registry!Reap
    BY <1>0, <1>1 DEF Finish, Registry!RefuseFull
  <2> HIDE DEF p
  <2> QED BY <1>0, <2>1, <2>2, ReapedGo, FlowStops
<1>2. ASSUME NEW r \in Reference,
             Registry!Register(r, Script[f].caller, Script[f].action, Signed(f)),
             flow' = [flow EXCEPT ![f].stage = "uploaded", ![f].reference = r]
      PROVE  FInv'
  <2> DEFINE stored == [caller |-> Script[f].caller, action |-> Script[f].action,
                        bundle |-> Signed(f), expires_at |-> now + Ttl]
             p == [flow[f] EXCEPT !.stage = "uploaded", !.reference = r]
  <2>1. Signed(f) \in Bundle /\ Signed(f).challenge = Own(f)
    <3>1. Script[f].proof \in [agent_id : Agent, signer : Agent, context : Action,
                               delegations : Seq(Certificate)]
      BY ScriptFields, ReceiverAssumption
    <3> QED BY <1>0, <3>1, ScriptFields DEF Signed, Bundle, Own
  <2>2. stored \in Registry!Stored /\ stored # NoEntry /\ stored.bundle = Signed(f)
    <3>1. now + Ttl \in Nat
      BY ServiceAssumption DEF FInv, IInv, TypeOK
    <3>2. stored \in Registry!Stored
      BY <2>1, <3>1, ScriptFields DEF Registry!Stored
    <3> QED BY <3>2, ServiceAssumption
  <2>3. /\ p \in Progress /\ p.stage = "uploaded" /\ p.challenge = Own(f)
        /\ p.reference = r /\ p.sent = 0
    BY <1>0 DEF Progress, Own, FInv, StepsInOrder
  <2>4. /\ filed[r] = NoEntry
        /\ entries' = [Registry!Reap EXCEPT ![r] = stored]
        /\ filed' = [filed EXCEPT ![r] = stored]
    BY <1>2 DEF Registry!Register
  <2>5. flow' = [flow EXCEPT ![f] = p]
    BY <1>0, <1>2
  <2> HIDE DEF stored, p
  <2>6. /\ flow'[f] = p /\ flow' \in [Flow -> Progress]
        /\ \A g \in Flow : g # f => flow'[g] = flow[g]
        /\ \A g \in Flow : Own(g)' = Own(g)
    BY <1>0, <2>3, <2>5 DEF Own
  <2>7. /\ entries'[r] = stored /\ filed'[r] = stored
        /\ DOMAIN entries' = Reference /\ DOMAIN filed' = Reference
        /\ \A q \in Reference : q # r =>
             filed'[q] = filed[q] /\ (entries'[q] # NoEntry => entries'[q] = entries[q])
    BY <1>0, <2>4 DEF Registry!Reap
  <2>8. FlowTypes'
    BY <1>0, <2>1, <2>2, <2>6, <2>7 DEF FInv, FlowTypes
  <2>9. ChallengesOwned'
    <3>1. ASSUME NEW g \in Flow
          PROVE /\ Own(g)' # NoChallenge => grant'[Own(g)'] # NoGrant
                /\ \A h \in Flow : Own(g)' # NoChallenge /\ Own(h)' = Own(g)' => h = g
                /\ flow'[g].stage \in {"challenged", "uploaded", "waiting"} =>
                     Own(g)' # NoChallenge
                /\ flow'[g].stage = "start" => Own(g)' = NoChallenge
      BY <1>0, <2>3, <2>6 DEF FInv, ChallengesOwned
    <3> QED BY <3>1 DEF ChallengesOwned
  <2>10. BundlesOwned'
    <3>1. \A q \in Reference : entries'[q] # NoEntry => entries'[q] = filed'[q]
      BY <2>7 DEF FInv, BundlesOwned
    <3>2. ASSUME NEW g \in Flow, flow'[g].stage \in {"uploaded", "waiting"}
          PROVE  /\ flow'[g].reference \in Reference /\ filed'[flow'[g].reference] # NoEntry
                 /\ filed'[flow'[g].reference].bundle.challenge = Own(g)'
      <4>1. CASE g = f
        BY <4>1, <2>1, <2>2, <2>3, <2>6, <2>7
      <4>2. CASE g # f
        <5>1. /\ flow[g].reference \in Reference /\ filed[flow[g].reference] # NoEntry
              /\ filed[flow[g].reference].bundle.challenge = Own(g)
          BY <4>2, <3>2, <2>6 DEF FInv, BundlesOwned
        <5> QED BY <4>2, <5>1, <2>4, <2>6, <2>7
      <4> QED BY <4>1, <4>2
    <3> QED BY <1>0, <2>6, <3>1, <3>2 DEF FInv, BundlesOwned
  <2>11. StepsInOrder'
    BY <1>0, <2>3, <2>6 DEF FInv, StepsInOrder, Idle
  <2>12. RunsSoFar' /\ AnswersAgreeWithOrders'
    BY <1>0, <2>3, <2>6 DEF FInv, RunsSoFar, AnswersAgreeWithOrders, Own
  <2> QED BY <2>8, <2>9, <2>10, <2>11, <2>12 DEF FInv
<1> QED BY <1>1, <1>2 DEF Upload

\* The proof a call is handed is the one its flow uploaded.
LEMMA CreateKeepsFInv ==
  ASSUME FInv, IInv', NEW f \in Flow, CreateWorkOrder(f)
  PROVE  FInv'
<1> DEFINE r == flow[f].reference
           caller == Script[f].caller
           action == Script[f].dispatched
           sent == [flow[f] EXCEPT !.sent = @ + 1]
<1>0. /\ flow[f].stage = "uploaded" /\ Own(f) \in Challenge /\ Idle(f)
      /\ UNCHANGED <<vars, filed, call, grant, runs>>
      /\ flow \in [Flow -> Progress]
      /\ r \in Reference /\ filed[r] # NoEntry /\ filed[r].bundle.challenge = Own(f)
  BY DEF CreateWorkOrder, FInv, FlowTypes, ChallengesOwned, BundlesOwned, StepsInOrder,
     Progress, Own, vars, history, Registry!RefuseUse, Registry!Consume
<1>s. /\ sent \in Progress /\ sent.challenge = Own(f) /\ sent.reference = r
  <2>1. flow[f].sent \in 0..2 /\ flow[f].sent <= 1
    BY <1>0 DEF Progress, FInv, StepsInOrder
  <2>2. flow[f].sent + 1 \in 0..2
    BY <2>1
  <2>3. flow[f] \in Progress
    BY <1>0
  <2> QED BY <2>2, <2>3 DEF Progress, Own
<1> HIDE DEF sent
<1>1. CASE /\ Registry!RefuseUse(r, caller, action)
           /\ flow' = [flow EXCEPT ![f] =
                         Answered(f, sent, Registry!Answer(r, caller, action))]
           /\ UNCHANGED handed
  <2> DEFINE reason == Registry!Answer(r, caller, action)
             p == Answered(f, sent, reason)
  <2>1. reason \in Reason /\ reason # "ALLOW" /\ entries' = Registry!Reap
    BY <1>1 DEF Registry!RefuseUse, Registry!Answer, Reason
  <2>2. flow' = [flow EXCEPT ![f] = p]
    BY <1>1
  <2> HIDE DEF reason
  <2>3. CASE Script[f].replay /\ sent.sent = 1
    <3>1. p = [sent EXCEPT !.stage = "uploaded"]
      BY <2>3 DEF Answered
    <3>2. /\ p \in Progress /\ p.challenge = Own(f) /\ p.reference = r
          /\ p.stage = "uploaded" /\ p.sent = 1
      BY <1>s, <2>3, <3>1 DEF Progress
    <3> HIDE DEF p
    <3> QED BY <1>0, <1>1, <2>1, <2>2, <3>2, ReapedGo, FlowStops
  <2>4. CASE ~ (Script[f].replay /\ sent.sent = 1)
    <3>1. p = [sent EXCEPT !.stage = "done", !.result = reason]
      BY <2>4 DEF Answered
    <3>2. /\ p \in Progress /\ p.challenge = Own(f) /\ p.reference = r
          /\ p.stage = "done" /\ p.result = reason
      BY <1>s, <2>1, <3>1 DEF Progress
    <3> HIDE DEF p
    <3> QED BY <1>0, <1>1, <2>1, <2>2, <3>2, ReapedGo, FlowStops
  <2> QED BY <2>3, <2>4
<1>2. CASE /\ Registry!Consume(r, caller, action)
           /\ handed' = [handed EXCEPT ![f] = entries[r].bundle]
           /\ flow' = [flow EXCEPT ![f] = [sent EXCEPT !.stage = "waiting"]]
  <2> DEFINE p == [sent EXCEPT !.stage = "waiting"]
  <2>1. p \in Progress /\ p.challenge = Own(f) /\ p.reference = r /\ p.stage = "waiting"
    BY <1>s DEF Progress
  <2>2. /\ Registry!Reap[r] # NoEntry /\ entries[r] # NoEntry
    BY <1>0, <1>2 DEF Registry!Consume, Registry!Answer, Registry!Reap, Registry!Unexpired
  <2>3. entries[r].bundle \in Bundle /\ entries[r].bundle.challenge = Own(f)
    BY <1>0, <2>2 DEF FInv, BundlesOwned, FlowTypes
  <2>4. EntriesOnlyGo
    BY <1>2 DEF EntriesOnlyGo, Registry!Consume, Registry!Reap
  <2>5. flow' = [flow EXCEPT ![f] = p]
    BY <1>2
  <2> HIDE DEF p
  <2>6. /\ flow'[f] = p /\ flow' \in [Flow -> Progress]
        /\ \A g \in Flow : g # f => flow'[g] = flow[g] /\ handed'[g] = handed[g]
        /\ handed'[f] = entries[r].bundle
        /\ \A g \in Flow : Own(g)' = Own(g)
    BY <1>0, <1>2, <2>1, <2>5 DEF Own, FInv, FlowTypes
  <2>7. FlowTypes'
    BY <1>0, <1>2, <2>3, <2>4, <2>6 DEF FInv, FlowTypes, EntriesOnlyGo
  <2>8. ChallengesOwned'
    <3>1. ASSUME NEW g \in Flow
          PROVE /\ Own(g)' # NoChallenge => grant'[Own(g)'] # NoGrant
                /\ \A h \in Flow : Own(g)' # NoChallenge /\ Own(h)' = Own(g)' => h = g
                /\ flow'[g].stage \in {"challenged", "uploaded", "waiting"} =>
                     Own(g)' # NoChallenge
                /\ flow'[g].stage = "start" => Own(g)' = NoChallenge
      BY <1>0, <2>1, <2>6 DEF FInv, ChallengesOwned
    <3> QED BY <3>1 DEF ChallengesOwned
  <2>9. BundlesOwned'
    <3>1. \A q \in Reference : entries'[q] # NoEntry => entries'[q] = filed'[q]
      BY <1>0, <2>4 DEF FInv, BundlesOwned, EntriesOnlyGo
    <3>2. ASSUME NEW g \in Flow
          PROVE  /\ flow'[g].stage \in {"uploaded", "waiting"} =>
                      /\ flow'[g].reference \in Reference
                      /\ filed'[flow'[g].reference] # NoEntry
                      /\ filed'[flow'[g].reference].bundle.challenge = Own(g)'
                 /\ handed'[g] # NoBundle => handed'[g].challenge = Own(g)'
                 /\ call'[g] # NoCall => call'[g].bundle.challenge = Own(g)'
      <4>1. CASE g = f
        BY <4>1, <1>0, <2>1, <2>3, <2>6 DEF Idle
      <4>2. CASE g # f
        BY <4>2, <1>0, <2>6 DEF FInv, BundlesOwned
      <4> QED BY <4>1, <4>2
    <3> QED BY <3>1, <3>2 DEF BundlesOwned
  <2>10. StepsInOrder'
    <3>1. ASSUME NEW g \in Flow
          PROVE  /\ handed'[g] = NoBundle \/ call'[g] = NoCall
                 /\ flow'[g].stage \in {"start", "challenged", "uploaded"}
                      => handed'[g] = NoBundle /\ call'[g] = NoCall
                 /\ flow'[g].stage \in {"start", "challenged"} => flow'[g].sent = 0
                 /\ flow'[g].stage = "uploaded" => flow'[g].sent <= 1
                 /\ flow'[g].stage = "done" /\ flow'[g].result # "lost"
                      => handed'[g] = NoBundle /\ call'[g] = NoCall
      <4>1. CASE g = f
        BY <4>1, <1>0, <2>1, <2>6 DEF Idle
      <4>2. CASE g # f
        BY <4>2, <1>0, <2>6 DEF FInv, StepsInOrder, Idle
      <4> QED BY <4>1, <4>2
    <3> QED BY <3>1 DEF StepsInOrder, Idle
  <2>11. RunsSoFar' /\ AnswersAgreeWithOrders'
    BY <1>0, <2>1, <2>6 DEF FInv, RunsSoFar, AnswersAgreeWithOrders, Own
  <2> QED BY <2>7, <2>8, <2>9, <2>10, <2>11 DEF FInv
<1> QED BY <1>1, <1>2 DEF CreateWorkOrder, sent

\* The call inside the receiver carries the proof it was handed.
LEMMA EnterKeepsFInv ==
  ASSUME FInv, IInv', NEW f \in Flow, EnterReceiver(f)
  PROVE  FInv'
<1>0. /\ handed[f] # NoBundle /\ call[f] = NoCall
      /\ UNCHANGED <<entries, filed, flow, grant, runs>>
      /\ handed' = [handed EXCEPT ![f] = NoBundle]
      /\ handed \in [Flow -> Bundle \cup {NoBundle}] /\ TypeOK
  BY DEF EnterReceiver, Enter, history, FInv, FlowTypes, IInv
<1>1. /\ handed'[f] = NoBundle
      /\ \A g \in Flow : g # f => handed'[g] = handed[g] /\ call'[g] = call[g]
      /\ call'[f].bundle = handed[f]
  BY <1>0 DEF EnterReceiver, Enter, TypeOK, Flow
<1>2. flow[f].stage = "waiting" \/ (flow[f].stage = "done" /\ flow[f].result = "lost")
  BY <1>0, InTransit
<1>3. FlowTypes'
  BY <1>0 DEF FInv, FlowTypes
<1>4. ChallengesOwned'
  BY <1>0 DEF FInv, ChallengesOwned, Own
<1>5. BundlesOwned'
  <2>1. ASSUME NEW g \in Flow
        PROVE  /\ handed'[g] # NoBundle => handed'[g].challenge = Own(g)'
               /\ call'[g] # NoCall => call'[g].bundle.challenge = Own(g)'
    <3>1. CASE g = f
      BY <3>1, <1>0, <1>1 DEF FInv, BundlesOwned, Own
    <3>2. CASE g # f
      BY <3>2, <1>0, <1>1 DEF FInv, BundlesOwned, Own
    <3> QED BY <3>1, <3>2
  <2> QED BY <1>0, <2>1 DEF FInv, BundlesOwned, Own
<1>6. StepsInOrder'
  <2>1. ASSUME NEW g \in Flow
        PROVE  /\ handed'[g] = NoBundle \/ call'[g] = NoCall
               /\ flow[g].stage \in {"start", "challenged", "uploaded"}
                    => handed'[g] = NoBundle /\ call'[g] = NoCall
               /\ flow[g].stage = "done" /\ flow[g].result # "lost"
                    => handed'[g] = NoBundle /\ call'[g] = NoCall
    BY <1>1, <1>2 DEF FInv, StepsInOrder, Idle
  <2> QED BY <1>0, <2>1 DEF FInv, StepsInOrder, Idle
<1>7. RunsSoFar' /\ AnswersAgreeWithOrders'
  BY <1>0 DEF FInv, RunsSoFar, AnswersAgreeWithOrders, Own
<1> QED BY <1>3, <1>4, <1>5, <1>6, <1>7 DEF FInv

\* The handler runs for the flow whose call it is, and the flow that waits is told.
LEMMA RunKeepsFInv ==
  ASSUME FInv, IInv', NEW f \in Flow, RunCall(f)
  PROVE  FInv'
<1> DEFINE moves == call'[f] = NoCall /\ flow[f].stage = "waiting"
           p == IF moves THEN Answered(f, flow[f], answer') ELSE flow[f]
<1>0. /\ call[f] # NoCall /\ grant' = grant
      /\ \A u \in Flow : u # f => call'[u] = call[u]
      /\ call'[f] # NoCall => call'[f].bundle = call[f].bundle /\ runs' = runs
      /\ call'[f] = NoCall =>
           \/ answer' # "ALLOW" /\ runs' = runs
           \/ /\ answer' = "ALLOW" /\ call[f].bundle.challenge \in Challenge
              /\ runs' = [runs EXCEPT ![call[f].bundle.challenge] = 1]
  BY CallStep DEF RunCall, FInv, Flow
<1>1. /\ UNCHANGED <<entries, filed, handed>>
      /\ flow \in [Flow -> Progress] /\ TypeOK /\ TypeOK'
      /\ call[f].bundle.challenge = Own(f) /\ handed[f] = NoBundle
      /\ flow[f].stage = "waiting" \/ (flow[f].stage = "done" /\ flow[f].result = "lost")
  <2>1. flow \in [Flow -> Progress] /\ TypeOK /\ TypeOK'
    BY DEF FInv, FlowTypes, IInv
  <2>2. flow[f].stage = "waiting" \/ (flow[f].stage = "done" /\ flow[f].result = "lost")
    BY <1>0, InTransit
  <2>3. call[f].bundle.challenge = Own(f) /\ handed[f] = NoBundle
    BY <1>0 DEF FInv, BundlesOwned, StepsInOrder
  <2> QED BY <2>1, <2>2, <2>3 DEF RunCall
<1>2. /\ p \in Progress /\ p.challenge = Own(f) /\ p.reference = flow[f].reference
      /\ ~ moves => p.stage = flow[f].stage /\ p.result = flow[f].result
      /\ moves => \/ Script[f].replay /\ p.stage = "uploaded" /\ p.sent = 1
                  \/ p.stage = "done" /\ p.result = answer'
  <2>1. CASE ~ moves
    BY <1>1, <2>1 DEF Own
  <2>2. CASE moves
    <3>1. CASE Script[f].replay /\ flow[f].sent = 1
      BY <1>1, <2>2, <3>1 DEF Answered, Progress, Own
    <3>2. CASE ~ (Script[f].replay /\ flow[f].sent = 1)
      BY <1>1, <2>2, <3>2 DEF Answered, Progress, Own, TypeOK
    <3> QED BY <3>1, <3>2
  <2> QED BY <2>1, <2>2
<1>3. flow' = [flow EXCEPT ![f] = p]
  BY <1>1 DEF RunCall
<1> HIDE DEF p
<1>4. /\ flow'[f] = p /\ flow' \in [Flow -> Progress]
      /\ \A g \in Flow : g # f => flow'[g] = flow[g]
      /\ \A g \in Flow : Own(g)' = Own(g)
  BY <1>1, <1>2, <1>3 DEF Own
<1>5. \A g \in Flow : g # f /\ Own(g) # NoChallenge => runs'[Own(g)] = runs[Own(g)]
  <2> SUFFICES ASSUME NEW g \in Flow, g # f, Own(g) # NoChallenge
               PROVE  runs'[Own(g)] = runs[Own(g)]
    OBVIOUS
  <2>1. Own(g) \in Challenge /\ Own(g) # Own(f)
    BY <1>1 DEF FInv, ChallengesOwned, Progress, Own
  <2>2. runs' = runs \/ runs' = [runs EXCEPT ![Own(f)] = 1]
    BY <1>0, <1>1
  <2>3. runs \in [Challenge -> Nat]
    BY <1>1 DEF TypeOK
  <2> QED BY <2>1, <2>2, <2>3
<1>6. FlowTypes'
  BY <1>1, <1>4 DEF FInv, FlowTypes
<1>7. ChallengesOwned'
  <2>1. ASSUME NEW g \in Flow
        PROVE /\ Own(g)' # NoChallenge => grant'[Own(g)'] # NoGrant
              /\ \A h \in Flow : Own(g)' # NoChallenge /\ Own(h)' = Own(g)' => h = g
              /\ flow'[g].stage \in {"challenged", "uploaded", "waiting"} =>
                   Own(g)' # NoChallenge
              /\ flow'[g].stage = "start" => Own(g)' = NoChallenge
    BY <1>0, <1>1, <1>2, <1>4 DEF FInv, ChallengesOwned
  <2> QED BY <2>1 DEF ChallengesOwned
<1>8. BundlesOwned'
  <2>1. ASSUME NEW g \in Flow
        PROVE  /\ flow'[g].stage \in {"uploaded", "waiting"} =>
                    /\ flow'[g].reference \in Reference
                    /\ filed'[flow'[g].reference] # NoEntry
                    /\ filed'[flow'[g].reference].bundle.challenge = Own(g)'
               /\ handed'[g] # NoBundle => handed'[g].challenge = Own(g)'
               /\ call'[g] # NoCall => call'[g].bundle.challenge = Own(g)'
    <3>1. CASE g = f
      <4>1. flow'[g].stage \in {"uploaded", "waiting"} => flow[f].stage = "waiting"
        BY <3>1, <1>1, <1>2, <1>4
      <4> QED BY <3>1, <4>1, <1>0, <1>1, <1>2, <1>4 DEF FInv, BundlesOwned
    <3>2. CASE g # f
      BY <3>2, <1>0, <1>1, <1>4 DEF FInv, BundlesOwned
    <3> QED BY <3>1, <3>2
  <2> QED BY <1>1, <2>1 DEF FInv, BundlesOwned
<1>9. StepsInOrder'
  <2>1. ASSUME NEW g \in Flow
        PROVE  /\ handed'[g] = NoBundle \/ call'[g] = NoCall
               /\ flow'[g].stage \in {"start", "challenged", "uploaded"}
                    => handed'[g] = NoBundle /\ call'[g] = NoCall
               /\ flow'[g].stage = "done" /\ flow'[g].result # "lost"
                    => handed'[g] = NoBundle /\ call'[g] = NoCall
               /\ flow'[g].stage \in {"start", "challenged"} => flow'[g].sent = 0
               /\ flow'[g].stage = "uploaded" => flow'[g].sent <= 1
    <3>1. CASE g = f
      BY <3>1, <1>1, <1>2, <1>4
    <3>2. CASE g # f
      BY <3>2, <1>0, <1>1, <1>4 DEF FInv, StepsInOrder, Idle
    <3> QED BY <3>1, <3>2
  <2> QED BY <2>1 DEF StepsInOrder, Idle
<1>10. ASSUME NEW g \in Flow, ~ Script[g].replay
       PROVE  /\ flow'[g].stage # "done" /\ Own(g)' # NoChallenge => runs'[Own(g)'] = 0
              /\ flow'[g].stage = "done" /\ flow'[g].result # "lost" =>
                   IF flow'[g].result = "ALLOW"
                   THEN Own(g)' # NoChallenge /\ runs'[Own(g)'] = 1
                   ELSE Own(g)' # NoChallenge => runs'[Own(g)'] = 0
  <2>1. CASE g # f
    BY <2>1, <1>4, <1>5, <1>10 DEF FInv, RunsSoFar, AnswersAgreeWithOrders, Own
  <2>2. CASE g = f /\ ~ moves
    <3>1. flow[f].stage = "waiting" => runs' = runs
      BY <1>0, <2>2
    <3> QED BY <2>2, <3>1, <1>1, <1>2, <1>4, <1>10 DEF FInv, RunsSoFar
  <2>3. CASE g = f /\ moves
    <3>1. Own(f) # NoChallenge /\ runs[Own(f)] = 0
      BY <1>10, <2>3 DEF FInv, ChallengesOwned, RunsSoFar
    <3>2. Own(f) \in Challenge
      BY <1>1, <3>1 DEF Progress, Own
    <3>3. p.stage = "done" /\ p.result = answer'
      BY <1>2, <1>10, <2>3
    <3>4. IF answer' = "ALLOW" THEN runs'[Own(f)] = 1 ELSE runs'[Own(f)] = 0
      BY <1>0, <1>1, <2>3, <3>1, <3>2 DEF TypeOK
    <3> QED BY <2>3, <1>4, <3>1, <3>3, <3>4
  <2> QED BY <2>1, <2>2, <2>3
<1>11. RunsSoFar' /\ AnswersAgreeWithOrders'
  BY <1>10 DEF RunsSoFar, AnswersAgreeWithOrders, Own
<1> QED BY <1>6, <1>7, <1>8, <1>9, <1>11 DEF FInv

\* A restart ends every call and the flows that wait for one.
LEMMA RestartKeepsFInv ==
  ASSUME FInv, IInv', RestartService
  PROVE  FInv'
<1>0. /\ handed' = [g \in Flow |-> NoBundle] /\ call' = [g \in Flow |-> NoCall]
      /\ UNCHANGED <<filed, grant, runs>>
      /\ entries' = [r \in Reference |-> NoEntry]
      /\ flow \in [Flow -> Progress]
  BY DEF RestartService, Restart, Registry!Forget, FInv, FlowTypes, Flow
<1>1. ASSUME NEW g \in Flow
      PROVE  /\ flow'[g] \in Progress /\ Own(g)' = Own(g)
             /\ flow'[g].reference = flow[g].reference
             /\ IF flow[g].stage = "waiting"
                THEN flow'[g].stage = "done" /\ flow'[g].result = "lost"
                ELSE flow'[g] = flow[g]
  BY <1>0 DEF RestartService, Progress, Own
<1>2. flow' \in [Flow -> Progress]
  BY <1>1 DEF RestartService
<1>3. FlowTypes'
  BY <1>0, <1>2 DEF FInv, FlowTypes
<1>4. ChallengesOwned'
  <2>1. ASSUME NEW g \in Flow
        PROVE /\ Own(g)' # NoChallenge => grant'[Own(g)'] # NoGrant
              /\ \A h \in Flow : Own(g)' # NoChallenge /\ Own(h)' = Own(g)' => h = g
              /\ flow'[g].stage \in {"challenged", "uploaded", "waiting"} =>
                   Own(g)' # NoChallenge
              /\ flow'[g].stage = "start" => Own(g)' = NoChallenge
    BY <1>0, <1>1 DEF FInv, ChallengesOwned
  <2> QED BY <2>1 DEF ChallengesOwned
<1>5. BundlesOwned'
  BY <1>0, <1>1 DEF FInv, BundlesOwned
<1>6. StepsInOrder'
  BY <1>0, <1>1 DEF FInv, StepsInOrder, Idle
<1>7. RunsSoFar' /\ AnswersAgreeWithOrders'
  <2>1. ASSUME NEW g \in Flow
        PROVE  /\ flow'[g].stage # "done" /\ ~ Script[g].replay /\ Own(g)' # NoChallenge =>
                    runs'[Own(g)'] = 0
               /\ flow'[g].stage = "done" /\ flow'[g].result # "lost" /\ ~ Script[g].replay =>
                    IF flow'[g].result = "ALLOW"
                    THEN Own(g)' # NoChallenge /\ runs'[Own(g)'] = 1
                    ELSE Own(g)' # NoChallenge => runs'[Own(g)'] = 0
    BY <1>0, <1>1 DEF FInv, RunsSoFar, AnswersAgreeWithOrders, Own
  <2> QED BY <2>1 DEF RunsSoFar, AnswersAgreeWithOrders, Own
<1> QED BY <1>3, <1>4, <1>5, <1>6, <1>7 DEF FInv

LEMMA FInvInductive == FInv /\ [ServiceNext]_serviceVars => FInv'
<1> SUFFICES ASSUME FInv, [ServiceNext]_serviceVars PROVE FInv'
  OBVIOUS
<1>0. IInv'
  BY ServiceKeepsIInv
<1>1. ASSUME NEW f \in Flow, FlowStep(f) PROVE FInv'
  BY <1>0, <1>1, AskKeepsFInv, UploadKeepsFInv, CreateKeepsFInv, EnterKeepsFInv,
     RunKeepsFInv DEF FlowStep
<1>2. ASSUME NEW f \in Flow, LoseAnswer(f) PROVE FInv'
  <2> DEFINE p == [flow[f] EXCEPT !.stage = "done", !.result = "lost"]
  <2>1. flow[f] \in Progress
    BY DEF FInv, FlowTypes
  <2>2. /\ p \in Progress /\ p.stage = "done" /\ p.result = "lost"
        /\ p.challenge = Own(f) /\ p.reference = flow[f].reference
    BY <2>1 DEF Progress, Own
  <2>3. /\ flow[f].stage # "start" /\ flow' = [flow EXCEPT ![f] = p]
        /\ UNCHANGED <<handed, call, filed, grant, runs, entries>>
    BY <1>2 DEF LoseAnswer, Finish, vars, history
  <2>4. EntriesOnlyGo
    BY <2>3 DEF EntriesOnlyGo, FInv, FlowTypes
  <2> HIDE DEF p
  <2> QED BY <1>0, <2>2, <2>3, <2>4, FlowStops
<1>3. CASE RestartService
  BY <1>0, <1>3, RestartKeepsFInv
<1>4. CASE Stray
  <2>1. UNCHANGED <<flow, handed, call, filed, grant, runs>> /\ entries' = Registry!Reap
    BY <1>4 DEF Stray, Registry!RefuseUse, vars, history
  <2> QED BY <1>0, <2>1, ReapedGo, QuietStep
<1>5. CASE World \/ UNCHANGED serviceVars
  <2>1. UNCHANGED <<flow, handed, call, filed, grant, runs, entries>>
    BY <1>5 DEF World, Tick, SignList, WriteFile, serviceVars, vars, history
  <2>2. EntriesOnlyGo
    BY <2>1 DEF EntriesOnlyGo, FInv, FlowTypes
  <2> QED BY <1>0, <2>1, <2>2, QuietStep
<1> QED BY <1>1, <1>2, <1>3, <1>4, <1>5 DEF ServiceNext

LEMMA FInvStarts == ServiceInit => FInv
<1> SUFFICES ASSUME ServiceInit PROVE FInv
  OBVIOUS
<1>0. /\ IInv
      /\ flow = [f \in Flow |-> [stage |-> "start", challenge |-> NoChallenge,
                                 reference |-> NoReference, sent |-> 0, result |-> "none"]]
      /\ handed = [f \in Flow |-> NoBundle] /\ call = [f \in Flow |-> NoCall]
      /\ entries = [r \in Reference |-> NoEntry] /\ filed = [r \in Reference |-> NoEntry]
  BY InitIInv DEF ServiceInit, Init, Registry!Init, Flow
<1>1. \A f \in Flow : flow[f].stage = "start" /\ Own(f) = NoChallenge /\ Idle(f)
  BY <1>0 DEF Own, Idle
<1>2. FlowTypes
  BY <1>0 DEF FlowTypes, Progress
<1>3. ChallengesOwned /\ BundlesOwned /\ StepsInOrder
  BY <1>0, <1>1 DEF ChallengesOwned, BundlesOwned, StepsInOrder, Idle
<1>4. RunsSoFar /\ AnswersAgreeWithOrders
  BY <1>1 DEF RunsSoFar, AnswersAgreeWithOrders
<1> QED BY <1>0, <1>2, <1>3, <1>4 DEF FInv

-----------------------------------------------------------------------------
(***************************************************************************)
(* The invariant behind HonestFlowsAreNotRefused, which alone says nothing *)
(* of a flow before its answer.  The request ID of an honest flow is its   *)
(* own, so a challenge pending under it is its own; what it files, hands   *)
(* over and executes is what its challenge was granted for; and its entry  *)
(* and its challenge go only when their time is up or in a restart.        *)
(***************************************************************************)
OwnRequest(f) == Script[f].action.request_id

\* The challenge, or the reference, of f is past its time, or was lost in a restart.
Overdue(f)   == restarts > 0 \/ grant[Own(f)].expires_at <= now
Withdrawn(f) == restarts > 0 \/ filed[flow[f].reference].expires_at <= now

Surroundings ==
  /\ Registry!TypeOK
  /\ now <= MaxTime
  /\ \A i \in DOMAIN lists : lists[i].revoked \subseteq Revocable
  /\ \A f \in Flow : call[f] # NoCall => call[f].action = Script[f].dispatched

OwnGrant(f) ==
  /\ pending[OwnRequest(f)] \in {NoChallenge, Own(f)}
  /\ Own(f) # NoChallenge =>
       /\ WellFormed(Script[f].action)
       /\ grant[Own(f)].action = Script[f].action
       /\ grant[Own(f)].caller = Script[f].caller
       /\ grant[Own(f)].agent = Script[f].proof.agent_id
  /\ \/ flow[f].stage \in {"challenged", "uploaded"}
     \/ handed[f] # NoBundle
     \/ InStage(f, "checking")
     => pending[OwnRequest(f)] = Own(f) \/ Overdue(f)

OwnEntry(f) ==
  LET r == flow[f].reference IN
  /\ flow[f].stage \in {"uploaded", "waiting"} =>
       /\ filed[r].caller = Script[f].caller
       /\ filed[r].action = Script[f].action
       /\ filed[r].bundle = Signed(f)
  /\ flow[f].stage = "uploaded" => entries[r] = filed[r] \/ Withdrawn(f)
  /\ handed[f] # NoBundle => handed[f] = Signed(f)

OwnCall(f) ==
  LET k == call[f] IN
  k # NoCall =>
    /\ k.bundle = Signed(f) /\ k.caller = Script[f].caller
    /\ k.now <= now
    /\ k.stage # "checking" => k.challenge = Own(f)
    /\ k.stage = "decided" => k.refusal \in {"none", "status_unavailable"}

OwnAnswer(f) ==
  flow[f].stage = "done" =>
    \/ flow[f].result \in {"ALLOW", "lost", "DENY_VERIFIER_UNAVAILABLE"}
    \/ /\ flow[f].result = "DENY_REPLAY" /\ Own(f) # NoChallenge
       /\ flow[f].reference \in Reference /\ filed[flow[f].reference] # NoEntry
       /\ Overdue(f) \/ Withdrawn(f)

Unimpeded(f) == OwnGrant(f) /\ OwnEntry(f) /\ OwnCall(f) /\ OwnAnswer(f)

HInv == FInv /\ Surroundings /\ \A f \in Flow : Honest(f) => Unimpeded(f)

\* What a flow signs is a bundle of the receiver's.
LEMMA SignedType ==
  ASSUME NEW f \in Flow, Own(f) \in Challenge
  PROVE  Signed(f) \in Bundle
<1>1. Script[f].proof \in [agent_id : Agent, signer : Agent, context : Action,
                           delegations : Seq(Certificate)]
  BY ScriptFields, ReceiverAssumption
<1> QED BY <1>1, ScriptFields DEF Signed, Bundle, Own

\* The registry keeps its types inside the service, the clock its bound, the lists
\* hold only what the principal revokes, and a call stays the one dispatched.
LEMMA SurroundingsKept == FInv /\ Surroundings /\ [ServiceNext]_serviceVars => Surroundings'
<1> SUFFICES ASSUME FInv, Surroundings, [ServiceNext]_serviceVars PROVE Surroundings'
  OBVIOUS
<1> DEFINE Worldly == /\ now <= MaxTime
                      /\ \A i \in DOMAIN lists : lists[i].revoked \subseteq Revocable
           Dispatched == \A f \in Flow :
                           call[f] # NoCall => call[f].action = Script[f].dispatched
<1>0. /\ TypeOK /\ Registry!TypeOK /\ Worldly /\ Dispatched /\ now \in Nat
      /\ flow \in [Flow -> Progress] /\ IInv /\ IInv'
      /\ Registry!Reap \in [Reference -> Registry!Stored \cup {NoEntry}]
  BY ServiceKeepsIInv DEF FInv, FlowTypes, IInv, TypeOK, Surroundings, Registry!TypeOK,
     Registry!Reap
<1>1. ASSUME NEW f \in Flow, AskChallenge(f) \/ EnterReceiver(f) \/ RunCall(f)
      PROVE  UNCHANGED <<entries, filed, uses, now, lists>>
  <2>1. CASE AskChallenge(f)
    BY <2>1 DEF AskChallenge, IssueChallenge, environment
  <2>2. CASE EnterReceiver(f)
    BY <2>2 DEF EnterReceiver, Enter, environment
  <2>3. CASE RunCall(f)
    BY <2>3 DEF RunCall, Refuse, Admit, Verify, VerifierFails, Reject, Commit, Deny,
       InvokeHandler, environment
  <2> QED BY <1>1, <2>1, <2>2, <2>3
<1>2. Registry!TypeOK'
  <2>1. ASSUME NEW f \in Flow, Upload(f) PROVE Registry!TypeOK'
    <3>0. now' = now /\ Own(f) \in Challenge
      BY <1>0, <2>1 DEF Upload, vars, environment, FInv, ChallengesOwned, Progress, Own
    <3>1. CASE Registry!RefuseFull
      BY <1>0, <3>0, <3>1 DEF Registry!RefuseFull, Registry!TypeOK
    <3>2. ASSUME NEW r \in Reference,
                 Registry!Register(r, Script[f].caller, Script[f].action, Signed(f))
          PROVE  Registry!TypeOK'
      <4> DEFINE stored == [caller |-> Script[f].caller, action |-> Script[f].action,
                            bundle |-> Signed(f), expires_at |-> now + Ttl]
      <4>1. stored \in Registry!Stored
        <5>1. now + Ttl \in Nat
          BY <1>0, ServiceAssumption
        <5> QED BY <3>0, <5>1, SignedType, ScriptFields DEF Registry!Stored
      <4>2. /\ entries' = [Registry!Reap EXCEPT ![r] = stored]
            /\ filed' = [filed EXCEPT ![r] = stored] /\ uses' = uses
        BY <3>2 DEF Registry!Register
      <4> HIDE DEF stored
      <4> QED BY <1>0, <3>0, <4>1, <4>2 DEF Registry!TypeOK
    <3> QED BY <2>1, <3>1, <3>2 DEF Upload
  <2>2. ASSUME NEW f \in Flow, CreateWorkOrder(f) PROVE Registry!TypeOK'
    <3> DEFINE r == flow[f].reference
               call0 == [caller |-> Script[f].caller, action |-> Script[f].dispatched,
                         at |-> now]
    <3>0. now' = now /\ r \in Reference /\ call0 \in Registry!Use
      BY <1>0, <2>2, ScriptFields DEF CreateWorkOrder, vars, environment, FInv,
         BundlesOwned, Registry!Use
    <3> HIDE DEF r
    <3>1. CASE Registry!RefuseUse(r, Script[f].caller, Script[f].dispatched)
      BY <1>0, <3>0, <3>1 DEF Registry!RefuseUse, Registry!TypeOK
    <3>2. CASE Registry!Consume(r, Script[f].caller, Script[f].dispatched)
      <4>1. entries' = [Registry!Reap EXCEPT ![r] = NoEntry] /\ filed' = filed
            /\ uses' = [uses EXCEPT ![r] = Append(@, call0)]
        BY <3>2 DEF Registry!Consume
      <4> HIDE DEF call0
      <4> QED BY <1>0, <3>0, <4>1 DEF Registry!TypeOK
    <3> QED BY <2>2, <3>1, <3>2 DEF CreateWorkOrder, r
  <2>3. CASE RestartService
    BY <1>0, <2>3 DEF RestartService, Restart, Registry!Forget, Registry!TypeOK
  <2>4. CASE Stray
    BY <1>0, <2>4 DEF Stray, Registry!RefuseUse, Registry!TypeOK, vars, environment
  <2>5. CASE World
    <3>1. now' = now \/ now' = now + 1
      BY <2>5, Zenon DEF World, Tick, SignList, WriteFile
    <3>2. UNCHANGED <<entries, filed, uses>>
      BY <2>5 DEF World
    <3> QED BY <1>0, <3>1, <3>2 DEF Registry!TypeOK
  <2>6. ASSUME NEW f \in Flow, LoseAnswer(f) PROVE Registry!TypeOK'
    BY <1>0, <2>6 DEF LoseAnswer, Registry!TypeOK, vars, environment
  <2>7. CASE UNCHANGED serviceVars
    BY <1>0, <2>7 DEF serviceVars, Registry!TypeOK, vars, environment
  <2>8. ASSUME NEW f \in Flow, AskChallenge(f) \/ EnterReceiver(f) \/ RunCall(f)
        PROVE  Registry!TypeOK'
    BY <1>0, <1>1, <2>8 DEF Registry!TypeOK
  <2> QED BY <2>1, <2>2, <2>3, <2>4, <2>5, <2>6, <2>7, <2>8 DEF ServiceNext, FlowStep
<1>3. Worldly'
  <2>1. CASE UNCHANGED <<now, lists>>
    BY <1>0, <2>1
  <2>2. CASE World
    <3>1. CASE Tick
      BY <1>0, <3>1, ReceiverAssumption DEF Tick
    <3>2. ASSUME NEW new \in SUBSET Revocable, SignList(new) PROVE Worldly'
      <4> DEFINE last == IF lists = << >> THEN {} ELSE lists[Len(lists)].revoked
                 list == [revoked |-> new \cup last, updated_at |-> now]
      <4>1. lists \in Seq(StatusList) /\ lists' = Append(lists, list) /\ now' = now
        BY <1>0, <3>2 DEF SignList, TypeOK
      <4>2. list.revoked \subseteq Revocable
        BY <1>0, <4>1
      <4> HIDE DEF list
      <4>3. \A i \in DOMAIN lists' : lists'[i] = list \/ (i \in DOMAIN lists /\ lists'[i] = lists[i])
        BY <4>1
      <4> QED BY <1>0, <4>1, <4>2, <4>3
    <3>3. ASSUME NEW list \in 0..Len(lists), WriteFile(list) PROVE Worldly'
      BY <1>0, <3>3 DEF WriteFile
    <3> QED BY <2>2, <3>1, <3>2, <3>3 DEF World
  <2>3. CASE Stray \/ UNCHANGED serviceVars
    BY <2>1, <2>3 DEF Stray, serviceVars, vars, environment
  <2>4. CASE RestartService
    BY <2>1, <2>4 DEF RestartService, Restart
  <2>5. ASSUME NEW f \in Flow, FlowStep(f) \/ LoseAnswer(f) PROVE Worldly'
    BY <1>1, <2>1, <2>5 DEF FlowStep, LoseAnswer, Upload, CreateWorkOrder, vars, environment
  <2> QED BY <2>2, <2>3, <2>4, <2>5 DEF ServiceNext
<1>4. Dispatched'
  <2>1. CASE UNCHANGED call
    BY <1>0, <2>1
  <2>2. ASSUME NEW f \in Flow, EnterReceiver(f) PROVE Dispatched'
    <3>1. /\ call'[f].action = Script[f].dispatched
          /\ \A g \in Flow : g # f => call'[g] = call[g]
      BY <1>0, <2>2 DEF EnterReceiver, Enter, TypeOK, Flow
    <3> QED BY <1>0, <3>1
  <2>3. ASSUME NEW f \in Flow, RunCall(f) PROVE Dispatched'
    <3>1. /\ call[f] # NoCall
          /\ \A g \in Flow : g # f => call'[g] = call[g]
      BY <1>0, <2>3, CallStep DEF RunCall, Flow
    <3>2. call'[f] # NoCall => call'[f].action = call[f].action
      <4>0. call[f] \in Call /\ call \in [Thread -> Call \cup {NoCall}] /\ f \in Thread
        BY <1>0, <3>1 DEF TypeOK, Flow
      <4>1. CASE Admit(f) \/ Commit(f)
        BY <4>0, <4>1 DEF Admit, Commit, Call
      <4>2. CASE Refuse(f) \/ VerifierFails(f) \/ Reject(f) \/ Deny(f) \/ InvokeHandler(f)
        <5>1. \E reason : Return(f, reason)
          BY <4>2 DEF Refuse, VerifierFails, Reject, Deny, InvokeHandler
        <5> QED BY <4>0, <5>1 DEF Return
      <4> QED BY <2>3, <4>1, <4>2 DEF RunCall, Verify
    <3> QED BY <1>0, <3>1, <3>2
  <2>4. CASE RestartService
    BY <2>4 DEF RestartService, Restart, Flow
  <2>5. CASE World \/ Stray \/ UNCHANGED serviceVars
    BY <2>1, <2>5 DEF World, Tick, SignList, WriteFile, Stray, serviceVars, vars
  <2>6. ASSUME NEW f \in Flow,
               AskChallenge(f) \/ Upload(f) \/ CreateWorkOrder(f) \/ LoseAnswer(f)
        PROVE  Dispatched'
    BY <2>1, <2>6 DEF AskChallenge, IssueChallenge, Upload, CreateWorkOrder, LoseAnswer, vars
  <2> QED BY <2>2, <2>3, <2>4, <2>5, <2>6 DEF ServiceNext, FlowStep
<1> QED BY <1>2, <1>3, <1>4 DEF Surroundings

\* An honest flow that does not move itself: the step leaves what is the flow's own,
\* or takes its challenge or its entry when their time is up or in a restart.
LEMMA Bystander ==
  ASSUME HInv, Surroundings', TypeOK', NEW h \in Flow, Honest(h),
         flow'[h] = flow[h], handed'[h] = handed[h], call'[h] = call[h],
         now <= now', restarts <= restarts',
         \/ pending'[OwnRequest(h)] = pending[OwnRequest(h)]
         \/ /\ pending'[OwnRequest(h)] = NoChallenge
            /\ restarts' > 0 \/ ~ Live(pending[OwnRequest(h)], now),
         Own(h) # NoChallenge => grant'[Own(h)] = grant[Own(h)],
         \A r \in Reference : filed[r] # NoEntry => filed'[r] = filed[r],
         flow[h].stage = "uploaded" =>
           \/ entries'[flow[h].reference] = entries[flow[h].reference]
           \/ restarts' > 0 \/ ~ Registry!Unexpired(filed[flow[h].reference])
  PROVE  Unimpeded(h)'
<1> DEFINE c == Own(h)
           r == flow[h].reference
<1>0. /\ TypeOK /\ Registry!TypeOK /\ Unimpeded(h) /\ FInv
      /\ flow[h] \in Progress /\ now \in Nat /\ now' \in Nat
      /\ restarts \in Nat /\ restarts' \in Nat
      /\ Own(h)' = c /\ Signed(h)' = Signed(h) /\ OwnRequest(h)' = OwnRequest(h)
  BY DEF HInv, FInv, IInv, FlowTypes, TypeOK, Surroundings, Own, Signed, OwnRequest
<1>1. c # NoChallenge => c \in Challenge /\ grant[c] # NoGrant /\ grant[c].expires_at \in Nat
  <2>1. c # NoChallenge => c \in Challenge /\ grant[c] # NoGrant
    BY <1>0 DEF FInv, ChallengesOwned, Progress, Own
  <2>2. c \in Challenge /\ grant[c] # NoGrant => grant[c] \in Grant
    BY <1>0 DEF TypeOK
  <2> QED BY <2>1, <2>2 DEF Grant
<1>2. flow[h].stage \in {"uploaded", "waiting"} => r \in Reference /\ filed[r] # NoEntry
  BY <1>0 DEF FInv, BundlesOwned
<1>3. r \in Reference /\ filed[r] # NoEntry => filed'[r] = filed[r] /\ filed[r].expires_at \in Nat
  BY <1>0 DEF Registry!TypeOK, Registry!Stored
<1>4. c # NoChallenge /\ Overdue(h) => Overdue(h)'
  BY <1>0, <1>1 DEF Overdue
<1>5. r \in Reference /\ filed[r] # NoEntry /\ Withdrawn(h) => Withdrawn(h)'
  BY <1>0, <1>3 DEF Withdrawn
<1>6. \/ flow[h].stage \in {"challenged", "uploaded"} \/ handed[h] # NoBundle
      \/ InStage(h, "checking")
      => c # NoChallenge
  <2>1. flow[h].stage \in {"challenged", "uploaded"} => c # NoChallenge
    BY <1>0 DEF FInv, ChallengesOwned
  <2>2. handed[h] # NoBundle => handed[h] \in Bundle /\ handed[h].challenge = c
    BY <1>0 DEF FInv, FlowTypes, BundlesOwned
  <2>3. call[h] # NoCall => call[h].bundle \in Bundle /\ call[h].bundle.challenge = c
    BY <1>0, CallFields DEF FInv, BundlesOwned, Flow
  <2>4. \A b \in Bundle : b.challenge \in Challenge
    BY DEF Bundle
  <2> QED BY <2>1, <2>2, <2>3, <2>4, ReceiverAssumption DEF InStage
<1>7. OwnGrant(h)'
  <2>1. OwnGrant(h)
    BY <1>0 DEF Unimpeded
  <2>2. pending'[OwnRequest(h)] \in {NoChallenge, c}
    BY <2>1 DEF OwnGrant
  <2>3. ASSUME \/ flow[h].stage \in {"challenged", "uploaded"} \/ handed[h] # NoBundle
               \/ InStage(h, "checking")
        PROVE  pending'[OwnRequest(h)] = c \/ Overdue(h)'
    <3>1. c # NoChallenge /\ (pending[OwnRequest(h)] = c \/ Overdue(h))
      BY <1>6, <2>1, <2>3 DEF OwnGrant
    <3>2. CASE Overdue(h)
      BY <1>4, <3>1, <3>2
    <3>3. CASE pending[OwnRequest(h)] = c
      <4>1. CASE pending'[OwnRequest(h)] = pending[OwnRequest(h)]
        BY <3>3, <4>1
      <4>2. CASE restarts' > 0
        BY <4>2 DEF Overdue
      <4>3. CASE ~ Live(c, now)
        <5>1. Overdue(h)
          BY <1>0, <1>1, <3>1, <4>3 DEF Live, Overdue
        <5> QED BY <1>4, <3>1, <5>1
      <4> QED BY <3>3, <4>1, <4>2, <4>3
    <3> QED BY <3>1, <3>2, <3>3
  <2>4. c # NoChallenge => grant'[c] = grant[c]
    OBVIOUS
  <2> QED BY <1>0, <2>1, <2>2, <2>3, <2>4 DEF OwnGrant, InStage
<1>8. OwnEntry(h)'
  <2>1. OwnEntry(h)
    BY <1>0 DEF Unimpeded
  <2>2. ASSUME flow[h].stage = "uploaded"
        PROVE  entries'[r] = filed'[r] \/ Withdrawn(h)'
    <3>1. r \in Reference /\ filed[r] # NoEntry /\ filed'[r] = filed[r]
      BY <1>2, <1>3, <2>2
    <3>2. CASE Withdrawn(h)
      BY <1>5, <3>1, <3>2
    <3>3. CASE entries[r] = filed[r] /\ entries'[r] = entries[r]
      BY <3>1, <3>3
    <3>4. CASE restarts' > 0
      BY <3>4 DEF Withdrawn
    <3>5. CASE ~ Registry!Unexpired(filed[r])
      <4>1. Withdrawn(h)
        BY <1>0, <1>3, <3>1, <3>5 DEF Withdrawn, Registry!Unexpired
      <4> QED BY <1>5, <3>1, <4>1
    <3> QED BY <2>1, <2>2, <3>2, <3>3, <3>4, <3>5 DEF OwnEntry
  <2> QED BY <1>0, <1>2, <1>3, <2>1, <2>2 DEF OwnEntry
<1>9. OwnCall(h)'
  <2>1. OwnCall(h)
    BY <1>0 DEF Unimpeded
  <2>2. call[h] # NoCall => call[h].now \in Nat
    BY <1>0, CallFields DEF Flow
  <2> QED BY <1>0, <2>1, <2>2 DEF OwnCall
<1>10. OwnAnswer(h)'
  <2>1. OwnAnswer(h)
    BY <1>0 DEF Unimpeded
  <2> QED BY <1>0, <1>3, <1>4, <1>5, <2>1 DEF OwnAnswer
<1> QED BY <1>7, <1>8, <1>9, <1>10 DEF Unimpeded

\* Reaping takes a challenge, or an entry, only when its time is up.
LEMMA ReapedLate ==
  ASSUME NEW q \in RequestId
  PROVE  \/ Reaped(now)[q] = pending[q]
         \/ Reaped(now)[q] = NoChallenge /\ ~ Live(pending[q], now)
BY DEF Reaped

LEMMA EntryReapedLate ==
  ASSUME FInv, NEW r \in Reference
  PROVE  Registry!Reap[r] = entries[r] \/ ~ Registry!Unexpired(filed[r])
BY DEF FInv, BundlesOwned, Registry!Reap, Registry!Unexpired

LEMMA HonestScript ==
  ASSUME NEW h \in Flow, Honest(h)
  PROVE  /\ Script[h].dispatched = Script[h].action /\ ~ Script[h].replay
         /\ Script[h].proof.agent_id = Subject[Script[h].caller]
         /\ OwnRequest(h) \in RequestId
         /\ \A g \in Flow : g # h =>
              /\ OwnRequest(h) # Script[g].action.request_id
              /\ OwnRequest(h) # Script[g].dispatched.request_id
BY ScriptFields DEF Honest, OwnRequest, RequestId

\* An honest flow asks when nothing is pending under its request ID; nobody else's
\* challenge is filed there.
LEMMA AskHonest ==
  ASSUME HInv, Surroundings', TypeOK', NEW f \in Flow, AskChallenge(f),
         NEW h \in Flow, Honest(h)
  PROVE  Unimpeded(h)'
<1> DEFINE s == Script[f]
<1>0. /\ FInv /\ TypeOK /\ flow \in [Flow -> Progress]
      /\ flow[f].stage = "start" /\ Own(f) = NoChallenge /\ Idle(f)
      /\ IssueChallenge(s.action, s.caller)
      /\ UNCHANGED <<entries, filed, uses, handed, call, now, restarts>>
      /\ s.action.request_id \in RequestId
  BY ScriptFields DEF AskChallenge, HInv, FInv, IInv, FlowTypes, ChallengesOwned,
     StepsInOrder, IssueChallenge, environment, RequestId
<1>1. CASE h # f
  <2>1. flow'[h] = flow[h]
    BY <1>0, <1>1 DEF AskChallenge, Finish
  <2>2. \/ pending'[OwnRequest(h)] = pending[OwnRequest(h)]
        \/ /\ pending'[OwnRequest(h)] = NoChallenge
           /\ ~ Live(pending[OwnRequest(h)], now)
    <3>1. pending'[OwnRequest(h)] = Reaped(now)[OwnRequest(h)]
      BY <1>0, <1>1, HonestScript DEF IssueChallenge, Reaped
    <3> QED BY <3>1, ReapedLate, HonestScript
  <2>3. Own(h) # NoChallenge => grant'[Own(h)] = grant[Own(h)]
    <3>1. grant' = grant \/ \E c \in Challenge : \E g : grant[c] = NoGrant /\ grant' = [grant EXCEPT ![c] = g]
      BY <1>0 DEF IssueChallenge
    <3>2. Own(h) # NoChallenge => Own(h) \in Challenge /\ grant[Own(h)] # NoGrant
      BY <1>0 DEF FInv, ChallengesOwned, Progress, Own
    <3> QED BY <1>0, <3>1, <3>2 DEF TypeOK
  <2>4. now <= now' /\ restarts <= restarts'
    BY <1>0 DEF TypeOK
  <2> QED BY <1>0, <2>1, <2>2, <2>3, <2>4, Bystander
<1>2. CASE h = f
  <2> DEFINE q == OwnRequest(f)
  <2>0. /\ pending[q] = NoChallenge /\ Reaped(now)[q] = NoChallenge
        /\ q = s.action.request_id /\ q \in RequestId
    BY <1>0, <1>2 DEF HInv, Unimpeded, OwnGrant, Reaped, Live, OwnRequest
  <2>1. CASE answer' # "ALLOW"
    <3>1. answer' = "DENY_VERIFIER_UNAVAILABLE" /\ pending' = Reaped(now)
      BY <1>0, <2>0, <2>1 DEF IssueChallenge
    <3>2. /\ flow'[f].stage = "done" /\ flow'[f].result = "DENY_VERIFIER_UNAVAILABLE"
          /\ Own(f)' = NoChallenge
      BY <1>0, <2>1, <3>1 DEF AskChallenge, Finish, Progress, Own
    <3>3. pending'[q] = NoChallenge
      BY <2>0, <3>1
    <3>4. handed'[f] = NoBundle /\ call'[f] = NoCall
      BY <1>0 DEF Idle
    <3> QED
      BY <1>2, <3>2, <3>3, <3>4 DEF Unimpeded, OwnGrant, OwnEntry, OwnCall, OwnAnswer,
         InStage, OwnRequest
  <2>2. CASE answer' = "ALLOW"
    <3>1. PICK c \in Challenge :
            /\ grant[c] = NoGrant
            /\ grant' = [grant EXCEPT ![c] =
                 [action |-> s.action, caller |-> s.caller, agent |-> Subject[s.caller],
                  expires_at |-> now + ChallengeLifetime]]
            /\ pending' = [Reaped(now) EXCEPT ![q] = c]
      BY <1>0, <2>0, <2>2 DEF IssueChallenge
    <3>2. /\ pending'[q] = c /\ grant'[c].action = s.action /\ grant'[c].caller = s.caller
          /\ grant'[c].agent = Subject[s.caller]
      BY <1>0, <2>0, <3>1 DEF TypeOK, Reaped
    <3>3. flow'[f].stage = "challenged" /\ Own(f)' = c
      BY <1>0, <2>0, <2>2, <3>2 DEF AskChallenge, Progress, Own
    <3>4. handed'[f] = NoBundle /\ call'[f] = NoCall
      BY <1>0 DEF Idle
    <3>5. WellFormed(s.action) /\ Script[f].proof.agent_id = Subject[s.caller]
      BY <1>0, <1>2, HonestScript DEF IssueChallenge
    <3> QED
      BY <1>2, <3>2, <3>3, <3>4, <3>5 DEF Unimpeded, OwnGrant, OwnEntry, OwnCall,
         OwnAnswer, InStage, OwnRequest
  <2> QED BY <2>1, <2>2
<1> QED BY <1>1, <1>2

\* What an honest flow uploads is what its challenge was granted for.
LEMMA UploadHonest ==
  ASSUME HInv, Surroundings', TypeOK', NEW f \in Flow, Upload(f),
         NEW h \in Flow, Honest(h)
  PROVE  Unimpeded(h)'
<1>0. /\ FInv /\ TypeOK /\ Registry!TypeOK /\ flow \in [Flow -> Progress]
      /\ flow[f].stage = "challenged" /\ Own(f) # NoChallenge /\ Idle(f)
      /\ UNCHANGED <<pending, grant, handed, call, now, restarts>>
  BY DEF Upload, vars, memory, history, environment, HInv, FInv, IInv, FlowTypes,
     ChallengesOwned, StepsInOrder, Surroundings
<1>1. CASE h # f
  <2>1. flow'[h] = flow[h]
    BY <1>0, <1>1 DEF Upload, Finish
  <2>2. \A r \in Reference : filed[r] # NoEntry =>
          filed'[r] = filed[r] /\ entries'[r] = Registry!Reap[r]
    <3>1. CASE Registry!RefuseFull
      BY <3>1 DEF Registry!RefuseFull
    <3>2. ASSUME NEW q \in Reference,
                 Registry!Register(q, Script[f].caller, Script[f].action, Signed(f))
          PROVE  \A r \in Reference : filed[r] # NoEntry =>
                   filed'[r] = filed[r] /\ entries'[r] = Registry!Reap[r]
      BY <1>0, <3>2 DEF Registry!Register, Registry!Reap, Registry!TypeOK
    <3> QED BY <3>1, <3>2 DEF Upload
  <2>3. flow[h].stage = "uploaded" =>
          flow[h].reference \in Reference /\ filed[flow[h].reference] # NoEntry
    BY <1>0 DEF FInv, BundlesOwned
  <2>4. flow[h].stage = "uploaded" =>
          \/ entries'[flow[h].reference] = entries[flow[h].reference]
          \/ ~ Registry!Unexpired(filed[flow[h].reference])
    BY <1>0, <2>2, <2>3, EntryReapedLate
  <2>5. now <= now' /\ restarts <= restarts'
    BY <1>0 DEF TypeOK
  <2> QED BY <1>0, <2>1, <2>2, <2>4, <2>5, Bystander
<1>2. CASE h = f
  <2>0. OwnGrant(f) /\ Own(f)' = Own(f) /\ OwnGrant(f)'
    <3>1. OwnGrant(f)
      BY <1>2 DEF HInv, Unimpeded
    <3>2. Own(f)' = Own(f)
      <4>1. CASE Finish(f, "DENY_VERIFIER_UNAVAILABLE")
        BY <1>0, <4>1 DEF Finish, Own, Progress
      <4>2. ASSUME NEW r \in Reference,
                   flow' = [flow EXCEPT ![f].stage = "uploaded", ![f].reference = r]
            PROVE  Own(f)' = Own(f)
        BY <1>0, <4>2 DEF Own, Progress
      <4> QED BY <4>1, <4>2 DEF Upload
    <3>3. pending[OwnRequest(f)] = Own(f) \/ Overdue(f)
      BY <1>0, <3>1 DEF OwnGrant
    <3> QED BY <1>0, <3>1, <3>2, <3>3 DEF OwnGrant, Overdue, OwnRequest
  <2>1. OwnCall(f)' /\ handed'[f] = NoBundle
    BY <1>0 DEF Idle, OwnCall
  <2>2. CASE Finish(f, "DENY_VERIFIER_UNAVAILABLE")
    <3>1. flow'[f].stage = "done" /\ flow'[f].result = "DENY_VERIFIER_UNAVAILABLE"
      BY <1>0, <2>2 DEF Finish, Progress
    <3> QED BY <1>2, <2>0, <2>1, <3>1 DEF Unimpeded, OwnEntry, OwnAnswer
  <2>3. ASSUME NEW r \in Reference,
               Registry!Register(r, Script[f].caller, Script[f].action, Signed(f)),
               flow' = [flow EXCEPT ![f].stage = "uploaded", ![f].reference = r]
        PROVE  Unimpeded(f)'
    <3>1. flow'[f].stage = "uploaded" /\ flow'[f].reference = r /\ Signed(f)' = Signed(f)
      BY <1>0, <2>3 DEF Progress, Signed
    <3> DEFINE stored == [caller |-> Script[f].caller, action |-> Script[f].action,
                          bundle |-> Signed(f), expires_at |-> now + Ttl]
    <3>2. filed'[r] = stored /\ entries'[r] = stored
      BY <1>0, <2>3 DEF Registry!Register, Registry!TypeOK, Registry!Reap
    <3> QED BY <2>0, <2>1, <3>1, <3>2 DEF Unimpeded, OwnEntry, OwnAnswer
  <2> QED BY <1>2, <2>2, <2>3 DEF Upload
<1> QED BY <1>1, <1>2

\* An honest flow's reference is refused for its time or a restart alone, and nobody
\* else's call takes its entry.
LEMMA CreateHonest ==
  ASSUME HInv, Surroundings', TypeOK', NEW f \in Flow, CreateWorkOrder(f),
         NEW h \in Flow, Honest(h)
  PROVE  Unimpeded(h)'
<1> DEFINE r == flow[f].reference
           caller == Script[f].caller
           action == Script[f].dispatched
           sent == [flow[f] EXCEPT !.sent = @ + 1]
           reason == Registry!Answer(r, caller, action)
<1>0. /\ FInv /\ TypeOK /\ Registry!TypeOK /\ flow \in [Flow -> Progress]
      /\ flow[f].stage = "uploaded" /\ Own(f) # NoChallenge /\ Idle(f)
      /\ r \in Reference /\ filed[r] # NoEntry /\ filed[r].bundle.challenge = Own(f)
      /\ UNCHANGED <<pending, grant, filed, call, now, restarts>>
  BY DEF CreateWorkOrder, vars, memory, history, environment, HInv, FInv, IInv, FlowTypes,
     ChallengesOwned, BundlesOwned, StepsInOrder, Surroundings, Registry!RefuseUse,
     Registry!Consume
<1>1. CASE h # f
  <2>1. flow'[h] = flow[h] /\ handed'[h] = handed[h]
    BY <1>0, <1>1 DEF CreateWorkOrder, FInv, FlowTypes
  <2>2. flow[h].stage = "uploaded" =>
          /\ flow[h].reference \in Reference /\ filed[flow[h].reference] # NoEntry
          /\ flow[h].reference # r
    BY <1>0, <1>1 DEF FInv, BundlesOwned, ChallengesOwned
  <2>3. \A q \in Reference : q # r => entries'[q] = Registry!Reap[q]
    <3>1. Registry!Reap \in [Reference -> Registry!Stored \cup {NoEntry}]
      BY <1>0 DEF Registry!Reap, Registry!TypeOK
    <3> QED BY <3>1 DEF CreateWorkOrder, Registry!RefuseUse, Registry!Consume
  <2>4. flow[h].stage = "uploaded" =>
          \/ entries'[flow[h].reference] = entries[flow[h].reference]
          \/ ~ Registry!Unexpired(filed[flow[h].reference])
    BY <1>0, <2>2, <2>3, EntryReapedLate
  <2>5. now <= now' /\ restarts <= restarts'
    BY <1>0 DEF TypeOK
  <2> QED BY <1>0, <2>1, <2>4, <2>5, Bystander
<1>2. CASE h = f
  <2>0. /\ OwnGrant(f) /\ OwnEntry(f)
        /\ action = Script[f].action /\ ~ Script[f].replay
        /\ pending[OwnRequest(f)] = Own(f) \/ Overdue(f)
    BY <1>0, <1>2, HonestScript DEF HInv, Unimpeded, OwnGrant
  <2>1. OwnCall(f)'
    BY <1>0 DEF Idle, OwnCall
  <2>s. /\ sent.challenge = Own(f) /\ sent.reference = r
        /\ \A stage, result : LET p == [sent EXCEPT !.stage = stage, !.result = result]
                                  q == [sent EXCEPT !.stage = stage] IN
             /\ p.stage = stage /\ p.result = result
             /\ p.challenge = Own(f) /\ p.reference = r
             /\ q.stage = stage /\ q.challenge = Own(f) /\ q.reference = r
    BY <1>0 DEF Progress, Own
  <2>2. reason \in {"ALLOW", "DENY_REPLAY"} /\ (reason = "DENY_REPLAY" => Withdrawn(f))
    <3>1. /\ filed[r].caller = caller /\ filed[r].action = action
          /\ filed[r].bundle = Signed(f)
          /\ entries[r] = filed[r] \/ Withdrawn(f)
      BY <1>0, <2>0 DEF OwnEntry
    <3>2. action \notin Malformed
      BY <1>0, <2>0 DEF OwnGrant, Malformed
    <3>3. Registry!Reap[r] # NoEntry => Registry!Reap[r] = filed[r]
      BY <1>0 DEF Registry!Reap, FInv, BundlesOwned
    <3>4. Registry!Reap[r] = NoEntry => Withdrawn(f)
      <4>1. CASE entries[r] = filed[r]
        BY <1>0, <4>1 DEF Registry!Reap, Registry!Unexpired, Withdrawn, Registry!TypeOK,
           Registry!Stored
      <4>2. CASE Withdrawn(f)
        BY <4>2
      <4> QED BY <3>1, <4>1, <4>2
    <3> QED BY <3>1, <3>2, <3>3, <3>4 DEF Registry!Answer
  <2> HIDE DEF reason, sent
  <2>3. CASE Registry!RefuseUse(r, caller, action)
             /\ flow' = [flow EXCEPT ![f] = Answered(f, sent, reason)] /\ UNCHANGED handed
    <3>1. reason = "DENY_REPLAY" /\ Withdrawn(f)
      BY <2>2, <2>3 DEF Registry!RefuseUse, reason
    <3>2. Answered(f, sent, reason) = [sent EXCEPT !.stage = "done", !.result = reason]
      BY <2>0 DEF Answered
    <3>3. /\ flow'[f].stage = "done" /\ flow'[f].result = "DENY_REPLAY"
          /\ flow'[f].reference = r /\ Own(f)' = Own(f)
      <4>1. flow'[f] = [sent EXCEPT !.stage = "done", !.result = "DENY_REPLAY"]
        BY <1>0, <2>3, <3>1, <3>2
      <4> QED BY <2>s, <4>1 DEF Own
    <3>4. handed'[f] = NoBundle /\ Withdrawn(f)'
      BY <1>0, <2>3, <3>1, <3>3 DEF Idle, Withdrawn
    <3>5. OwnGrant(f)'
      BY <1>0, <2>0, <3>3, <3>4 DEF OwnGrant, OwnRequest, InStage, Idle
    <3> QED BY <1>0, <1>2, <2>1, <3>3, <3>4, <3>5 DEF Unimpeded, OwnEntry, OwnAnswer
  <2>4. CASE /\ Registry!Consume(r, caller, action)
             /\ handed' = [handed EXCEPT ![f] = entries[r].bundle]
             /\ flow' = [flow EXCEPT ![f] = [sent EXCEPT !.stage = "waiting"]]
    <3>1. entries[r] = filed[r]
      BY <1>0, <2>4 DEF Registry!Consume, Registry!Answer, Registry!Reap,
         Registry!Unexpired, FInv, BundlesOwned
    <3>2. /\ flow'[f].stage = "waiting" /\ flow'[f].reference = r
          /\ Own(f)' = Own(f) /\ Signed(f)' = Signed(f)
      BY <1>0, <2>4, <2>s DEF Own, Signed
    <3>3. handed'[f] = Signed(f)
      BY <1>0, <2>0, <2>4, <3>1 DEF OwnEntry, FInv, FlowTypes
    <3>4. OwnGrant(f)'
      <4>1. pending[OwnRequest(f)] = Own(f) \/ Overdue(f)'
        BY <1>0, <2>0, <3>2 DEF Overdue
      <4> QED BY <1>0, <2>0, <3>2, <4>1 DEF OwnGrant, OwnRequest
    <3> QED BY <1>0, <1>2, <2>0, <2>1, <3>2, <3>3, <3>4 DEF Unimpeded, OwnEntry, OwnAnswer
  <2> QED BY <1>2, <2>3, <2>4 DEF CreateWorkOrder, sent, reason
<1> QED BY <1>1, <1>2

\* An honest flow enters the receiver with its own proof, and another's entry takes no
\* challenge that is still live.
LEMMA EnterHonest ==
  ASSUME HInv, Surroundings', TypeOK', NEW f \in Flow, EnterReceiver(f),
         NEW h \in Flow, Honest(h)
  PROVE  Unimpeded(h)'
<1>0. /\ FInv /\ TypeOK /\ flow \in [Flow -> Progress]
      /\ handed[f] # NoBundle /\ call[f] = NoCall /\ handed' = [handed EXCEPT ![f] = NoBundle]
      /\ handed \in [Flow -> Bundle \cup {NoBundle}]
      /\ pending' = Reaped(now) /\ now \in Nat
      /\ UNCHANGED <<entries, filed, flow, grant, now, restarts>>
      /\ \A g \in Flow : g # f => call'[g] = call[g]
      /\ call'[f].bundle = handed[f] /\ call'[f].caller = Script[f].caller
      /\ call'[f].now = now /\ call'[f].stage = "checking"
  BY DEF EnterReceiver, Enter, history, environment, HInv, FInv, IInv, FlowTypes, TypeOK, Flow
<1>1. CASE h # f
  <2>1. flow'[h] = flow[h] /\ handed'[h] = handed[h] /\ call'[h] = call[h]
    BY <1>0, <1>1
  <2>2. now <= now' /\ restarts <= restarts'
    BY <1>0 DEF TypeOK
  <2> QED BY <1>0, <2>1, <2>2, Bystander, ReapedLate, HonestScript
<1>2. CASE h = f
  <2> DEFINE q == OwnRequest(f)
  <2>0. OwnGrant(f) /\ OwnEntry(f) /\ OwnAnswer(f)
    BY <1>2 DEF HInv, Unimpeded
  <2>1. /\ Own(f)' = Own(f) /\ Signed(f)' = Signed(f) /\ Own(f) \in Challenge
        /\ grant[Own(f)] \in Grant
    <3>1. handed[f] \in Bundle /\ handed[f].challenge = Own(f)
      BY <1>0 DEF FInv, BundlesOwned
    <3>2. Own(f) \in Challenge
      BY <3>1 DEF Bundle
    <3>3. grant[Own(f)] # NoGrant
      BY <1>0, <3>2, ReceiverAssumption DEF FInv, ChallengesOwned
    <3> QED BY <1>0, <3>2, <3>3 DEF Own, Signed, TypeOK
  <2>2. OwnGrant(f)'
    <3>1. pending'[q] \in {NoChallenge, Own(f)}
      BY <1>0, <1>2, <2>0, HonestScript DEF OwnGrant, Reaped
    <3>2. pending'[q] = Own(f) \/ Overdue(f)
      <4>1. pending[q] = Own(f) \/ Overdue(f)
        BY <1>0, <2>0 DEF OwnGrant
      <4>2. ~ Live(Own(f), now) => Overdue(f)
        BY <1>0, <2>1, ReceiverAssumption DEF Live, Overdue, Grant
      <4> QED BY <1>0, <1>2, <4>1, <4>2, ReapedLate, HonestScript
    <3> QED BY <1>0, <2>0, <2>1, <3>1, <3>2 DEF OwnGrant, Overdue, OwnRequest
  <2>3. OwnCall(f)'
    BY <1>0, <2>0, <2>1 DEF OwnCall, OwnEntry
  <2>4. OwnEntry(f)' /\ OwnAnswer(f)'
    BY <1>0, <2>0, <2>1 DEF OwnEntry, OwnAnswer, Overdue, Withdrawn
  <2> QED BY <1>2, <2>2, <2>3, <2>4 DEF Unimpeded
<1> QED BY <1>1, <1>2

\* What an honest flow brings into the receiver.
LEMMA HonestCall ==
  ASSUME HInv, NEW f \in Flow, Honest(f), call[f] # NoCall
  PROVE  LET k == call[f]
             d == Script[f].proof.delegations
             a == Script[f].action
         IN /\ k.action = a /\ k.action.request_id = OwnRequest(f)
            /\ k.caller = Script[f].caller
            /\ k.bundle.agent_id = Script[f].proof.agent_id
            /\ k.bundle.signer = Script[f].proof.agent_id
            /\ k.bundle.context = a /\ k.bundle.delegations = d
            /\ k.bundle.challenge = Own(f)
            /\ k.stage # "checking" => k.challenge = Own(f)
            /\ k.now \in Nat /\ k.now <= MaxTime
            /\ Own(f) \in Challenge /\ Own(f) # NoChallenge
            /\ grant[Own(f)].action = a /\ grant[Own(f)].caller = Script[f].caller
            /\ grant[Own(f)].agent = Script[f].proof.agent_id
<1>1. /\ Unimpeded(f) /\ TypeOK /\ FInv /\ Surroundings /\ now \in Nat /\ f \in Thread
  BY DEF HInv, FInv, IInv, TypeOK, Flow
<1>2. Script[f].proof.signer = Script[f].proof.agent_id /\ Script[f].dispatched = Script[f].action
  BY DEF Honest
<1>3. call[f].now \in Nat /\ call[f].now <= now /\ call[f].bundle \in Bundle
  BY <1>1, CallFields DEF Unimpeded, OwnCall
<1>4. call[f].bundle = Signed(f) /\ call[f].caller = Script[f].caller
      /\ (call[f].stage # "checking" => call[f].challenge = Own(f))
      /\ call[f].action = Script[f].action
  BY <1>1, <1>2 DEF Unimpeded, OwnCall, Surroundings
<1>5. Own(f) \in Challenge /\ Own(f) # NoChallenge
  BY <1>3, <1>4, ReceiverAssumption DEF Bundle, Signed, Own
<1>6. /\ grant[Own(f)].action = Script[f].action /\ grant[Own(f)].caller = Script[f].caller
      /\ grant[Own(f)].agent = Script[f].proof.agent_id
  BY <1>1, <1>5 DEF Unimpeded, OwnGrant
<1>7. call[f].now <= MaxTime
  BY <1>1, <1>3, ReceiverAssumption DEF Surroundings
<1> QED BY <1>2, <1>3, <1>4, <1>5, <1>6, <1>7 DEF Signed, OwnRequest, Own

\* The prechecks let it pass unless its challenge is gone.
LEMMA HonestPrecheck ==
  ASSUME HInv, NEW f \in Flow, Honest(f), InStage(f, "checking")
  PROVE  \/ Precheck(call[f]) = "ALLOW" /\ pending[OwnRequest(f)] = Own(f)
         \/ Precheck(call[f]) = "DENY_REPLAY" /\ Overdue(f)
<1> DEFINE d == Script[f].proof.delegations
           c == pending[OwnRequest(f)]
<1>1. call[f] # NoCall
  BY DEF InStage
<1>2. c \in {NoChallenge, Own(f)} /\ (c = Own(f) \/ Overdue(f))
  BY DEF HInv, Unimpeded, OwnGrant
<1>3. d # << >> /\ d[Len(d)].issuer = TrustedRoot
  BY DEF Honest
<1>4. CASE c = NoChallenge
  BY <1>1, <1>2, <1>4, HonestCall DEF Precheck
<1>5. CASE c = Own(f)
  <2>1. Precheck(call[f]) = "ALLOW"
    BY <1>1, <1>3, <1>5, HonestCall DEF Precheck
  <2> QED BY <1>5, <2>1
<1> QED BY <1>2, <1>4, <1>5

\* The SDK finds no fault in it.
LEMMA HonestFaultless ==
  ASSUME HInv, NEW f \in Flow, Honest(f), InStage(f, "verifying")
  PROVE  Faults(call[f]) = {}
<1> DEFINE k == call[f]
           d == Script[f].proof.delegations
<1>1. k # NoCall /\ k.stage = "verifying"
  BY DEF InStage
<1>2. /\ k.bundle.context = grant[k.challenge].action /\ k.bundle.challenge = k.challenge
      /\ k.bundle.signer = k.bundle.agent_id /\ k.bundle.delegations = d
      /\ d[1].subject = k.bundle.agent_id
      /\ \A i \in 1..(Len(d) - 1) : d[i].issuer = d[i + 1].subject
  BY <1>1, HonestCall DEF Honest
<1>3. AudienceAccepted(d)
  <2>1. ConstraintsAllow(d, Script[f].action)
    BY DEF Honest
  <2> QED BY <2>1 DEF ConstraintsAllow, AudienceAccepted, Satisfied, Audience, ResourcePath,
             MaxAmount, AllowedValues
<1> QED BY <1>2, <1>3 DEF Faults

\* Nothing in its chain is expired, revoked or out of bounds: only the status list
\* can be missing.
LEMMA HonestRefusal ==
  ASSUME HInv, NEW f \in Flow, Honest(f), call[f] # NoCall
  PROVE  Refusals(call[f], served) \subseteq {"status_unavailable"}
<1> DEFINE d == Script[f].proof.delegations
<1>1. /\ call[f].bundle.delegations = d /\ call[f].action = Script[f].action
      /\ call[f].now \in Nat /\ call[f].now <= MaxTime
  BY HonestCall
<1>2. d \in Seq(Certificate)
  BY ScriptFields, ReceiverAssumption
<1>3. \A cert \in Elements(d) :
        /\ cert.expires_at \in Nat /\ cert.expires_at > MaxTime
        /\ WorkOrderScope \in cert.scope /\ cert.cert_id \notin Revocable
  <2>1. Elements(d) \subseteq Certificate
    BY <1>2 DEF Elements
  <2> QED BY <2>1, ReceiverAssumption DEF Honest
<1>4. ~ Expired(d, call[f].now)
  BY <1>1, <1>3, ReceiverAssumption DEF Expired
<1>5. Usable(served, call[f].now) => ~ Revoked(d, served)
  <2>1. served # 0 => served \in DOMAIN lists
    BY DEF HInv, FInv, IInv, TypeOK
  <2> QED BY <1>3, <2>1 DEF Usable, Revoked, HInv, Surroundings
<1>6. ConstraintsAllow(d, Script[f].action)
  BY DEF Honest
<1> QED BY <1>1, <1>3, <1>4, <1>5, <1>6 DEF Refusals, Refusal

\* Released, it is allowed or told of the missing list.
LEMMA HonestDecision ==
  ASSUME HInv, NEW f \in Flow, Honest(f), InStage(f, "decided")
  PROVE  Decision(call[f]) \in {"ALLOW", "DENY_VERIFIER_UNAVAILABLE"}
<1>1. call[f] # NoCall /\ call[f].refusal \in {"none", "status_unavailable"}
  BY DEF InStage, HInv, Unimpeded, OwnCall
<1>2. CASE call[f].refusal = "none"
  <2>1. LocalPolicy(Script[f].action, Script[f].proof.delegations) = "ALLOW"
    BY DEF Honest
  <2> QED BY <1>1, <1>2, <2>1, HonestCall DEF Decision
<1>3. CASE call[f].refusal = "status_unavailable"
  BY <1>3 DEF Decision, DecisionReason
<1> QED BY <1>1, <1>2, <1>3

\* A step of execute for an honest flow: it goes on as before, or ends with an answer
\* an honest flow may get.
LEMMA HonestStep ==
  ASSUME HInv, TypeOK', NEW f \in Flow, Honest(f), RunCall(f)
  PROVE  /\ pending'[OwnRequest(f)] \in {NoChallenge, pending[OwnRequest(f)]}
         /\ UNCHANGED <<grant, now, restarts>>
         /\ \/ /\ call'[f] # NoCall /\ call'[f].stage \in {"verifying", "decided"}
               /\ call'[f].bundle = call[f].bundle /\ call'[f].caller = call[f].caller
               /\ call'[f].now = call[f].now /\ call'[f].challenge = Own(f)
               /\ call'[f].stage = "decided" =>
                    call'[f].refusal \in {"none", "status_unavailable"}
            \/ call'[f] = NoCall /\ answer' \in {"ALLOW", "DENY_VERIFIER_UNAVAILABLE"}
            \/ call'[f] = NoCall /\ answer' = "DENY_REPLAY" /\ Overdue(f)
<1> DEFINE k == call[f]
<1>0. /\ TypeOK /\ IInv /\ f \in Thread /\ call \in [Thread -> Call \cup {NoCall}]
      /\ pending \in [RequestId -> Challenge \cup {NoChallenge}]
      /\ OwnRequest(f) \in RequestId
  BY HonestScript DEF HInv, FInv, IInv, TypeOK, Flow
<1>1. k # NoCall /\ k \in Call
  BY <1>0 DEF RunCall, Refuse, Admit, Verify, VerifierFails, Reject, Commit, Deny,
         InvokeHandler, InStage
<1>2. ASSUME NEW reason, Return(f, reason)
      PROVE  call'[f] = NoCall /\ answer' = reason
  BY <1>0, <1>2 DEF Return
<1>3. CASE Refuse(f)
  <2>1. UNCHANGED <<pending, grant, now, restarts>>
    BY <1>3 DEF Refuse, memory, history, environment
  <2>2. CASE Precheck(k) # "ALLOW" /\ Return(f, Precheck(k))
    BY <1>2, <1>3, <2>1, <2>2, HonestPrecheck DEF Refuse
  <2>3. CASE Return(f, "DENY_VERIFIER_UNAVAILABLE")
    BY <1>2, <2>1, <2>3
  <2> QED BY <1>3, <2>2, <2>3 DEF Refuse
<1>4. CASE Admit(f)
  <2>1. /\ pending[OwnRequest(f)] = Own(f) /\ k.action.request_id = OwnRequest(f)
        /\ Own(f) \in Challenge /\ k.bundle.challenge = Own(f)
    BY <1>1, <1>4, HonestPrecheck, HonestCall DEF Admit
  <2>2. /\ call' = [call EXCEPT ![f] = [k EXCEPT !.stage = "verifying", !.challenge = Own(f)]]
        /\ pending' = [pending EXCEPT ![OwnRequest(f)] = NoChallenge]
        /\ UNCHANGED <<grant, now, restarts>>
    BY <1>4, <2>1 DEF Admit, environment
  <2>3. /\ call'[f].stage = "verifying" /\ call'[f].challenge = Own(f)
        /\ call'[f].bundle = k.bundle /\ call'[f].caller = k.caller /\ call'[f].now = k.now
    BY <1>0, <1>1, <2>2 DEF Call
  <2>4. call'[f] # NoCall
    <3>1. [k EXCEPT !.stage = "verifying", !.challenge = Own(f)] \in Call
      BY <1>1, <2>1, ReceiverAssumption DEF Call
    <3> QED BY <1>0, <2>2, <3>1, ReceiverAssumption
  <2> QED BY <1>0, <2>2, <2>3, <2>4
<1>5. CASE VerifierFails(f)
  BY <1>2, <1>5 DEF VerifierFails, environment
<1>6. CASE Reject(f)
  <2>1. k.challenge \notin claimed
    BY <1>0, <1>6 DEF Reject, IInv, InFlightFaithful
  <2>2. Faults(k) = {}
    BY <1>6, HonestFaultless DEF Reject
  <2> QED BY <1>6, <2>1, <2>2 DEF Reject
<1>7. CASE Commit(f)
  <2>1. PICK r \in {"none", "status_unavailable"} :
          call' = [call EXCEPT ![f] = [k EXCEPT !.stage = "decided", !.list = served,
                                                !.refusal = r]]
    BY <1>1, <1>7, HonestRefusal DEF Commit
  <2>2. UNCHANGED <<pending, grant, now, restarts>> /\ k.challenge = Own(f)
    BY <1>1, <1>7, HonestCall DEF Commit, environment, InStage
  <2>3. /\ call'[f].stage = "decided" /\ call'[f].refusal = r
        /\ call'[f].challenge = k.challenge
        /\ call'[f].bundle = k.bundle /\ call'[f].caller = k.caller /\ call'[f].now = k.now
    BY <1>0, <1>1, <2>1 DEF Call
  <2>4. call'[f] # NoCall
    <3>1. [k EXCEPT !.stage = "decided", !.list = served, !.refusal = r] \in Call
      <4>1. served \in Nat /\ k.challenge # NoChallenge
        BY <1>0, <1>1, <2>2, HonestCall DEF TypeOK
      <4> QED BY <1>1, <4>1 DEF Call, Refusal
    <3> QED BY <1>0, <2>1, <3>1, ReceiverAssumption
  <2> QED BY <2>2, <2>3, <2>4
<1>8. CASE Deny(f)
  BY <1>2, <1>8, HonestDecision DEF Deny, memory, history, environment
<1>9. CASE InvokeHandler(f)
  BY <1>2, <1>9 DEF InvokeHandler, memory, environment
<1> QED BY <1>3, <1>4, <1>5, <1>6, <1>7, <1>8, <1>9 DEF RunCall, Verify

LEMMA RunHonest ==
  ASSUME HInv, Surroundings', TypeOK', NEW f \in Flow, RunCall(f),
         NEW h \in Flow, Honest(h)
  PROVE  Unimpeded(h)'
<1>0. /\ FInv /\ TypeOK /\ IInv /\ flow \in [Flow -> Progress]
      /\ call[f] # NoCall /\ handed[f] = NoBundle
      /\ UNCHANGED <<entries, filed, handed, grant, now, restarts>>
      /\ flow[f].stage = "waiting" \/ (flow[f].stage = "done" /\ flow[f].result = "lost")
  <2>1. FInv /\ TypeOK /\ IInv /\ flow \in [Flow -> Progress]
    BY DEF HInv, FInv, FlowTypes, IInv
  <2>2. call[f] # NoCall
    BY DEF RunCall, Refuse, Admit, Verify, VerifierFails, Reject, Commit, Deny,
       InvokeHandler, InStage
  <2>3. handed[f] = NoBundle
    BY <2>1, <2>2 DEF FInv, StepsInOrder
  <2>4. UNCHANGED <<entries, filed, handed, grant, now, restarts>>
    BY DEF RunCall, Refuse, Admit, Verify, VerifierFails, Reject, Commit, Deny,
       InvokeHandler, environment, history
  <2> QED BY <2>1, <2>2, <2>3, <2>4, InTransit
<1>1. CASE h # f
  <2>1. flow'[h] = flow[h]
    BY <1>0, <1>1 DEF RunCall
  <2>2. call'[h] = call[h]
    <3>1. call \in [Thread -> Call \cup {NoCall}]
      BY <1>0 DEF TypeOK
    <3>2. \A reason : Return(f, reason) => call'[h] = call[h]
      BY <1>1, <3>1 DEF Return, Flow
    <3>3. Admit(f) \/ Commit(f) => call'[h] = call[h]
      BY <1>1, <3>1 DEF Admit, Commit, Flow
    <3> QED BY <3>2, <3>3 DEF RunCall, Refuse, Verify, VerifierFails, Reject, Deny,
               InvokeHandler
  <2>3. pending'[OwnRequest(h)] = pending[OwnRequest(h)]
    <3>1. CASE Admit(f)
      <4>1. call[f].action = Script[f].dispatched
        BY <1>0 DEF HInv, Surroundings
      <4>2. OwnRequest(h) # call[f].action.request_id
        BY <1>1, <4>1, HonestScript
      <4> QED BY <1>0, <3>1, <4>2, HonestScript DEF Admit, TypeOK
    <3>2. CASE ~ Admit(f)
      BY <3>2 DEF RunCall, Refuse, Verify, VerifierFails, Reject, Commit, Deny,
         InvokeHandler, memory
    <3> QED BY <3>1, <3>2
  <2>4. now <= now' /\ restarts <= restarts'
    BY <1>0 DEF TypeOK
  <2> QED BY <1>0, <2>1, <2>2, <2>3, <2>4, Bystander
<1>2. CASE h = f
  <2> DEFINE q == OwnRequest(f)
             moves == call'[f] = NoCall /\ flow[f].stage = "waiting"
  <2>0. /\ OwnGrant(f) /\ OwnEntry(f) /\ OwnCall(f) /\ OwnAnswer(f)
        /\ ~ Script[f].replay /\ Own(f) # NoChallenge
    BY <1>0, <1>2, HonestScript, HonestCall DEF HInv, Unimpeded
  <2>1. /\ pending'[q] \in {NoChallenge, pending[q]}
        /\ \/ /\ call'[f] # NoCall /\ call'[f].stage \in {"verifying", "decided"}
              /\ call'[f].bundle = call[f].bundle /\ call'[f].caller = call[f].caller
              /\ call'[f].now = call[f].now /\ call'[f].challenge = Own(f)
              /\ call'[f].stage = "decided" =>
                   call'[f].refusal \in {"none", "status_unavailable"}
           \/ call'[f] = NoCall /\ answer' \in {"ALLOW", "DENY_VERIFIER_UNAVAILABLE"}
           \/ call'[f] = NoCall /\ answer' = "DENY_REPLAY" /\ Overdue(f)
    BY <1>2, HonestStep
  <2>2. /\ Own(f)' = Own(f) /\ Signed(f)' = Signed(f)
        /\ flow'[f].reference = flow[f].reference
        /\ ~ moves => flow'[f] = flow[f]
        /\ moves => flow'[f].stage = "done" /\ flow'[f].result = answer'
    <3>1. CASE ~ moves
      BY <3>1 DEF RunCall, Own, Signed
    <3>2. CASE moves
      <4>1. flow' = [flow EXCEPT ![f] = [flow[f] EXCEPT !.stage = "done", !.result = answer']]
        BY <2>0, <3>2 DEF RunCall, Answered
      <4>2. flow[f] \in Progress
        BY <1>0
      <4> QED BY <1>0, <3>2, <4>1, <4>2 DEF Progress, Own, Signed
    <3> QED BY <3>1, <3>2
  <2>3. flow'[f].stage \in {"waiting", "done"}
    BY <1>0, <2>2
  <2>4. OwnGrant(f)'
    <3>1. ~ InStage(f, "checking")' /\ handed'[f] = NoBundle
      BY <1>0, <2>1 DEF InStage
    <3> QED BY <1>0, <2>0, <2>1, <2>2, <2>3, <3>1 DEF OwnGrant, OwnRequest
  <2>5. OwnEntry(f)'
    <3>1. flow'[f].stage = "waiting" => flow[f].stage = "waiting"
      BY <1>0, <2>2
    <3> QED BY <1>0, <2>0, <2>2, <2>3, <3>1 DEF OwnEntry
  <2>6. OwnCall(f)'
    BY <1>0, <2>0, <2>1, <2>2 DEF OwnCall
  <2>7. OwnAnswer(f)'
    <3>1. Overdue(f)' = Overdue(f) /\ Withdrawn(f)' = Withdrawn(f)
      BY <1>0, <2>2 DEF Overdue, Withdrawn
    <3>2. CASE ~ moves
      BY <1>0, <2>0, <2>2, <3>1, <3>2 DEF OwnAnswer
    <3>3. CASE moves
      <4>1. flow[f].reference \in Reference /\ filed[flow[f].reference] # NoEntry
        BY <1>0, <3>3 DEF FInv, BundlesOwned
      <4> QED BY <1>0, <2>0, <2>1, <2>2, <3>1, <3>3, <4>1 DEF OwnAnswer
    <3> QED BY <3>2, <3>3
  <2> QED BY <1>2, <2>4, <2>5, <2>6, <2>7 DEF Unimpeded
<1> QED BY <1>1, <1>2

\* Giving up, a stranger's refused call and the world outside leave an honest flow
\* as it was.
LEMMA QuietHonest ==
  ASSUME HInv, Surroundings', TypeOK', NEW h \in Flow, Honest(h),
         flow'[h] = flow[h] \/ (flow'[h].stage = "done" /\ flow'[h].result = "lost"
                                /\ flow'[h].challenge = Own(h)),
         UNCHANGED <<handed, call, pending, grant, filed, restarts>>, now <= now',
         entries' = entries \/ entries' = Registry!Reap
  PROVE  Unimpeded(h)'
<1>0. /\ FInv /\ TypeOK /\ Registry!TypeOK /\ Unimpeded(h)
      /\ now \in Nat /\ now' \in Nat /\ restarts \in Nat
  BY DEF HInv, FInv, IInv, TypeOK, Surroundings
<1>1. CASE flow'[h] = flow[h]
  <2>1. flow[h].stage = "uploaded" =>
          flow[h].reference \in Reference /\ filed[flow[h].reference] # NoEntry
    BY <1>0 DEF FInv, BundlesOwned
  <2>2. flow[h].stage = "uploaded" =>
          \/ entries'[flow[h].reference] = entries[flow[h].reference]
          \/ ~ Registry!Unexpired(filed[flow[h].reference])
    BY <1>0, <2>1, EntryReapedLate
  <2> QED BY <1>0, <1>1, <2>2, Bystander
<1>2. CASE flow'[h].stage = "done" /\ flow'[h].result = "lost" /\ flow'[h].challenge = Own(h)
  <2>1. Own(h)' = Own(h) /\ Signed(h)' = Signed(h) /\ OwnRequest(h)' = OwnRequest(h)
    BY <1>2 DEF Own, Signed, OwnRequest
  <2>2. Own(h) # NoChallenge /\ Overdue(h) => Overdue(h)'
    <3>1. Own(h) # NoChallenge => Own(h) \in Challenge /\ grant[Own(h)] # NoGrant
      BY <1>0 DEF FInv, FlowTypes, ChallengesOwned, Progress, Own
    <3>2. Own(h) # NoChallenge => grant[Own(h)] \in Grant
      BY <1>0, <3>1 DEF TypeOK
    <3> QED BY <1>0, <2>1, <3>2 DEF Overdue, Grant
  <2>3. handed[h] # NoBundle \/ InStage(h, "checking") => Own(h) # NoChallenge
    <3>1. handed[h] # NoBundle => handed[h] \in Bundle /\ handed[h].challenge = Own(h)
      BY <1>0 DEF FInv, FlowTypes, BundlesOwned
    <3>2. InStage(h, "checking") => Own(h) # NoChallenge
      BY HonestCall DEF InStage
    <3> QED BY <3>1, <3>2, ReceiverAssumption DEF Bundle
  <2>4. OwnGrant(h)'
    BY <1>0, <1>2, <2>1, <2>2, <2>3 DEF Unimpeded, OwnGrant, InStage
  <2>5. OwnEntry(h)' /\ OwnAnswer(h)'
    BY <1>0, <1>2, <2>1 DEF Unimpeded, OwnEntry, OwnAnswer
  <2>6. OwnCall(h)'
    <3>1. call[h] # NoCall => call[h].now \in Nat
      BY HonestCall
    <3> QED BY <1>0, <2>1, <3>1 DEF Unimpeded, OwnCall
  <2> QED BY <2>4, <2>5, <2>6 DEF Unimpeded
<1> QED BY <1>1, <1>2

\* A restart takes the challenges and the entries, which it excuses.
LEMMA RestartHonest ==
  ASSUME HInv, Surroundings', RestartService, NEW h \in Flow, Honest(h)
  PROVE  Unimpeded(h)'
<1>0. /\ FInv /\ TypeOK /\ Unimpeded(h) /\ flow \in [Flow -> Progress]
      /\ UNCHANGED <<filed, grant, now>> /\ restarts' > 0
      /\ pending'[OwnRequest(h)] = NoChallenge
      /\ handed'[h] = NoBundle /\ call'[h] = NoCall
  <2>1. FInv /\ TypeOK /\ Unimpeded(h) /\ flow \in [Flow -> Progress] /\ restarts \in Nat
    BY DEF HInv, FInv, FlowTypes, IInv, TypeOK
  <2>2. /\ Restart /\ UNCHANGED filed /\ handed' = [f \in Flow |-> NoBundle]
    BY DEF RestartService, Registry!Forget
  <2>3. restarts' > 0
    BY <2>1, <2>2 DEF Restart
  <2> QED BY <2>1, <2>2, <2>3, HonestScript DEF Restart, Flow
<1>1. /\ Own(h)' = Own(h) /\ Signed(h)' = Signed(h) /\ flow'[h].reference = flow[h].reference
      /\ flow'[h] = flow[h] \/ (flow'[h].stage = "done" /\ flow'[h].result = "lost")
  BY <1>0 DEF RestartService, Own, Signed, Progress
<1>2. Overdue(h)' /\ Withdrawn(h)'
  BY <1>0 DEF Overdue, Withdrawn
<1>3. OwnGrant(h)'
  BY <1>0, <1>1, <1>2 DEF Unimpeded, OwnGrant, OwnRequest
<1>4. OwnEntry(h)'
  BY <1>0, <1>1, <1>2 DEF Unimpeded, OwnEntry
<1>5. OwnCall(h)' /\ OwnAnswer(h)'
  BY <1>0, <1>1, <1>2 DEF Unimpeded, OwnCall, OwnAnswer
<1> QED BY <1>3, <1>4, <1>5 DEF Unimpeded

LEMMA HInvInductive == HInv /\ [ServiceNext]_serviceVars => HInv'
<1> SUFFICES ASSUME HInv, [ServiceNext]_serviceVars PROVE HInv'
  OBVIOUS
<1>0. FInv' /\ Surroundings' /\ TypeOK' /\ TypeOK
  BY FInvInductive, SurroundingsKept DEF HInv, FInv, IInv
<1> SUFFICES ASSUME NEW h \in Flow, Honest(h) PROVE Unimpeded(h)'
  BY <1>0 DEF HInv, Honest, ConstraintsAllow, LocalPolicy
<1>1. ASSUME NEW f \in Flow, FlowStep(f) PROVE Unimpeded(h)'
  BY <1>0, <1>1, AskHonest, UploadHonest, CreateHonest, EnterHonest, RunHonest DEF FlowStep
<1>2. ASSUME NEW f \in Flow, LoseAnswer(f) PROVE Unimpeded(h)'
  <2>1. flow'[h] = flow[h] \/ (flow'[h].stage = "done" /\ flow'[h].result = "lost"
                               /\ flow'[h].challenge = Own(h))
    BY <1>2 DEF LoseAnswer, Finish, HInv, FInv, FlowTypes, Progress, Own
  <2>2. UNCHANGED <<handed, call, pending, grant, filed, restarts, now, entries>>
    BY <1>2 DEF LoseAnswer, vars, memory, history, environment
  <2> QED BY <1>0, <2>1, <2>2, QuietHonest DEF TypeOK
<1>3. CASE RestartService
  BY <1>0, <1>3, RestartHonest
<1>4. CASE Stray
  BY <1>0, <1>4, QuietHonest DEF Stray, Registry!RefuseUse, vars, memory, history,
     environment, TypeOK
<1>5. CASE World \/ UNCHANGED serviceVars
  <2>1. UNCHANGED <<handed, call, pending, grant, filed, restarts, entries, flow>>
    BY <1>5 DEF World, Tick, SignList, WriteFile, serviceVars, vars, memory, history,
       environment
  <2>2. now' = now \/ now' = now + 1
    BY <1>5, Zenon DEF World, Tick, SignList, WriteFile, serviceVars, vars, environment
  <2>3. now <= now'
    BY <1>0, <2>2 DEF TypeOK
  <2> QED BY <1>0, <2>1, <2>3, QuietHonest
<1> QED BY <1>1, <1>2, <1>3, <1>4, <1>5 DEF ServiceNext

LEMMA HInvStarts == ServiceInit => HInv
<1> SUFFICES ASSUME ServiceInit PROVE HInv
  OBVIOUS
<1>0. /\ FInv /\ now = 0 /\ lists = << >> /\ call = [f \in Flow |-> NoCall]
      /\ pending = [r \in RequestId |-> NoChallenge] /\ handed = [f \in Flow |-> NoBundle]
      /\ flow = [f \in Flow |-> [stage |-> "start", challenge |-> NoChallenge,
                                 reference |-> NoReference, sent |-> 0, result |-> "none"]]
  BY FInvStarts DEF ServiceInit, Init, Flow
<1>1. Surroundings
  BY <1>0, ReceiverAssumption DEF Surroundings, Registry!TypeOK, ServiceInit, Registry!Init
<1>2. ASSUME NEW f \in Flow, Honest(f) PROVE Unimpeded(f)
  BY <1>0, <1>2, HonestScript DEF Unimpeded, OwnGrant, OwnEntry, OwnCall, OwnAnswer, Own,
     InStage, OwnRequest
<1> QED BY <1>0, <1>1, <1>2 DEF HInv

-----------------------------------------------------------------------------
\* FInv holds in the service: a proof never changes hands between the challenge an
\* interceptor was issued, the reference it uploaded under and the call inside the
\* receiver, for any number of flows, strangers and restarts.
THEOREM ServiceInvariant == ServiceSpec => []FInv
BY FInvStarts, FInvInductive, PTL DEF ServiceSpec

\* What create_work_order tells an agent is what happened: ALLOW means exactly one
\* invocation of the handler behind its challenge, a denial means none, ever.
THEOREM AgentsAreToldTheTruth == ServiceSpec => []AnswersAgreeWithOrders
<1>1. FInv => AnswersAgreeWithOrders
  BY DEF FInv
<1> QED BY <1>1, ServiceInvariant, PTL

\* The receiver keeps its promise behind the registry and the agents: whatever the
\* flows, the strangers and the restarts, a challenge is verified at most once and
\* the handler runs at most once for it.
THEOREM ServiceHandlesOnce == ServiceSpec => []HandledAtMostOnce
<1>1. FInv => HandledAtMostOnce
  BY DEF FInv, IInv, Counted, HandledAtMostOnce
<1> QED BY <1>1, ServiceInvariant, PTL

\* HInv holds in the service: what an honest flow was granted, filed, handed over and
\* presents stays its own, and goes only with its time or a restart.
THEOREM HonestInvariant == ServiceSpec => []HInv
BY HInvStarts, HInvInductive, PTL DEF ServiceSpec

\* Every variable of the service keeps its type: the receiver's, the registry's, the
\* flows' and what is in transit between them.
THEOREM ServiceTypeCorrect == ServiceSpec => []ServiceTypeOK
<1>1. HInv => ServiceTypeOK
  BY DEF HInv, FInv, IInv, FlowTypes, Surroundings, ServiceTypeOK
<1> QED BY <1>1, HonestInvariant, PTL

\* However many strangers, borrowed references, altered, copied and replayed calls
\* and other agents there are: an honest flow is refused only for unavailable state,
\* its own slowness or a restart.
THEOREM HonestAreServed == ServiceSpec => []HonestFlowsAreNotRefused
<1>1. HInv => HonestFlowsAreNotRefused
  <2> SUFFICES ASSUME HInv, NEW f \in Flow, Honest(f), flow[f].stage = "done"
               PROVE \/ flow[f].result \in {"ALLOW", "lost", "DENY_VERIFIER_UNAVAILABLE"}
                     \/ /\ flow[f].result = "DENY_REPLAY"
                        /\ \/ restarts > 0
                           \/ filed[flow[f].reference].expires_at <= now
                           \/ grant[flow[f].challenge].expires_at <= now
    BY DEF HonestFlowsAreNotRefused
  <2> QED BY DEF HInv, Unimpeded, OwnAnswer, Overdue, Withdrawn, Own
<1> QED BY <1>1, HonestInvariant, PTL

-----------------------------------------------------------------------------
(***************************************************************************)
(* Receiver and registry do nothing inside the service that they could not *)
(* do alone, so that what is proved of each of them alone holds here.      *)
(***************************************************************************)
Issued == {c \in Challenge : grant[c] # NoGrant}

\* A proof an agent can produce over one of the challenges given.
Presentable(bundle, challenges) ==
  \E p \in Presentation, c \in challenges :
    bundle = [agent_id |-> p.agent_id, signer |-> p.signer, context |-> p.context,
              delegations |-> p.delegations, challenge |-> c]

BundlesPresentable ==
  /\ \A r \in Reference : filed[r] # NoEntry => Presentable(filed[r].bundle, Issued)
  /\ \A f \in Flow : handed[f] # NoBundle => Presentable(handed[f], Issued)

\* A challenge that was issued stays issued.
LEMMA IssuedRemain ==
  ASSUME FInv, [ServiceNext]_serviceVars
  PROVE  Issued \subseteq Issued'
<1>1. CASE UNCHANGED grant
  BY <1>1 DEF Issued
<1>2. ASSUME NEW f \in Flow, AskChallenge(f) PROVE Issued \subseteq Issued'
  <2>1. IssueChallenge(Script[f].action, Script[f].caller)
    BY <1>2 DEF AskChallenge
  <2>2. grant \in [Challenge -> Grant \cup {NoGrant}]
    BY DEF FInv, IInv, TypeOK
  <2>3. ASSUME NEW c \in Challenge, grant[c] = NoGrant, NEW g,
               grant' = [grant EXCEPT ![c] = g]
        PROVE  Issued \subseteq Issued'
    BY <2>2, <2>3 DEF Issued
  <2>4. \/ UNCHANGED grant
        \/ \E c \in Challenge :
             grant[c] = NoGrant /\ \E g : grant' = [grant EXCEPT ![c] = g]
    BY <2>1 DEF IssueChallenge
  <2> QED BY <1>1, <2>3, <2>4
<1>3. ASSUME NEW f \in Flow, RunCall(f) PROVE UNCHANGED grant
  BY <1>3 DEF RunCall, Refuse, Admit, Verify, VerifierFails, Reject, Commit, Deny,
              InvokeHandler, history
<1>4. ASSUME NEW f \in Flow, EnterReceiver(f) PROVE UNCHANGED grant
  BY <1>4 DEF EnterReceiver, Enter, history
<1>5. ASSUME NEW f \in Flow, Upload(f) \/ CreateWorkOrder(f) \/ LoseAnswer(f)
      PROVE  UNCHANGED grant
  BY <1>5 DEF Upload, CreateWorkOrder, LoseAnswer, vars, history
<1>6. RestartService \/ Stray \/ World \/ UNCHANGED serviceVars => UNCHANGED grant
  BY DEF RestartService, Restart, Stray, World, Tick, SignList, WriteFile, serviceVars,
         vars, history
<1> QED BY <1>1, <1>2, <1>3, <1>4, <1>5, <1>6 DEF ServiceNext, FlowStep

\* What a flow signs is one of the proofs agents can produce.
LEMMA SignedPresentable ==
  ASSUME FInv, NEW f \in Flow, flow[f].stage = "challenged"
  PROVE  Presentable(Signed(f), Issued)
<1>1. Own(f) \in Issued
  BY DEF FInv, FlowTypes, Progress, ChallengesOwned, Own, Issued
<1>2. Script[f].proof \in Presentation /\ Script[f].proof.context = Script[f].action
  BY ServiceAssumption
<1> QED BY <1>1, <1>2 DEF Signed, Presentable, Own

LEMMA PresentableInductive ==
  FInv /\ BundlesPresentable /\ [ServiceNext]_serviceVars => BundlesPresentable'
<1> SUFFICES ASSUME FInv, BundlesPresentable, [ServiceNext]_serviceVars
             PROVE  BundlesPresentable'
  OBVIOUS
<1>0. /\ DOMAIN filed = Reference /\ DOMAIN handed = Flow
      /\ \A r \in Reference : entries[r] # NoEntry => entries[r] = filed[r]
  BY DEF FInv, FlowTypes, BundlesOwned
<1>1. /\ \A r \in Reference : filed[r] # NoEntry => Presentable(filed[r].bundle, Issued')
      /\ \A f \in Flow : handed[f] # NoBundle => Presentable(handed[f], Issued')
  <2>1. Issued \subseteq Issued'
    BY IssuedRemain
  <2>2. \A bundle : Presentable(bundle, Issued) => Presentable(bundle, Issued')
    BY <2>1 DEF Presentable
  <2> QED BY <2>2 DEF BundlesPresentable
<1>2. CASE UNCHANGED <<filed, handed>>
  BY <1>1, <1>2 DEF BundlesPresentable
<1>3. ASSUME NEW f \in Flow, Upload(f) PROVE BundlesPresentable'
  <2>1. /\ UNCHANGED handed /\ flow[f].stage = "challenged" /\ UNCHANGED grant
        /\ \/ UNCHANGED filed
           \/ \E r \in Reference :
                Registry!Register(r, Script[f].caller, Script[f].action, Signed(f))
    BY <1>3 DEF Upload, Registry!RefuseFull, vars, history
  <2>2. Presentable(Signed(f), Issued')
    BY <2>1, SignedPresentable DEF Issued
  <2>3. ASSUME NEW r \in Reference,
               Registry!Register(r, Script[f].caller, Script[f].action, Signed(f))
        PROVE  BundlesPresentable'
    <3>1. filed' = [filed EXCEPT ![r] =
            [caller |-> Script[f].caller, action |-> Script[f].action,
             bundle |-> Signed(f), expires_at |-> now + Ttl]]
      BY <2>3 DEF Registry!Register
    <3>2. \A q \in Reference : filed'[q] = filed[q] \/ filed'[q].bundle = Signed(f)
      BY <1>0, <3>1
    <3> QED BY <1>1, <2>1, <2>2, <3>2 DEF BundlesPresentable
  <2> QED BY <1>2, <2>1, <2>3
<1>4. ASSUME NEW f \in Flow, CreateWorkOrder(f) PROVE BundlesPresentable'
  <2>1. CASE UNCHANGED handed
    BY <1>2, <1>4, <2>1 DEF CreateWorkOrder, Registry!RefuseUse, Registry!Consume
  <2>2. CASE /\ handed' = [handed EXCEPT ![f] = entries[flow[f].reference].bundle]
             /\ Registry!Consume(flow[f].reference, Script[f].caller, Script[f].dispatched)
    <3> DEFINE r == flow[f].reference
    <3>1. r \in Reference
      BY <1>4 DEF CreateWorkOrder, FInv, BundlesOwned
    <3>2. Registry!Reap[r] # NoEntry
      BY <2>2, <3>1 DEF Registry!Consume, Registry!Answer
    <3>3. entries[r] # NoEntry
      BY <3>1, <3>2 DEF Registry!Reap
    <3>4. Presentable(entries[r].bundle, Issued')
      BY <1>0, <1>1, <3>1, <3>3
    <3>5. UNCHANGED filed
      BY <2>2 DEF Registry!Consume
    <3>6. \A g \in Flow : handed'[g] = IF g = f THEN entries[r].bundle ELSE handed[g]
      BY <1>0, <2>2
    <3> HIDE DEF r
    <3> QED BY <1>1, <3>4, <3>5, <3>6 DEF BundlesPresentable
  <2> QED BY <1>4, <2>1, <2>2 DEF CreateWorkOrder
<1>5. ASSUME NEW f \in Flow, EnterReceiver(f) PROVE BundlesPresentable'
  <2>1. UNCHANGED filed /\ handed' = [handed EXCEPT ![f] = NoBundle]
    BY <1>5 DEF EnterReceiver
  <2> QED BY <1>0, <1>1, <2>1 DEF BundlesPresentable
<1>6. CASE RestartService
  BY <1>1, <1>6 DEF RestartService, Registry!Forget, BundlesPresentable
<1>7. ASSUME NEW f \in Flow, AskChallenge(f) \/ RunCall(f) \/ LoseAnswer(f)
      PROVE  UNCHANGED <<filed, handed>>
  BY <1>7 DEF AskChallenge, RunCall, LoseAnswer
<1>8. Stray \/ World \/ UNCHANGED serviceVars => UNCHANGED <<filed, handed>>
  BY DEF Stray, World, serviceVars, Registry!RefuseUse
<1> QED BY <1>2, <1>3, <1>4, <1>5, <1>6, <1>7, <1>8 DEF ServiceNext, FlowStep

LEMMA PresentableStarts == ServiceInit => BundlesPresentable
BY DEF ServiceInit, Registry!Init, BundlesPresentable

\* A step of the service is one of the receiver, or none of its.
LEMMA ReceiverSteps ==
  FInv /\ BundlesPresentable /\ [ServiceNext]_serviceVars => [Next]_vars
<1> SUFFICES ASSUME FInv, BundlesPresentable, [ServiceNext]_serviceVars PROVE [Next]_vars
  OBVIOUS
<1>1. ASSUME NEW f \in Flow, AskChallenge(f) PROVE Next
  BY <1>1, ScriptFields DEF AskChallenge, Next
<1>2. ASSUME NEW f \in Flow, EnterReceiver(f) PROVE Next
  <2>1. /\ handed[f] # NoBundle
        /\ Enter(f, Script[f].dispatched, Script[f].caller, handed[f])
    BY <1>2 DEF EnterReceiver
  <2>2. PICK p \in Presentation, c \in Issued :
          handed[f] = [agent_id |-> p.agent_id, signer |-> p.signer, context |-> p.context,
                       delegations |-> p.delegations, challenge |-> c]
    BY <2>1 DEF BundlesPresentable, Presentable
  <2>3. c \in Challenge /\ grant[c] # NoGrant
    BY DEF Issued
  <2>4. Execute(f)
    BY <2>1, <2>2, <2>3, ScriptFields DEF Execute
  <2> QED BY <2>4 DEF Next, Flow
<1>3. ASSUME NEW f \in Flow, RunCall(f) PROVE Next
  BY <1>3 DEF RunCall, Execute, Next, Flow
<1>4. RestartService \/ World => Next
  BY DEF RestartService, World, Next
<1>5. ASSUME NEW f \in Flow, Upload(f) \/ CreateWorkOrder(f) \/ LoseAnswer(f)
      PROVE  UNCHANGED vars
  BY <1>5 DEF Upload, CreateWorkOrder, LoseAnswer
<1>6. Stray \/ UNCHANGED serviceVars => UNCHANGED vars
  BY DEF Stray, serviceVars
<1> QED BY <1>1, <1>2, <1>3, <1>4, <1>5, <1>6 DEF ServiceNext, FlowStep

\* Behind agents, registry and strangers, the receiver does what it could do alone:
\* create_work_order hands execute a proof some agent made over an issued challenge.
THEOREM ReceiverInsideService == ServiceSpec => Spec
<1>1. ServiceInit => Init
  BY DEF ServiceInit
<1> QED BY <1>1, PresentableStarts, PresentableInductive, ReceiverSteps, ServiceInvariant,
           PTL DEF ServiceSpec, Spec

\* So the service as a whole keeps the promise of WorkOrders (ImplementsWorkOrders),
THEOREM ServiceKeepsThePromise == ServiceSpec => ImplementsWorkOrders
BY ReceiverInsideService, KeepsThePromise

\* its handler runs with authority only (OrdersAreAuthorised), and for exactly what the
\* challenge was issued for (OrdersMatchGrants),
THEOREM ServiceActsWithAuthority == ServiceSpec => [](OrdersAreAuthorised /\ OrdersMatchGrants)
BY ReceiverInsideService, HandlerIsAuthorised, HandlerRunsAsGranted, PTL

\* and no stranger ends a grant, and no order rests on a certificate once known to be
\* revoked (GrantsEndTheirOwnWay, RevocationIsFinal).
THEOREM ServiceProtectsGrants == ServiceSpec => GrantsEndTheirOwnWay /\ RevocationIsFinal
BY ReceiverInsideService, GrantsAreSafe, RevocationsStay

-----------------------------------------------------------------------------
\* The registry of the service, with what is proved of it alone.
Filing == INSTANCE RegistryProofs WITH MaxClock <- MaxTime

LEMMA FilingAssumed == Filing!RegistryAssumption
<1>1. Malformed \subseteq Action /\ NoEntry \notin Filing!Stored
  BY ServiceAssumption DEF Malformed, Registry!Stored, Filing!Stored
<1>2. Filing!IsFiniteSet(Reference)
  BY ServiceAssumption DEF Filing!IsFiniteSet, IsFiniteSet
<1> QED BY <1>1, <1>2, ServiceAssumption, ReceiverAssumption DEF Filing!RegistryAssumption

LEMMA SameTable ==
  /\ Registry!Reap = Filing!Reap /\ (Registry!Full <=> Filing!Full)
  /\ \A r, caller, action :
       Registry!Answer(r, caller, action) = Filing!Answer(r, caller, action)
<1>1. Registry!Reap = Filing!Reap
  BY DEF Registry!Reap, Filing!Reap, Registry!Unexpired, Filing!Unexpired
<1>2. Registry!Full <=> Filing!Full
  <2>1. \A S : Registry!Cardinality(S) = Filing!Cardinality(S)
    BY DEF Registry!Cardinality, Filing!Cardinality
  <2>2. \A table : Registry!Held(table) = Filing!Held(table)
    BY DEF Registry!Held, Filing!Held
  <2> QED BY <1>1, <2>1, <2>2 DEF Registry!Full, Filing!Full
<1>3. \A r, caller, action :
        Registry!Answer(r, caller, action) = Filing!Answer(r, caller, action)
  BY <1>1 DEF Registry!Answer, Filing!Answer
<1> QED BY <1>1, <1>2, <1>3

LEMMA SameOperations ==
  ASSUME NEW r, NEW caller, NEW action, NEW bundle
  PROVE  /\ Registry!RefuseFull <=> Filing!RefuseFull
         /\ Registry!Forget <=> Filing!Forget
         /\ Registry!Register(r, caller, action, bundle)
              <=> Filing!Register(r, caller, action, bundle)
         /\ Registry!RefuseUse(r, caller, action) <=> Filing!RefuseUse(r, caller, action)
         /\ Registry!Consume(r, caller, action) <=> Filing!Consume(r, caller, action)
<1>1. Registry!RefuseFull <=> Filing!RefuseFull
  BY SameTable DEF Registry!RefuseFull, Filing!RefuseFull
<1>2. Registry!Forget <=> Filing!Forget
  BY DEF Registry!Forget, Filing!Forget
<1>3. Registry!Register(r, caller, action, bundle)
        <=> Filing!Register(r, caller, action, bundle)
  BY SameTable DEF Registry!Register, Filing!Register
<1>4. Registry!RefuseUse(r, caller, action) <=> Filing!RefuseUse(r, caller, action)
  BY SameTable DEF Registry!RefuseUse, Filing!RefuseUse
<1>5. Registry!Consume(r, caller, action) <=> Filing!Consume(r, caller, action)
  BY SameTable DEF Registry!Consume, Filing!Consume
<1> QED BY <1>1, <1>2, <1>3, <1>4, <1>5

\* A step of the service is one of the registry, or none of its.
LEMMA RegistrySteps ==
  FInv /\ [ServiceNext]_serviceVars => [Filing!Next]_(Filing!registryVars)
<1> SUFFICES ASSUME FInv, [ServiceNext]_serviceVars
             PROVE  Filing!Next \/ UNCHANGED <<now, entries, filed, uses>>
  BY DEF Filing!registryVars, Filing!registry
<1>1. ASSUME NEW f \in Flow, Upload(f) PROVE Filing!Next
  <2>1. UNCHANGED now
    BY <1>1 DEF Upload, vars, environment
  <2>2. CASE Registry!RefuseFull
    BY <2>1, <2>2, SameOperations DEF Filing!Next
  <2>3. ASSUME NEW r \in Reference,
               Registry!Register(r, Script[f].caller, Script[f].action, Signed(f))
        PROVE  Filing!Next
    <3>1. Own(f) \in Challenge
      BY <1>1 DEF Upload, FInv, FlowTypes, Progress, ChallengesOwned, Own
    <3>2. Signed(f) \in Bundle
      BY <3>1, SignedType
    <3>3. Filing!Call(r, Script[f].caller, Script[f].action)
      BY <2>3, <3>2, SameOperations DEF Filing!Call
    <3> QED BY <2>1, <3>3, ScriptFields DEF Filing!Next
  <2> QED BY <1>1, <2>2, <2>3 DEF Upload
<1>2. ASSUME NEW f \in Flow, CreateWorkOrder(f) PROVE Filing!Next
  <2> DEFINE r == flow[f].reference
             caller == Script[f].caller
             action == Script[f].dispatched
  <2>1. /\ UNCHANGED now /\ r \in Reference /\ caller \in Caller /\ action \in Action
        /\ Registry!RefuseUse(r, caller, action) \/ Registry!Consume(r, caller, action)
    BY <1>2, ScriptFields DEF CreateWorkOrder, vars, environment, FInv, BundlesOwned
  <2> HIDE DEF r, caller, action
  <2>2. Filing!Call(r, caller, action)
    BY <2>1, SameOperations DEF Filing!Call
  <2> QED BY <2>1, <2>2 DEF Filing!Next
<1>3. CASE RestartService
  BY <1>3, SameOperations DEF RestartService, Restart, Filing!Next
<1>4. CASE Stray
  <2>1. PICK r \in Reference, caller \in Caller, action \in Action :
          Registry!RefuseUse(r, caller, action)
    BY <1>4 DEF Stray
  <2>2. UNCHANGED now
    BY <1>4 DEF Stray, vars, environment
  <2>3. Filing!Call(r, caller, action)
    BY <2>1, SameOperations DEF Filing!Call
  <2> QED BY <2>2, <2>3 DEF Filing!Next
<1>5. CASE World
  <2>1. CASE Tick
    BY <1>5, <2>1 DEF World, Tick, Filing!Next, Filing!Tick, Filing!registry
  <2>2. CASE ~ Tick
    BY <1>5, <2>2 DEF World, SignList, WriteFile
  <2> QED BY <2>1, <2>2
<1>6. ASSUME NEW f \in Flow, AskChallenge(f) \/ RunCall(f) \/ EnterReceiver(f) \/ LoseAnswer(f)
      PROVE  UNCHANGED <<now, entries, filed, uses>>
  BY <1>6 DEF AskChallenge, IssueChallenge, RunCall, Refuse, Admit, Verify, VerifierFails,
              Reject, Commit, Deny, InvokeHandler, EnterReceiver, Enter, LoseAnswer, vars,
              environment
<1>7. UNCHANGED serviceVars => UNCHANGED <<now, entries, filed, uses>>
  BY DEF serviceVars, vars, environment
<1> QED BY <1>1, <1>2, <1>3, <1>4, <1>5, <1>6, <1>7 DEF ServiceNext, FlowStep

LEMMA RegistryRuns == ServiceSpec => Filing!Spec
<1>1. ServiceInit => Filing!InitAlone
  BY DEF ServiceInit, Init, Registry!Init, Filing!InitAlone, Filing!Init
<1> QED BY <1>1, RegistrySteps, ServiceInvariant, PTL
        DEF ServiceSpec, Filing!Spec, Filing!registryVars

\* In front of the receiver, the registry does what it could do alone: agents, tools and
\* restarts reach it only through its operations.
THEOREM RegistryInsideService == ServiceSpec => Registry!Spec
<1>1. Filing!InitAlone => Registry!InitAlone
  BY DEF Filing!InitAlone, Registry!InitAlone, Filing!Init, Registry!Init
<1>2. [Filing!Next]_(Filing!registryVars) => [Registry!Next]_<<now, Registry!registry>>
  <2>1. \A r, caller, action : Filing!Call(r, caller, action) => Registry!Call(r, caller, action)
    BY SameOperations DEF Filing!Call, Registry!Call
  <2>2. Filing!Tick => Registry!Tick
    BY DEF Filing!Tick, Registry!Tick, Filing!registry, Registry!registry
  <2>3. Filing!Next => Registry!Next
    BY <2>1, <2>2, SameOperations DEF Filing!Next, Registry!Next
  <2> QED BY <2>3 DEF Filing!registryVars, Filing!registry, Registry!registry
<1> QED BY <1>1, <1>2, RegistryRuns, PTL DEF Filing!Spec, Registry!Spec, Filing!registryVars

\* So a reference hands its proof to one call at most, as it was filed, and the registry
\* stays within its limit, whatever flows, strangers and restarts there are.
THEOREM ServiceHandsOutOnce ==
  ServiceSpec => [](Registry!UsedOnceAsFiled /\ Registry!Bounded)
<1>1. Filing!UsedOnceAsFiled => Registry!UsedOnceAsFiled
  BY DEF Filing!UsedOnceAsFiled, Registry!UsedOnceAsFiled
<1>2. Filing!Bounded => Registry!Bounded
  <2>1. \A S : Registry!Cardinality(S) = Filing!Cardinality(S)
    BY DEF Registry!Cardinality, Filing!Cardinality
  <2>2. Registry!Held(entries) = Filing!Held(entries)
    BY DEF Registry!Held, Filing!Held
  <2> QED BY <2>1, <2>2 DEF Filing!Bounded, Registry!Bounded
<1>3. ServiceSpec => []Filing!UsedOnceAsFiled /\ []Filing!Bounded
  BY RegistryRuns, FilingAssumed, Filing!HandedOutOnceAsFiled, Filing!NeverOverLimit, PTL
<1> QED BY <1>1, <1>2, <1>3, PTL

\* Nobody takes a reference from the flow that holds it: it goes by its use, by its
\* time, or in a restart (the registry's EntriesEndTheirOwnWay).
THEOREM ServiceKeepsEntries == ServiceSpec => Registry!EntriesEndTheirOwnWay
<1> DEFINE A == \A r \in Reference :
                  entries[r] # NoEntry /\ entries'[r] # entries[r] =>
                    \/ entries[r].expires_at <= now
                    \/ Len(uses'[r]) = Len(uses[r]) + 1
                    \/ Registry!Forget
           v == <<now, entries, filed, uses>>
<1>1. ServiceSpec => Filing!EntriesEndTheirOwnWay
  BY RegistryRuns, FilingAssumed, Filing!NoForeignEviction, PTL
<1>2. Filing!EntriesEndTheirOwnWay => [][A]_v
  <2> DEFINE B == \A r \in Reference :
                    entries[r] # NoEntry /\ entries'[r] # entries[r] =>
                      \/ entries[r].expires_at <= now
                      \/ Len(uses'[r]) = Len(uses[r]) + 1
                      \/ Filing!Forget
  <2>1. [B]_v => [A]_v
    BY SameOperations
  <2>2. Filing!EntriesEndTheirOwnWay => [][B]_v
    BY DEF Filing!EntriesEndTheirOwnWay, Filing!registry
  <2> HIDE DEF A, B, v
  <2> QED BY <2>1, <2>2, PTL
<1>3. [][A]_v => Registry!EntriesEndTheirOwnWay
  BY DEF Registry!EntriesEndTheirOwnWay, Registry!registry
<1> QED BY <1>1, <1>2, <1>3, PTL

=============================================================================

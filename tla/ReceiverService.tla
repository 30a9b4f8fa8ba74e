--------------------------- MODULE ReceiverService ---------------------------
(***************************************************************************)
(* The path of a work order: AuthorityInterceptor in an agent runtime      *)
(* (src/maritime_ratify/agent.py), the MCP tools and the upload route      *)
(* (service.py), the PresentationRegistry and the WorkOrderReceiver.       *)
(*                                                                         *)
(* A flow is one tool call of an agent: it asks for a challenge, signs it, *)
(* uploads the proof and dispatches the call with the reference.  Between  *)
(* two of its steps other flows, strangers, the clock, the network and a   *)
(* restart of the receiver may come.  create_work_order consumes the       *)
(* reference under the registry's lock and only then enters the receiver's *)
(* lock.  A flow has a thread of its own in the receiver.                  *)
(***************************************************************************)
EXTENDS Receiver, FiniteSets

CONSTANTS
  Reference, Ttl, MaxEntries, NoEntry,
  Script,             \* what each flow does, see ServiceAssumption
  NoReference, NoBundle

Flow == Thread

VARIABLES entries, filed, uses,   \* the registry
          flow,                   \* the interceptor's progress in each flow
          handed                  \* the bundle create_work_order holds between
                                  \* consuming the reference and entering

Malformed == {a \in Action : ~ WellFormed(a)}

Registry == INSTANCE PresentationRegistry WITH MaxClock <- MaxTime

ASSUME ServiceAssumption ==
  /\ \A f \in Flow :
       /\ Script[f].caller \in Caller
       /\ Script[f].action \in Action         \* what the model asked for
       /\ Script[f].dispatched \in Action     \* _dispatch_transform of it
       /\ Script[f].replay \in BOOLEAN        \* replay_dispatch
       /\ Script[f].proof \in Presentation    \* the authority it presents,
       /\ Script[f].proof.context = Script[f].action   \* signed for that action
  /\ NoReference \notin Reference
  /\ NoBundle \notin Bundle
  /\ Ttl \in Nat \ {0} /\ MaxEntries \in Nat \ {0} /\ NoEntry \notin Registry!Stored
  /\ IsFiniteSet(Reference)

\* Where a flow is: before its challenge, holding it, holding a reference, waiting
\* for the tool's answer, finished.  sent counts its dispatches; "lost" stands for
\* an answer that never came.
Progress ==
  [stage : {"start", "challenged", "uploaded", "waiting", "done"},
   challenge : Challenge \cup {NoChallenge},
   reference : Reference \cup {NoReference},
   sent : 0..2,
   result : Reason \cup {"none", "lost"}]

serviceVars == <<vars, entries, filed, uses, flow, handed>>

ServiceInit ==
  /\ Init
  /\ Registry!Init
  /\ flow = [f \in Flow |-> [stage |-> "start", challenge |-> NoChallenge,
                             reference |-> NoReference, sent |-> 0,
                             result |-> "none"]]
  /\ handed = [f \in Flow |-> NoBundle]

-----------------------------------------------------------------------------
Finish(f, reason) ==
  flow' = [flow EXCEPT ![f].stage = "done", ![f].result = reason]

\* MCPChallengeProvider and issue_work_order_challenge: a denial ends the flow.
\* The interceptor validates the action before it asks.
AskChallenge(f) ==
  LET s == Script[f] IN
  /\ flow[f].stage = "start"
  /\ IssueChallenge(s.action, s.caller)
  /\ IF answer' = "ALLOW"
     THEN flow' = [flow EXCEPT ![f].stage = "challenged",
                               ![f].challenge = pending'[s.action.request_id]]
     ELSE Finish(f, answer')
  /\ UNCHANGED <<entries, filed, uses, handed>>

\* AuthorityInterceptor: the proof is signed over the issued challenge and the
\* session context the receiver computed for the action.
Signed(f) ==
  [agent_id |-> Script[f].proof.agent_id, signer |-> Script[f].proof.signer,
   context |-> Script[f].action, delegations |-> Script[f].proof.delegations,
   challenge |-> flow[f].challenge]

\* HTTPPresentationUploader and upload_presentation.
Upload(f) ==
  LET s == Script[f] IN
  /\ flow[f].stage = "challenged"
  /\ \/ /\ Registry!RefuseFull
        /\ Finish(f, "DENY_VERIFIER_UNAVAILABLE")
     \/ \E r \in Reference :
          /\ Registry!Register(r, s.caller, s.action, Signed(f))
          /\ flow' = [flow EXCEPT ![f].stage = "uploaded", ![f].reference = r]
  /\ UNCHANGED <<vars, handed>>

\* Fault: the call is sent again whatever was asked.
AnsweredTwice(f, progress, reason) ==
  IF progress.sent = 1
  THEN [progress EXCEPT !.stage = "uploaded"]
  ELSE [progress EXCEPT !.stage = "done", !.result = reason]

\* The answer of a tool call ends the flow; a replaying one sends the same call
\* once more and returns what the second call answered.
Answered(f, progress, reason) ==
  IF Script[f].replay /\ progress.sent = 1
  THEN [progress EXCEPT !.stage = "uploaded"]
  ELSE [progress EXCEPT !.stage = "done", !.result = reason]

\* create_work_order: the reference in the header is consumed or refused.
CreateWorkOrder(f) ==
  LET s == Script[f]
      r == flow[f].reference
      sent == [flow[f] EXCEPT !.sent = @ + 1]
  IN /\ flow[f].stage = "uploaded"
     /\ \/ /\ Registry!RefuseUse(r, s.caller, s.dispatched)
           /\ flow' = [flow EXCEPT ![f] =
                Answered(f, sent, Registry!Answer(r, s.caller, s.dispatched))]
           /\ UNCHANGED handed
        \/ /\ Registry!Consume(r, s.caller, s.dispatched)
           /\ handed' = [handed EXCEPT ![f] = entries[r].bundle]
           /\ flow' = [flow EXCEPT ![f] = [sent EXCEPT !.stage = "waiting"]]
     /\ UNCHANGED vars

\* The proof it was handed goes to receiver.execute.
EnterReceiver(f) ==
  /\ handed[f] # NoBundle
  /\ Enter(f, Script[f].dispatched, Script[f].caller, handed[f])
  /\ handed' = [handed EXCEPT ![f] = NoBundle]
  /\ UNCHANGED <<entries, filed, uses, flow>>

\* execute goes on; the answer reaches a flow that still waits for it.
RunCall(f) ==
  /\ Refuse(f) \/ Admit(f) \/ Verify(f) \/ Deny(f) \/ InvokeHandler(f)
  /\ flow' = IF call'[f] = NoCall /\ flow[f].stage = "waiting"
             THEN [flow EXCEPT ![f] = Answered(f, flow[f], answer')]
             ELSE flow
  /\ UNCHANGED <<entries, filed, uses, handed>>

\* A timeout, a broken connection or a restart of the agent: the flow ends without
\* an answer, whatever the receiver still does for it.
LoseAnswer(f) ==
  /\ flow[f].stage \notin {"start", "done"}
  /\ Finish(f, "lost")
  /\ UNCHANGED <<vars, entries, filed, uses, handed>>

\* A restart of the receiver loses the registry as well, and every call in progress.
RestartService ==
  /\ Restart
  /\ Registry!Forget
  /\ handed' = [f \in Flow |-> NoBundle]
  /\ flow' = [f \in Flow |->
                IF flow[f].stage = "waiting"
                THEN [flow[f] EXCEPT !.stage = "done", !.result = "lost"]
                ELSE flow[f]]

\* Somebody else's call with a reference it got hold of, or an altered one of its
\* own, as far as it is refused.
Stray ==
  /\ \E r \in Reference, caller \in Caller, action \in Action :
       Registry!RefuseUse(r, caller, action)
  /\ UNCHANGED <<vars, flow, handed>>

World ==
  /\ \/ Tick
     \/ \E new \in SUBSET Revocable : SignList(new)
     \/ \E list \in 0..Len(lists) : WriteFile(list)
  /\ UNCHANGED <<entries, filed, uses, flow, handed>>

FlowStep(f) ==
  AskChallenge(f) \/ Upload(f) \/ CreateWorkOrder(f) \/ EnterReceiver(f) \/ RunCall(f)

ServiceNext ==
  \/ \E f \in Flow : FlowStep(f) \/ LoseAnswer(f)
  \/ RestartService
  \/ Stray
  \/ World

ServiceSpec == ServiceInit /\ [][ServiceNext]_serviceVars

\* The agent runtime and the server threads keep running.
FairServiceSpec == ServiceSpec /\ \A f \in Flow : WF_serviceVars(FlowStep(f))

-----------------------------------------------------------------------------
(***************************************************************************)
(* Properties.                                                             *)
(***************************************************************************)
ServiceTypeOK ==
  /\ TypeOK
  /\ Registry!TypeOK
  /\ flow \in [Flow -> Progress]
  /\ handed \in [Flow -> Bundle \cup {NoBundle}]

\* What an agent is told is what happened: a flow told ALLOW has exactly one work
\* order behind its challenge, a flow told of a denial has none and never gets one,
\* whatever other flows, lost answers and restarts come between.  (A replaying flow
\* returns the answer of its second call, which is a denial.)
AnswersAgreeWithOrders ==
  \A f \in Flow :
    LET p == flow[f] IN
    p.stage = "done" /\ p.result # "lost" /\ ~ Script[f].replay =>
      IF p.result = "ALLOW"
      THEN p.challenge # NoChallenge /\ runs[p.challenge] = 1
      ELSE p.challenge # NoChallenge => runs[p.challenge] = 0

\* A flow that does as it should, with a request ID of its own.
Honest(f) ==
  LET s == Script[f]
      d == s.proof.delegations
  IN /\ s.dispatched = s.action /\ ~ s.replay
     /\ s.proof.agent_id = Subject[s.caller] /\ s.proof.signer = s.proof.agent_id
     /\ d # << >> /\ d[Len(d)].issuer = TrustedRoot /\ d[1].subject = s.proof.agent_id
     /\ \A i \in 1..(Len(d) - 1) : d[i].issuer = d[i + 1].subject
     /\ \A cert \in Elements(d) :
          cert.expires_at > MaxTime /\ WorkOrderScope \in cert.scope
          /\ cert.cert_id \notin Revocable
     /\ ConstraintsAllow(d, s.action) /\ LocalPolicy(s.action, d) = "ALLOW"
     /\ \A g \in Flow \ {f} :
          s.action.request_id \notin
            {Script[g].action.request_id, Script[g].dispatched.request_id}

\* An honest flow is refused only for what nobody else can cause by presenting
\* proofs: unavailable state (a store, the status list, a full registry), its own
\* slowness, or a restart.  Strangers holding its reference, altered, copied and
\* replayed calls of others never cost it its work order.
HonestFlowsAreNotRefused ==
  \A f \in Flow :
    LET p == flow[f] IN
    Honest(f) /\ p.stage = "done" =>
      \/ p.result \in {"ALLOW", "lost", "DENY_VERIFIER_UNAVAILABLE"}
      \/ p.result = "DENY_REPLAY" /\ restarts > 0
      \/ /\ p.result = "DENY_REPLAY"
         /\ \/ filed[p.reference].expires_at <= now
            \/ grant[p.challenge].expires_at <= now

\* Every flow that starts ends: nothing waits for the receiver forever.
FlowsEnd == \A f \in Flow : flow[f].stage # "start" ~> flow[f].stage = "done"
=============================================================================

--------------------------- MODULE ReceiverProofs ---------------------------
(***************************************************************************)
(* Theorems about Receiver, for every set of threads, callers, agents,     *)
(* actions, certificates, proofs and challenges, and every bound: what     *)
(* stood behind every invocation of the handler, how grants end, and that  *)
(* the receiver implements WorkOrders.                                     *)
(***************************************************************************)
EXTENDS Receiver, TLAPS

(***************************************************************************)
(* Type correctness, one step per action of Next.                          *)
(***************************************************************************)

\* Reaping keeps every request's entry a challenge or none.
LEMMA ReapedType ==
  ASSUME TypeOK, NEW at \in Nat
  PROVE  Reaped(at) \in [RequestId -> Challenge \cup {NoChallenge}]
BY DEF Reaped, TypeOK

\* The parts of a call in progress have the types the receiver snapshotted.
LEMMA CallFields ==
  ASSUME TypeOK, NEW t \in Thread, call[t] # NoCall
  PROVE  /\ call[t] \in Call
         /\ call[t].action \in Action
         /\ call[t].action.request_id \in RequestId
         /\ call[t].caller \in Caller
         /\ call[t].bundle \in Bundle
         /\ call[t].now \in Nat
         /\ call[t].challenge \in Challenge \cup {NoChallenge}
         /\ call[t].list \in Nat
         /\ call[t].stage # "checking" => call[t].challenge \in Challenge
BY DEF TypeOK, Call, RequestId

\* The reasons a call returns are those the gate expects.
LEMMA ReasonTypes ==
  ASSUME NEW k
  PROVE  /\ Decision(k) \in Reason \cup {"none"}
         /\ Precheck(k) \in Reason
<1>1. Precheck(k) \in Reason
  BY DEF Precheck, Reason
<1>2. LocalPolicy(k.action, k.bundle.delegations) \in Reason
  BY DEF LocalPolicy, Reason
<1>3. ConstraintReason(k.action, k.bundle.delegations) \in Reason \cup {"none"}
  BY DEF ConstraintReason, Complaint, Reason
<1>4. DecisionReason(k.refusal, k.action, k.bundle.delegations) \in Reason \cup {"none"}
  BY <1>3 DEF DecisionReason, Reason
<1> QED BY <1>1, <1>2, <1>4 DEF Decision

\* What a presentation that passed every precheck of execute satisfies.
LEMMA PrecheckAllows ==
  ASSUME NEW k, Precheck(k) = "ALLOW"
  PROVE  LET c == pending[k.action.request_id] IN
         /\ c # NoChallenge
         /\ k.caller = grant[c].caller
         /\ k.action = grant[c].action
         /\ k.bundle.agent_id = grant[c].agent
         /\ k.bundle.delegations # << >>
         /\ k.bundle.delegations[Len(k.bundle.delegations)].issuer = TrustedRoot
BY DEF Precheck

\* Ingesting the served list keeps journal and the known revocations typed.
LEMMA IngestType ==
  ASSUME TypeOK, NEW k, Ingest(k)
  PROVE  journal' \in 0..Len(lists) /\ known' \subseteq CertId
<1>1. CASE Usable(served, k.now)
  <2>1. served \in 1..Len(lists)
    BY <1>1 DEF Usable, TypeOK
  <2>2. lists[served] \in StatusList
    BY <2>1 DEF TypeOK
  <2>3. journal' = served /\ known' = known \cup lists[served].revoked
    BY <1>1, <2>1 DEF Ingest
  <2>4. lists[served].revoked \subseteq CertId
    BY <2>2 DEF StatusList
  <2> QED BY <2>1, <2>3, <2>4 DEF TypeOK
<1>2. CASE ~ Usable(served, k.now)
  BY <1>2 DEF Ingest, TypeOK
<1> QED BY <1>1, <1>2

\* TypeOK is inductive: an induction over the actions of Next.
LEMMA TypeInductive == TypeOK /\ [Next]_vars => TypeOK'
<1> SUFFICES ASSUME TypeOK, [Next]_vars PROVE TypeOK'
  OBVIOUS
<1> USE DEF TypeOK
<1>1. ASSUME NEW action \in Action, NEW caller \in Caller,
             IssueChallenge(action, caller)
      PROVE  TypeOK'
  <2>1. Reaped(now) \in [RequestId -> Challenge \cup {NoChallenge}]
    BY ReapedType
  <2>2. now + ChallengeLifetime \in Nat
    BY ReceiverAssumption
  <2>3. [action |-> action, caller |-> caller, agent |-> Subject[caller],
         expires_at |-> now + ChallengeLifetime] \in Grant
    BY <2>2, ReceiverAssumption DEF Grant
  <2>4. pending' \in [RequestId -> Challenge \cup {NoChallenge}]
    BY <1>1, <2>1 DEF IssueChallenge
  <2>5. grant' \in [Challenge -> Grant \cup {NoGrant}]
    BY <1>1, <2>3 DEF IssueChallenge
  <2>6. answer' \in Reason \cup {"none"}
    BY <1>1 DEF IssueChallenge, Reason
  <2> QED BY <1>1, <2>4, <2>5, <2>6 DEF IssueChallenge, environment
<1>2. CASE RefuseMalformed
  BY <1>2 DEF RefuseMalformed, environment, memory, history, Reason
<1>3. ASSUME NEW t \in Thread, Execute(t) PROVE TypeOK'
  <2>1. ASSUME NEW action \in Action, NEW caller \in Caller,
               NEW p \in Presentation, NEW c \in Challenge,
               Enter(t, action, caller,
                     [agent_id |-> p.agent_id, signer |-> p.signer,
                      context |-> p.context, delegations |-> p.delegations,
                      challenge |-> c])
        PROVE  TypeOK'
    <3>1. [agent_id |-> p.agent_id, signer |-> p.signer, context |-> p.context,
           delegations |-> p.delegations, challenge |-> c] \in Bundle
      BY ReceiverAssumption DEF Bundle
    <3>2. pending' \in [RequestId -> Challenge \cup {NoChallenge}]
      BY <2>1, ReapedType DEF Enter
    <3>3. call' \in [Thread -> Call \cup {NoCall}]
      BY <2>1, <3>1 DEF Enter, Call
    <3> QED BY <2>1, <3>2, <3>3 DEF Enter, environment, history
  <2>2. ASSUME NEW reason \in Reason \cup {"none"}, Return(t, reason)
        PROVE  /\ lock' \in Thread \cup {NoThread}
               /\ call' \in [Thread -> Call \cup {NoCall}]
               /\ answer' \in Reason \cup {"none"}
    BY <2>2 DEF Return
  <2>3. CASE Refuse(t)
    <3>1. \E reason \in Reason : Return(t, reason)
      BY <2>3, ReasonTypes DEF Refuse, Reason
    <3> QED BY <2>3, <2>2, <3>1 DEF Refuse, environment, memory, history
  <2>4. CASE Admit(t)
    <3> DEFINE c == pending[call[t].action.request_id]
    <3>1. call[t] \in Call /\ c \in Challenge
      BY <2>4, CallFields, PrecheckAllows DEF Admit, InStage
    <3>2. [call[t] EXCEPT !.stage = "verifying", !.challenge = c] \in Call
      BY <3>1, ReceiverAssumption DEF Call
    <3>3. /\ call' = [call EXCEPT ![t] = [call[t] EXCEPT !.stage = "verifying",
                                                        !.challenge = c]]
          /\ pending' = [pending EXCEPT ![call[t].action.request_id] = NoChallenge]
          /\ attempts' = [attempts EXCEPT ![c] = @ + 1]
      BY <2>4 DEF Admit
    <3>4. call' \in [Thread -> Call \cup {NoCall}]
      BY <3>2, <3>3
    <3>5. pending' \in [RequestId -> Challenge \cup {NoChallenge}]
      BY <3>3
    <3>6. attempts' \in [Challenge -> Nat]
      <4> HIDE DEF c
      <4> QED BY <3>1, <3>3
    <3> QED BY <2>4, <3>4, <3>5, <3>6 DEF Admit, environment
  <2>5. CASE VerifierFails(t)
    <3>1. call[t].challenge \in Challenge
      BY <2>5, CallFields DEF VerifierFails, InStage
    <3>2. journal' \in 0..Len(lists) /\ known' \subseteq CertId
      BY <2>5, IngestType DEF VerifierFails
    <3>3. claimed' \subseteq Challenge
      BY <2>5, <3>1 DEF VerifierFails
    <3> QED BY <2>5, <2>2, <3>2, <3>3 DEF VerifierFails, environment, Reason
  <2>6. CASE Reject(t)
    <3>1. \E reason \in Reason : Return(t, reason)
      BY <2>6 DEF Reject, RejectionReason, Reason
    <3>2. journal' \in 0..Len(lists) /\ known' \subseteq CertId
      BY <2>6, IngestType DEF Reject
    <3> QED BY <2>6, <2>2, <3>1, <3>2 DEF Reject, environment
  <2>7. CASE Commit(t)
    <3>1. call[t] \in Call /\ call[t].challenge \in Challenge /\ served \in Nat
      BY <2>7, CallFields DEF Commit, InStage
    <3>2. journal' \in 0..Len(lists) /\ known' \subseteq CertId
      BY <2>7, IngestType DEF Commit
    <3>3. PICK r \in Refusal \cup {"none"} :
            call' = [call EXCEPT ![t] = [call[t] EXCEPT !.stage = "decided",
                                           !.list = served, !.refusal = r]]
      BY <2>7 DEF Commit, Refusals
    <3>4. [call[t] EXCEPT !.stage = "decided", !.list = served, !.refusal = r] \in Call
      BY <3>1, ReceiverAssumption DEF Call
    <3>5. call' \in [Thread -> Call \cup {NoCall}]
      BY <3>3, <3>4
    <3> QED BY <2>7, <3>1, <3>2, <3>5 DEF Commit, environment
  <2>8. CASE Deny(t)
    <3>1. Return(t, Decision(call[t])) /\ Decision(call[t]) \in Reason \cup {"none"}
      BY <2>8, ReasonTypes DEF Deny
    <3> QED BY <2>8, <2>2, <3>1 DEF Deny, environment, memory, history
  <2>9. CASE InvokeHandler(t)
    <3> DEFINE o == [challenge |-> call[t].challenge, action |-> call[t].action,
                     caller |-> call[t].caller, bundle |-> call[t].bundle,
                     now |-> call[t].now, list |-> call[t].list]
    <3>1. o \in Order
      BY <2>9, CallFields DEF InvokeHandler, InStage, Order
    <3>2. orders' = orders \cup {o}
      BY <2>9 DEF InvokeHandler
    <3>3. runs' \in [Challenge -> Nat]
      BY <2>9, CallFields DEF InvokeHandler, InStage
    <3>4. Return(t, "ALLOW") /\ "ALLOW" \in Reason
      BY <2>9 DEF InvokeHandler, Reason
    <3> QED BY <2>9, <2>2, <3>1, <3>2, <3>3, <3>4 DEF InvokeHandler, environment, memory
  <2> QED BY <1>3, <2>1, <2>3, <2>4, <2>5, <2>6, <2>7, <2>8, <2>9 DEF Execute, Verify
<1>4. CASE Tick
  BY <1>4 DEF Tick, memory, history
<1>5. ASSUME NEW new \in SUBSET Revocable, SignList(new) PROVE TypeOK'
  <2> DEFINE last == IF lists = << >> THEN {} ELSE lists[Len(lists)].revoked
             list == [revoked |-> new \cup last, updated_at |-> now]
  <2>0. lists # << >> => lists[Len(lists)] \in StatusList
    OBVIOUS
  <2>1. last \subseteq CertId
    BY <2>0 DEF StatusList
  <2>2. list \in StatusList
    BY <2>1, ReceiverAssumption DEF StatusList
  <2>3. lists' = Append(lists, list)
    BY <1>5 DEF SignList
  <2>4. /\ lists' \in Seq(StatusList)
        /\ Len(lists') = Len(lists) + 1
    BY <2>2, <2>3
  <2> QED BY <1>5, <2>4 DEF SignList, memory, history
<1>6. ASSUME NEW list \in 0..Len(lists), WriteFile(list) PROVE TypeOK'
  BY <1>6 DEF WriteFile, memory, history
<1>7. CASE Restart
  BY <1>7 DEF Restart
<1>8. CASE UNCHANGED vars
  BY <1>8 DEF vars, environment, memory, history
<1> QED BY <1>1, <1>2, <1>3, <1>4, <1>5, <1>6, <1>7, <1>8 DEF Next

\* Every variable keeps its type: TypeOK is an invariant of the receiver.
THEOREM TypeCorrect == Spec => []TypeOK
<1>1. Init => TypeOK
  BY ReceiverAssumption DEF Init, TypeOK
<1> QED BY <1>1, TypeInductive, PTL DEF Spec

-----------------------------------------------------------------------------
(***************************************************************************)
(* The inductive invariant.  HandledAtMostOnce alone is not inductive: it  *)
(* holds because a pending challenge was never attempted, because the one  *)
(* call past the prechecks holds the lock, and because what it carries is  *)
(* what its challenge was granted for.                                     *)
(***************************************************************************)

\* A call is in progress exactly while its thread holds the lock.
LockHeld == \A t \in Thread : call[t] # NoCall <=> lock = t

\* A pending challenge is granted for its request and was never attempted.
PendingFresh ==
  \A r \in RequestId :
    pending[r] # NoChallenge =>
      /\ grant[pending[r]] # NoGrant
      /\ grant[pending[r]].action.request_id = r
      /\ attempts[pending[r]] = 0

Counted ==
  \A c \in Challenge :
    /\ runs[c] <= attempts[c] /\ attempts[c] <= 1
    /\ attempts[c] = 1 => grant[c] # NoGrant
    /\ c \in claimed => attempts[c] = 1

\* What a call past the prechecks carries is what its challenge was granted for.
Faithful(k) ==
  LET g == grant[k.challenge] IN
  /\ g # NoGrant
  /\ k.action = g.action /\ k.caller = g.caller
  /\ k.bundle.agent_id = g.agent
  /\ k.now < g.expires_at
  /\ attempts[k.challenge] = 1 /\ runs[k.challenge] = 0

\* What the SDK has established when it releases a decision.
Bound(k) ==
  /\ k.bundle.challenge = k.challenge
  /\ k.bundle.context = grant[k.challenge].action
  /\ k.bundle.signer = k.bundle.agent_id

InFlightFaithful ==
  \A t \in Thread :
    /\ InStage(t, "checking") =>
         \A r \in RequestId : pending[r] # NoChallenge => Live(pending[r], call[t].now)
    /\ InStage(t, "verifying") => Faithful(call[t]) /\ call[t].challenge \notin claimed
    /\ InStage(t, "decided") => Faithful(call[t]) /\ Bound(call[t])

IInv ==
  /\ TypeOK
  /\ LockHeld
  /\ PendingFresh
  /\ Counted
  /\ InFlightFaithful
  /\ OrdersMatchGrants

\* The initial state satisfies the inductive invariant.
LEMMA InitIInv == Init => IInv
<1> SUFFICES ASSUME Init PROVE IInv
  OBVIOUS
<1>1. TypeOK
  BY ReceiverAssumption DEF Init, TypeOK
<1> QED
  BY <1>1, ReceiverAssumption DEF Init, IInv, LockHeld, PendingFresh, Counted,
     InFlightFaithful, InStage, OrdersMatchGrants

\* While the lock is free no call is in progress.
LEMMA FreeLock ==
  ASSUME LockHeld, lock = NoThread
  PROVE  \A t \in Thread : call[t] = NoCall
BY ReceiverAssumption DEF LockHeld

\* Only the thread inside the lock has a call in progress.
LEMMA OneInside ==
  ASSUME LockHeld, NEW t \in Thread, call[t] # NoCall
  PROVE  /\ lock = t
         /\ \A u \in Thread : u # t => call[u] = NoCall
BY DEF LockHeld

\* Leaving the lock leaves nobody inside.
LEMMA Left ==
  ASSUME TypeOK, LockHeld, NEW t \in Thread, call[t] # NoCall, NEW reason, Return(t, reason)
  PROVE  LockHeld' /\ \A u \in Thread : call'[u] = NoCall
<1>1. \A u \in Thread : call'[u] = NoCall
  BY OneInside DEF Return, TypeOK
<1> QED BY <1>1, ReceiverAssumption DEF LockHeld, Return

\* issue_challenge preserves the invariant: its challenge is fresh and filed under
\* the request it was asked for.
LEMMA IssueKeepsIInv ==
  ASSUME IInv, TypeOK', NEW action \in Action, NEW caller \in Caller,
         IssueChallenge(action, caller)
  PROVE  IInv'
<1> DEFINE r0 == action.request_id
<1>0. /\ TypeOK /\ LockHeld /\ PendingFresh /\ Counted /\ OrdersMatchGrants
      /\ lock = NoThread
      /\ UNCHANGED <<lock, call, claimed, attempts, runs, orders>>
  BY DEF IInv, IssueChallenge
<1>1. \A t \in Thread : call[t] = NoCall /\ call'[t] = NoCall
  BY <1>0, FreeLock
<1>2. LockHeld' /\ InFlightFaithful'
  BY <1>0, <1>1 DEF LockHeld, InFlightFaithful, InStage
<1>3. CASE UNCHANGED grant /\ pending' = Reaped(now)
  <2>1. PendingFresh'
    BY <1>0, <1>3 DEF PendingFresh, Reaped
  <2>2. Counted' /\ OrdersMatchGrants'
    BY <1>0, <1>3 DEF Counted, OrdersMatchGrants
  <2> QED BY <1>2, <2>1, <2>2 DEF IInv
<1>4. ASSUME NEW c \in Challenge, grant[c] = NoGrant,
             grant' = [grant EXCEPT ![c] =
               [action |-> action, caller |-> caller, agent |-> Subject[caller],
                expires_at |-> now + ChallengeLifetime]],
             pending' = [Reaped(now) EXCEPT ![r0] = c]
      PROVE  IInv'
  <2>1. /\ grant'[c] # NoGrant /\ grant'[c].action = action
        /\ \A d \in Challenge : d # c => grant'[d] = grant[d]
    <3>1. grant'[c] \in Grant \cup {NoGrant} /\ grant \in [Challenge -> Grant \cup {NoGrant}]
      BY DEF TypeOK, IInv
    <3>2. grant'[c] = [action |-> action, caller |-> caller, agent |-> Subject[caller],
                       expires_at |-> now + ChallengeLifetime]
      BY <1>4, <3>1
    <3>3. now + ChallengeLifetime \in Nat /\ Subject[caller] \in Agent
      BY <1>0, ReceiverAssumption DEF TypeOK
    <3>4. grant'[c] \in Grant
      BY <3>2, <3>3 DEF Grant
    <3> QED BY <1>4, <3>1, <3>2, <3>4, ReceiverAssumption
  <2>2. attempts[c] = 0
    BY <1>0, <1>4 DEF Counted, TypeOK
  <2>3. PendingFresh'
    <3> SUFFICES ASSUME NEW r \in RequestId, pending'[r] # NoChallenge
                 PROVE  /\ grant'[pending'[r]] # NoGrant
                        /\ grant'[pending'[r]].action.request_id = r
                        /\ attempts'[pending'[r]] = 0
      BY DEF PendingFresh
    <3>1. CASE r = r0
      <4>1. pending'[r] = c
        BY <1>4, <3>1 DEF Reaped
      <4> QED BY <1>0, <2>1, <2>2, <3>1, <4>1
    <3>2. CASE r # r0
      <4>1. pending'[r] = pending[r]
        BY <1>4, <3>2 DEF Reaped
      <4>2. /\ grant[pending[r]] # NoGrant
            /\ grant[pending[r]].action.request_id = r
            /\ attempts[pending[r]] = 0
            /\ pending[r] \in Challenge
        BY <1>0, <4>1 DEF PendingFresh, TypeOK
      <4>3. pending[r] # c
        BY <1>4, <4>2
      <4> QED BY <1>0, <2>1, <4>1, <4>2, <4>3
    <3> QED BY <3>1, <3>2
  <2>4. Counted'
    <3> SUFFICES ASSUME NEW d \in Challenge
                 PROVE  /\ runs[d] <= attempts[d] /\ attempts[d] <= 1
                        /\ attempts[d] = 1 => grant'[d] # NoGrant
                        /\ d \in claimed => attempts[d] = 1
      BY <1>0 DEF Counted
    <3> QED BY <1>0, <2>1 DEF Counted
  <2>5. OrdersMatchGrants'
    <3> SUFFICES ASSUME NEW o \in orders, grant[o.challenge] # NoGrant
                 PROVE  grant'[o.challenge] = grant[o.challenge]
      BY <1>0 DEF OrdersMatchGrants
    <3>1. o.challenge \in Challenge
      BY <1>0 DEF TypeOK, Order
    <3> QED BY <1>4, <2>1, <3>1
  <2> QED BY <1>2, <2>3, <2>4, <2>5 DEF IInv
<1> QED BY <1>3, <1>4 DEF IssueChallenge

\* A call that returns without reaching the handler disturbs only itself.
LEMMA ReturnKeepsIInv ==
  ASSUME IInv, TypeOK', NEW t \in Thread, call[t] # NoCall, NEW reason,
         Return(t, reason), UNCHANGED <<pending, grant, attempts, runs, orders>>,
         \A c \in claimed' : c \in claimed \/ attempts[c] = 1
  PROVE  IInv'
<1>1. LockHeld' /\ \A u \in Thread : call'[u] = NoCall
  BY Left DEF IInv
<1>2. PendingFresh' /\ OrdersMatchGrants'
  BY DEF IInv, PendingFresh, OrdersMatchGrants
<1>3. InFlightFaithful'
  BY <1>1 DEF InFlightFaithful, InStage
<1>4. Counted'
  BY DEF IInv, Counted
<1> QED BY <1>1, <1>2, <1>3, <1>4 DEF IInv

\* Entering execute preserves the invariant: what remains pending is live.
LEMMA EnterKeepsIInv ==
  ASSUME IInv, TypeOK', NEW t \in Thread, NEW action \in Action, NEW caller \in Caller,
         NEW bundle \in Bundle, Enter(t, action, caller, bundle)
  PROVE  IInv'
<1>1. /\ TypeOK /\ LockHeld /\ PendingFresh /\ lock = NoThread /\ lock' = t
      /\ pending' = Reaped(now)
      /\ UNCHANGED <<claimed, grant, attempts, runs, orders>>
  BY DEF IInv, Enter, history
<1>2. /\ \A u \in Thread : u # t => call'[u] = NoCall
      /\ call'[t].stage = "checking" /\ call'[t].now = now /\ call'[t] # NoCall
  <2>1. \A u \in Thread : call[u] = NoCall
    BY <1>1, FreeLock
  <2>2. call' = [call EXCEPT ![t] = call'[t]]
        /\ call'[t].stage = "checking" /\ call'[t].now = now
    BY <1>1 DEF Enter, TypeOK
  <2>3. call'[t] # NoCall
    <3> DEFINE k == [stage |-> "checking", action |-> action, caller |-> caller,
                     bundle |-> bundle, now |-> now, challenge |-> NoChallenge,
                     list |-> 0, refusal |-> "none"]
    <3>1. call'[t] = k
      BY <1>1 DEF Enter, TypeOK
    <3>2. now \in Nat
      BY <1>1 DEF TypeOK
    <3>3. k \in Call
      BY <3>2 DEF Call
    <3> QED BY <3>1, <3>3, ReceiverAssumption
  <2> QED BY <1>1, <2>1, <2>2, <2>3 DEF TypeOK
<1>3. LockHeld'
  BY <1>1, <1>2, ReceiverAssumption DEF LockHeld
<1>4. PendingFresh'
  BY <1>1 DEF PendingFresh, Reaped
<1>5. InFlightFaithful'
  <2>1. \A r \in RequestId : pending'[r] # NoChallenge => Live(pending'[r], now)
    BY <1>1 DEF Reaped, Live
  <2>2. \A r \in RequestId : pending'[r] # NoChallenge =>
                                Live(pending[r], call[t].now)'
    BY <1>1, <1>2, <2>1 DEF Live
  <2> QED BY <1>1, <1>2, <2>2 DEF InFlightFaithful, InStage
<1>6. Counted' /\ OrdersMatchGrants'
  BY <1>1 DEF IInv, Counted, OrdersMatchGrants
<1> QED BY <1>3, <1>4, <1>5, <1>6 DEF IInv

\* The pop preserves the invariant: the challenge leaves pending with its first
\* and only verification.
LEMMA AdmitKeepsIInv ==
  ASSUME IInv, TypeOK', NEW t \in Thread, Admit(t)
  PROVE  IInv'
<1> DEFINE k == call[t]
           r0 == call[t].action.request_id
           c  == pending[r0]
<1>1. /\ TypeOK /\ LockHeld /\ PendingFresh /\ Counted /\ InFlightFaithful
      /\ OrdersMatchGrants
      /\ call[t] # NoCall /\ call[t].stage = "checking"
      /\ pending' = [pending EXCEPT ![r0] = NoChallenge]
      /\ attempts' = [attempts EXCEPT ![c] = @ + 1]
      /\ call' = [call EXCEPT ![t] = [k EXCEPT !.stage = "verifying", !.challenge = c]]
      /\ UNCHANGED <<lock, claimed, grant, runs, orders>>
  BY DEF IInv, Admit, InStage
<1>2. /\ k \in Call /\ r0 \in RequestId /\ c \in Challenge
      /\ k.caller = grant[c].caller /\ k.action = grant[c].action
      /\ k.bundle.agent_id = grant[c].agent
  <2>1. Precheck(k) = "ALLOW"
    BY DEF Admit
  <2>2. c # NoChallenge /\ k.caller = grant[c].caller /\ k.action = grant[c].action
        /\ k.bundle.agent_id = grant[c].agent
    BY <2>1, PrecheckAllows
  <2>3. k \in Call /\ r0 \in RequestId
    BY <1>1, CallFields
  <2>4. c \in Challenge
    BY <1>1, <2>2, <2>3 DEF TypeOK
  <2> QED BY <2>2, <2>3, <2>4
<1>3. /\ grant[c] # NoGrant /\ attempts[c] = 0 /\ runs[c] = 0
      /\ c \notin claimed /\ k.now < grant[c].expires_at
  <2>1. grant[c] # NoGrant /\ attempts[c] = 0
    BY <1>1, <1>2, ReceiverAssumption DEF PendingFresh
  <2>2. runs[c] = 0 /\ c \notin claimed
    BY <1>1, <1>2, <2>1 DEF Counted, TypeOK
  <2>3. Live(c, k.now)
    BY <1>1, <1>2, ReceiverAssumption DEF InFlightFaithful, InStage
  <2>4. grant[c] \in Grant /\ k.now \in Nat
    BY <1>1, <1>2, <2>1, CallFields DEF TypeOK
  <2> QED BY <2>1, <2>2, <2>3, <2>4 DEF Live, Grant
<1>4. /\ call'[t].stage = "verifying" /\ call'[t].challenge = c
      /\ call'[t].action = k.action /\ call'[t].caller = k.caller
      /\ call'[t].bundle = k.bundle /\ call'[t].now = k.now
      /\ \A u \in Thread : u # t => call'[u] = call[u]
  BY <1>1, <1>2 DEF Call, TypeOK
<1>5. call'[t] # NoCall
  <2>1. [k EXCEPT !.stage = "verifying", !.challenge = c] \in Call
    BY <1>2, ReceiverAssumption DEF Call
  <2> QED BY <1>1, <2>1, ReceiverAssumption DEF TypeOK
<1>6. attempts'[c] = 1 /\ \A d \in Challenge : d # c => attempts'[d] = attempts[d]
  BY <1>1, <1>2, <1>3 DEF TypeOK
<1>7. LockHeld'
  BY <1>1, <1>4, <1>5 DEF LockHeld
<1>8. PendingFresh'
  <2> SUFFICES ASSUME NEW r \in RequestId, pending'[r] # NoChallenge
               PROVE  /\ grant[pending'[r]] # NoGrant
                      /\ grant[pending'[r]].action.request_id = r
                      /\ attempts'[pending'[r]] = 0
    BY <1>1 DEF PendingFresh
  <2>1. r # r0 /\ pending'[r] = pending[r] /\ pending[r] \in Challenge
    BY <1>1, <1>2 DEF TypeOK
  <2>2. /\ grant[pending[r]] # NoGrant /\ grant[pending[r]].action.request_id = r
        /\ attempts[pending[r]] = 0
    BY <1>1, <2>1 DEF PendingFresh
  <2>3. grant[c].action.request_id = r0
    BY <1>2
  <2>4. pending[r] # c
    BY <2>1, <2>2, <2>3
  <2> QED BY <1>6, <2>1, <2>2, <2>4
<1>9. Counted'
  <2> SUFFICES ASSUME NEW d \in Challenge
               PROVE  /\ runs[d] <= attempts'[d] /\ attempts'[d] <= 1
                      /\ attempts'[d] = 1 => grant[d] # NoGrant
                      /\ d \in claimed => attempts'[d] = 1
    BY <1>1 DEF Counted
  <2> QED BY <1>1, <1>3, <1>6 DEF Counted
<1>10. InFlightFaithful'
  <2>1. Faithful(call[t])'
    BY <1>1, <1>2, <1>3, <1>4, <1>6 DEF Faithful
  <2>2. \A u \in Thread : u # t => call'[u] = NoCall
    BY <1>1, <1>4, OneInside
  <2>3. (call[t].challenge \notin claimed)'
    BY <1>1, <1>3, <1>4
  <2>4. /\ InStage(t, "verifying")'
        /\ ~ InStage(t, "checking")' /\ ~ InStage(t, "decided")'
        /\ \A u \in Thread : u # t =>
             \A stage \in {"checking", "verifying", "decided"} : ~ InStage(u, stage)'
    BY <1>4, <1>5, <2>2 DEF InStage
  <2> QED BY <2>1, <2>3, <2>4 DEF InFlightFaithful
<1>11. OrdersMatchGrants'
  BY <1>1 DEF OrdersMatchGrants
<1> QED BY <1>7, <1>8, <1>9, <1>10, <1>11 DEF IInv

\* A committed verification preserves the invariant: only the challenge of the
\* call inside the lock is claimed.
LEMMA CommitKeepsIInv ==
  ASSUME IInv, TypeOK', NEW t \in Thread, Commit(t)
  PROVE  IInv'
<1> DEFINE k == call[t]
<1>1. /\ TypeOK /\ LockHeld /\ Counted /\ InFlightFaithful
      /\ k # NoCall /\ k.stage = "verifying"
      /\ claimed' = claimed \cup {k.challenge}
      /\ UNCHANGED <<lock, pending, grant, attempts, runs, orders>>
  BY DEF IInv, Commit, InStage
<1>2. PICK r \in Refusal \cup {"none"} :
        call' = [call EXCEPT ![t] = [k EXCEPT !.stage = "decided",
                                       !.list = served, !.refusal = r]]
  BY DEF Commit, Refusals
<1>3. k \in Call /\ k.challenge \in Challenge
  BY <1>1, CallFields
<1>4. /\ call'[t].stage = "decided" /\ call'[t].challenge = k.challenge
      /\ call'[t].action = k.action /\ call'[t].caller = k.caller
      /\ call'[t].bundle = k.bundle /\ call'[t].now = k.now
      /\ \A u \in Thread : u # t => call'[u] = call[u]
  BY <1>1, <1>2, <1>3 DEF Call, TypeOK
<1>5. call'[t] # NoCall
  <2>1. served \in Nat
    BY <1>1 DEF TypeOK
  <2>2. [k EXCEPT !.stage = "decided", !.list = served, !.refusal = r] \in Call
    BY <1>1, <1>3, <2>1, ReceiverAssumption DEF Call
  <2> QED BY <1>1, <1>2, <2>2, ReceiverAssumption DEF TypeOK
<1>6. Faithful(k) /\ Bound(k)
  <2>1. Faithful(k)
    BY <1>1 DEF InFlightFaithful, InStage
  <2>2. Faults(k) = {}
    BY DEF Commit
  <2>3. "session_context_mismatch" \notin Faults(k) /\ "unclassified" \notin Faults(k)
    BY <2>2
  <2> QED BY <2>1, <2>3 DEF Faults, Bound
<1>7. LockHeld'
  BY <1>1, <1>4, <1>5 DEF LockHeld
<1>8. Counted'
  <2>1. attempts[k.challenge] = 1
    BY <1>6 DEF Faithful
  <2> QED BY <1>1, <2>1 DEF Counted
<1>9. InFlightFaithful'
  <2>1. Faithful(call[t])'
    BY <1>1, <1>4, <1>6 DEF Faithful
  <2>2. Bound(call[t])'
    BY <1>1, <1>4, <1>6 DEF Bound
  <2>3. \A u \in Thread : u # t => call'[u] = NoCall
    BY <1>1, <1>4, OneInside
  <2>4. /\ ~ InStage(t, "checking")' /\ ~ InStage(t, "verifying")'
        /\ \A u \in Thread : u # t =>
             \A stage \in {"checking", "verifying", "decided"} : ~ InStage(u, stage)'
    BY <1>4, <1>5, <2>3 DEF InStage
  <2> QED BY <2>1, <2>2, <2>4 DEF InFlightFaithful
<1>10. PendingFresh' /\ OrdersMatchGrants'
  BY <1>1 DEF IInv, PendingFresh, OrdersMatchGrants
<1> QED BY <1>7, <1>8, <1>9, <1>10 DEF IInv

\* The handler's invocation preserves the invariant: it is the first of its
\* challenge and as granted.
LEMMA InvokeKeepsIInv ==
  ASSUME IInv, TypeOK', NEW t \in Thread, InvokeHandler(t)
  PROVE  IInv'
<1> DEFINE k == call[t]
           c == k.challenge
           o == [challenge |-> c, action |-> k.action, caller |-> k.caller,
                 bundle |-> k.bundle, now |-> k.now, list |-> k.list]
<1>1. /\ TypeOK /\ LockHeld /\ PendingFresh /\ Counted /\ InFlightFaithful
      /\ OrdersMatchGrants
      /\ k # NoCall /\ k.stage = "decided"
      /\ Return(t, "ALLOW")
      /\ runs' = [runs EXCEPT ![c] = @ + 1]
      /\ orders' = orders \cup {o}
      /\ UNCHANGED <<pending, claimed, grant, attempts>>
  BY DEF IInv, InvokeHandler, InStage, memory
<1>2. Faithful(k) /\ Bound(k) /\ c \in Challenge
  BY <1>1, CallFields DEF InFlightFaithful, InStage
<1>3. LockHeld' /\ \A u \in Thread : call'[u] = NoCall
  BY <1>1, Left
<1>4. PendingFresh' /\ InFlightFaithful'
  BY <1>1, <1>3 DEF PendingFresh, InFlightFaithful, InStage
<1>5. Counted'
  <2>1. runs'[c] = 1 /\ \A d \in Challenge : d # c => runs'[d] = runs[d]
    BY <1>1, <1>2 DEF Faithful, TypeOK
  <2>2. attempts[c] = 1
    BY <1>2 DEF Faithful
  <2> QED BY <1>1, <2>1, <2>2 DEF Counted
<1>6. OrdersMatchGrants'
  <2>1. /\ grant[c] # NoGrant
        /\ o.action = grant[c].action /\ o.caller = grant[c].caller
        /\ o.bundle.agent_id = grant[c].agent /\ o.bundle.signer = grant[c].agent
        /\ o.bundle.challenge = c /\ o.bundle.context = grant[c].action
        /\ o.now < grant[c].expires_at
    BY <1>2 DEF Faithful, Bound
  <2> QED BY <1>1, <2>1 DEF OrdersMatchGrants
<1> QED BY <1>3, <1>4, <1>5, <1>6 DEF IInv

\* A restart forgets every pending challenge and every call in progress.
LEMMA RestartKeepsIInv == IInv /\ TypeOK' /\ Restart => IInv'
<1> SUFFICES ASSUME IInv, TypeOK', Restart PROVE IInv'
  OBVIOUS
<1>1. /\ lock' = NoThread /\ claimed' = {}
      /\ \A t \in Thread : call'[t] = NoCall
      /\ \A r \in RequestId : pending'[r] = NoChallenge
      /\ UNCHANGED <<grant, attempts, runs, orders>>
  BY DEF Restart
<1>2. LockHeld' /\ PendingFresh' /\ InFlightFaithful'
  BY <1>1, ReceiverAssumption DEF LockHeld, PendingFresh, InFlightFaithful, InStage
<1>3. Counted' /\ OrdersMatchGrants'
  BY <1>1 DEF IInv, Counted, OrdersMatchGrants
<1> QED BY <1>2, <1>3 DEF IInv

\* The world outside the lock touches nothing the invariant speaks of.
LEMMA OutsideKeepsIInv ==
  ASSUME IInv, TypeOK',
         UNCHANGED <<lock, call, pending, claimed, grant, attempts, runs, orders>>
  PROVE  IInv'
<1>1. LockHeld' /\ PendingFresh' /\ Counted' /\ OrdersMatchGrants'
  BY DEF IInv, LockHeld, PendingFresh, Counted, OrdersMatchGrants
<1>2. InFlightFaithful'
  BY DEF IInv, InFlightFaithful, InStage, Faithful, Bound, Live
<1> QED BY <1>1, <1>2 DEF IInv

\* IInv is inductive: one case for every action of Next.
LEMMA IInvInductive == IInv /\ [Next]_vars => IInv'
<1> SUFFICES ASSUME IInv, [Next]_vars PROVE IInv'
  OBVIOUS
<1>0. TypeOK /\ TypeOK'
  BY TypeInductive DEF IInv
<1>1. ASSUME NEW action \in Action, NEW caller \in Caller,
             IssueChallenge(action, caller)
      PROVE  IInv'
  BY <1>0, <1>1, IssueKeepsIInv
<1>2. ASSUME NEW t \in Thread, Execute(t) PROVE IInv'
  <2>1. ASSUME NEW action \in Action, NEW caller \in Caller,
               NEW p \in Presentation, NEW c \in Challenge,
               Enter(t, action, caller,
                     [agent_id |-> p.agent_id, signer |-> p.signer,
                      context |-> p.context, delegations |-> p.delegations,
                      challenge |-> c])
        PROVE  IInv'
    <3>1. [agent_id |-> p.agent_id, signer |-> p.signer, context |-> p.context,
           delegations |-> p.delegations, challenge |-> c] \in Bundle
      BY ReceiverAssumption DEF Bundle
    <3> QED BY <1>0, <2>1, <3>1, EnterKeepsIInv
  <2>2. CASE Refuse(t)
    <3>1. PICK reason : Return(t, reason)
      BY <2>2 DEF Refuse
    <3> QED BY <1>0, <2>2, <3>1, ReturnKeepsIInv DEF Refuse, InStage, memory, history
  <2>3. CASE Admit(t)
    BY <1>0, <2>3, AdmitKeepsIInv
  <2>4. CASE VerifierFails(t)
    <3>1. \A c \in claimed' : c \in claimed \/ attempts[c] = 1
      BY <2>4 DEF VerifierFails, IInv, InFlightFaithful, Faithful
    <3> QED BY <1>0, <2>4, <3>1, ReturnKeepsIInv DEF VerifierFails, InStage
  <2>5. CASE Reject(t)
    <3>1. PICK reason : Return(t, reason)
      BY <2>5 DEF Reject
    <3> QED BY <1>0, <2>5, <3>1, ReturnKeepsIInv DEF Reject, InStage
  <2>6. CASE Commit(t)
    BY <1>0, <2>6, CommitKeepsIInv
  <2>7. CASE Deny(t)
    BY <1>0, <2>7, ReturnKeepsIInv DEF Deny, InStage, memory, history
  <2>8. CASE InvokeHandler(t)
    BY <1>0, <2>8, InvokeKeepsIInv
  <2> QED BY <1>2, <2>1, <2>2, <2>3, <2>4, <2>5, <2>6, <2>7, <2>8 DEF Execute, Verify
<1>3. CASE Restart
  BY <1>0, <1>3, RestartKeepsIInv
<1>4. CASE \/ RefuseMalformed \/ Tick \/ UNCHANGED vars
           \/ \E new \in SUBSET Revocable : SignList(new)
           \/ \E list \in 0..Len(lists) : WriteFile(list)
  <2>1. UNCHANGED <<lock, call, pending, claimed, grant, attempts, runs, orders>>
    BY <1>4 DEF RefuseMalformed, Tick, SignList, WriteFile, vars, memory, history
  <2> QED BY <1>0, <2>1, OutsideKeepsIInv
<1> QED BY <1>1, <1>2, <1>3, <1>4 DEF Next

\* The inductive invariant holds in every reachable state: one call inside the
\* lock, pending challenges fresh and filed under their own request, and every call
\* past its prechecks faithful to the grant whose challenge it popped.
THEOREM IInvCorrect == Spec => []IInv
BY InitIInv, IInvInductive, PTL DEF Spec

\* However many threads, proofs, restarts and requests: at most one verification
\* and at most one invocation of the handler for every challenge.
THEOREM HandlerRunsOnce == Spec => []HandledAtMostOnce
<1>1. IInv => HandledAtMostOnce
  BY DEF IInv, Counted, HandledAtMostOnce
<1> QED BY <1>1, IInvCorrect, PTL

\* Every invocation of the handler is of exactly what its challenge was granted
\* for, on the caller's own channel, signed by the expected agent.
THEOREM HandlerRunsAsGranted == Spec => []OrdersMatchGrants
<1>1. IInv => OrdersMatchGrants
  BY DEF IInv
<1> QED BY <1>1, IInvCorrect, PTL

\* The claim store never refuses a replay: the receiver's own pop comes first.
THEOREM ClaimIsFresh == Spec => []NeverClaimedTwice
<1>1. IInv => NeverClaimedTwice
  BY DEF IInv, InFlightFaithful, NeverClaimedTwice
<1> QED BY <1>1, IInvCorrect, PTL

-----------------------------------------------------------------------------
(***************************************************************************)
(* Authority: what stood behind every invocation of the handler.           *)
(*                                                                         *)
(* It is established in three places: the prechecks see the root, the      *)
(* verification the chain, the bounds and the list, the decision the       *)
(* receiver's own policy.  The invariant carries it from one to the next.  *)
(***************************************************************************)

\* Signed lists are cumulative, so a newer one revokes what an older one did.
Cumulative ==
  \A i, j \in 1..Len(lists) : i <= j => lists[i].revoked \subseteq lists[j].revoked

\* What this process knows to be revoked is in the newest list it ingested.
KnownInJournal ==
  /\ journal = 0 => known = {}
  /\ journal # 0 => known \subseteq lists[journal].revoked

\* Established by the prechecks.
Rooted(k) ==
  LET d == k.bundle.delegations IN d # << >> /\ d[Len(d)].issuer = TrustedRoot

\* Established by a verification that commits.
Chained(k) ==
  LET d == k.bundle.delegations IN
  /\ d[1].subject = k.bundle.signer
  /\ \A i \in 1..(Len(d) - 1) : d[i].issuer = d[i + 1].subject

\* Established by a verification that finds no reason to refuse.
Allowed(k) ==
  LET d == k.bundle.delegations IN
  /\ ~ Expired(d, k.now)
  /\ ConstraintsAllow(d, k.action)
  /\ k.list \in 1..Len(lists) /\ k.list = journal
  /\ k.now - lists[k.list].updated_at <= StatusLifetime
  /\ ~ Revoked(d, k.list)

CallsAuthorised ==
  \A t \in Thread :
    /\ InStage(t, "verifying") => Rooted(call[t])
    /\ InStage(t, "decided") =>
         /\ Rooted(call[t]) /\ Chained(call[t])
         /\ call[t].refusal = "none" => Allowed(call[t])

AInv ==
  /\ Cumulative
  /\ KnownInJournal
  /\ CallsAuthorised
  /\ OrdersAreAuthorised
  /\ \A o \in orders : o.list \in 1..Len(lists)

\* The initial state satisfies it.
LEMMA InitAInv == Init => AInv
BY ReceiverAssumption DEF Init, AInv, Cumulative, KnownInJournal, CallsAuthorised, InStage,
   OrdersAreAuthorised

\* A refusal is never reported as ALLOW.
LEMMA RefusalsDeny ==
  ASSUME NEW k, k.refusal \in Refusal
  PROVE  Decision(k) # "ALLOW"
<1>1. ConstraintReason(k.action, k.bundle.delegations) # "ALLOW"
  BY DEF ConstraintReason, Complaint
<1>2. k.refusal # "none"
  BY DEF Refusal
<1> QED BY <1>1, <1>2 DEF Decision, DecisionReason

\* Ingesting a list keeps what is known within the journal, whose place never falls.
LEMMA IngestKeepsKnown ==
  ASSUME TypeOK, Cumulative, KnownInJournal, NEW k, UNCHANGED lists,
         Ingest(k) \/ UNCHANGED <<journal, known>>
  PROVE  KnownInJournal'
<1>1. CASE Ingest(k) /\ Usable(served, k.now)
  <2>1. /\ served \in 1..Len(lists) /\ journal <= served /\ journal \in Nat
        /\ journal' = served /\ known' = known \cup lists[served].revoked
    BY <1>1 DEF Ingest, Usable, TypeOK
  <2>2. known \subseteq lists[served].revoked
    <3>1. CASE journal = 0
      BY <3>1 DEF KnownInJournal
    <3>2. CASE journal # 0
      <4>1. journal \in 1..Len(lists)
        BY <3>2 DEF TypeOK
      <4> QED BY <2>1, <3>2, <4>1 DEF KnownInJournal, Cumulative
    <3> QED BY <3>1, <3>2
  <2> QED BY <2>1, <2>2 DEF KnownInJournal
<1>2. CASE UNCHANGED <<journal, known>>
  BY <1>2 DEF KnownInJournal
<1> QED BY <1>1, <1>2 DEF Ingest

\* Once nobody is inside the lock, only the lists and the orders matter.
LEMMA OutsideKeepsAInv ==
  ASSUME AInv, UNCHANGED <<lists, orders>>, KnownInJournal',
         \A u \in Thread : call'[u] = NoCall
  PROVE  AInv'
BY DEF AInv, Cumulative, CallsAuthorised, InStage, OrdersAreAuthorised, Revoked, Expired

\* The prechecks establish the root.
LEMMA AdmitKeepsAInv ==
  ASSUME IInv, AInv, NEW t \in Thread, Admit(t)
  PROVE  AInv'
<1> DEFINE k == call[t]
           c == pending[k.action.request_id]
<1>1. /\ TypeOK /\ LockHeld /\ k # NoCall
      /\ call' = [call EXCEPT ![t] = [k EXCEPT !.stage = "verifying", !.challenge = c]]
      /\ UNCHANGED <<lists, journal, known, orders>>
  BY DEF IInv, Admit, InStage, environment
<1>2. k \in Call
  BY <1>1, CallFields
<1>3. Rooted(k)
  BY PrecheckAllows DEF Admit, Rooted
<1>4. /\ call'[t].stage = "verifying" /\ call'[t].bundle = k.bundle
      /\ \A u \in Thread : u # t => call'[u] = NoCall
  BY <1>1, <1>2, OneInside DEF TypeOK, Call
<1>5. CallsAuthorised'
  BY <1>3, <1>4 DEF CallsAuthorised, InStage, Rooted
<1> QED BY <1>1, <1>5 DEF AInv, Cumulative, KnownInJournal, OrdersAreAuthorised, Revoked, Expired

\* A committed verification establishes the chain, and without a refusal the rest.
LEMMA CommitKeepsAInv ==
  ASSUME IInv, AInv, NEW t \in Thread, Commit(t)
  PROVE  AInv'
<1> DEFINE k == call[t]
<1>1. /\ TypeOK /\ LockHeld /\ k # NoCall /\ k.stage = "verifying"
      /\ Ingest(k) /\ Faults(k) = {}
      /\ UNCHANGED <<lists, orders>>
  BY DEF IInv, Commit, InStage, environment
<1>2. PICK r \in Refusal \cup {"none"} :
        /\ r \in IF Refusals(k, served) = {} THEN {"none"} ELSE Refusals(k, served)
        /\ call' = [call EXCEPT ![t] = [k EXCEPT !.stage = "decided",
                                          !.list = served, !.refusal = r]]
  BY DEF Commit, Refusals
<1>3. k \in Call
  BY <1>1, CallFields
<1>4. /\ call'[t].stage = "decided" /\ call'[t].list = served /\ call'[t].refusal = r
      /\ call'[t].bundle = k.bundle /\ call'[t].now = k.now /\ call'[t].action = k.action
      /\ \A u \in Thread : u # t => call'[u] = NoCall
  BY <1>1, <1>2, <1>3, OneInside DEF TypeOK, Call
<1>5. Rooted(k)
  BY <1>1 DEF AInv, CallsAuthorised, InStage
<1>6. Chained(k)
  <2>1. "unclassified" \notin Faults(k)
    BY <1>1
  <2> QED BY <2>1 DEF Faults, Chained
<1>7. ASSUME r = "none" PROVE Allowed(call[t])'
  <2>1. Refusals(k, served) = {}
    BY <1>2, <1>7 DEF Refusals, Refusal
  <2>2. /\ "status_unavailable" \notin Refusals(k, served)
        /\ "delegation_revoked" \notin Refusals(k, served)
        /\ "delegation_expired" \notin Refusals(k, served)
        /\ "constraint_denied" \notin Refusals(k, served)
    BY <2>1
  <2>3. /\ Usable(served, k.now) /\ ~ Revoked(k.bundle.delegations, served)
        /\ ~ Expired(k.bundle.delegations, k.now)
        /\ ConstraintsAllow(k.bundle.delegations, k.action)
    BY <2>2 DEF Refusals, Refusal
  <2>4. served \in 1..Len(lists) /\ journal' = served
        /\ k.now - lists[served].updated_at <= StatusLifetime
    BY <1>1, <2>3 DEF Usable, Ingest, TypeOK
  <2> QED BY <1>1, <1>4, <2>3, <2>4 DEF Allowed, Revoked, Expired
<1>8. CallsAuthorised'
  BY <1>4, <1>5, <1>6, <1>7 DEF CallsAuthorised, InStage, Rooted, Chained
<1>9. KnownInJournal'
  BY <1>1, IngestKeepsKnown DEF AInv
<1> QED BY <1>1, <1>8, <1>9 DEF AInv, Cumulative, OrdersAreAuthorised, Revoked, Expired

\* The handler is invoked with all of it in hand.
LEMMA InvokedWithAuthority ==
  ASSUME IInv, AInv, NEW t \in Thread, InvokeHandler(t)
  PROVE  /\ Rooted(call[t]) /\ Chained(call[t]) /\ Allowed(call[t])
         /\ LocalPolicy(call[t].action, call[t].bundle.delegations) = "ALLOW"
<1>1. /\ call[t] # NoCall /\ call[t].stage = "decided" /\ Decision(call[t]) = "ALLOW"
  BY DEF InvokeHandler, InStage
<1>2. call[t].refusal \in Refusal \cup {"none"}
  BY <1>1, CallFields DEF Call, IInv
<1>3. call[t].refusal = "none"
  BY <1>1, <1>2, RefusalsDeny
<1> QED BY <1>1, <1>3 DEF AInv, CallsAuthorised, InStage, Decision

LEMMA InvokeKeepsAInv ==
  ASSUME IInv, AInv, NEW t \in Thread, InvokeHandler(t)
  PROVE  AInv'
<1> DEFINE k == call[t]
           o == [challenge |-> k.challenge, action |-> k.action, caller |-> k.caller,
                 bundle |-> k.bundle, now |-> k.now, list |-> k.list]
<1>1. /\ TypeOK /\ LockHeld /\ k # NoCall /\ Return(t, "ALLOW")
      /\ orders' = orders \cup {o}
      /\ UNCHANGED <<lists, journal, known>>
  BY DEF IInv, InvokeHandler, InStage, environment, memory
<1>2. \A u \in Thread : call'[u] = NoCall
  BY <1>1, Left
<1>3. /\ Rooted(k) /\ Chained(k) /\ Allowed(k)
      /\ LocalPolicy(k.action, k.bundle.delegations) = "ALLOW"
  BY InvokedWithAuthority
<1>4. OrdersAreAuthorised'
  <2> DEFINE Authorised(x) ==
               LET d == x.bundle.delegations IN
               /\ d[Len(d)].issuer = TrustedRoot
               /\ d[1].subject = x.bundle.signer
               /\ \A i \in 1..(Len(d) - 1) : d[i].issuer = d[i + 1].subject
               /\ ~ Expired(d, x.now)
               /\ ConstraintsAllow(d, x.action)
               /\ LocalPolicy(x.action, d) = "ALLOW"
               /\ x.list # 0
               /\ x.now - lists[x.list].updated_at <= StatusLifetime
               /\ ~ Revoked(d, x.list)
  <2>1. \A x \in orders : Authorised(x)
    BY DEF AInv, OrdersAreAuthorised
  <2>2. Authorised(o)
    BY <1>3 DEF Rooted, Chained, Allowed
  <2>3. OrdersAreAuthorised' <=> \A x \in orders' : Authorised(x)
    BY <1>1 DEF OrdersAreAuthorised, Revoked, Expired
  <2> HIDE DEF Authorised, o
  <2> QED BY <1>1, <2>1, <2>2, <2>3
<1>5. \A x \in orders' : x.list \in 1..Len(lists')
  BY <1>1, <1>3 DEF AInv, Allowed
<1>6. CallsAuthorised' /\ Cumulative' /\ KnownInJournal'
  BY <1>1, <1>2 DEF AInv, CallsAuthorised, InStage, Cumulative, KnownInJournal
<1> QED BY <1>4, <1>5, <1>6 DEF AInv

\* A new list is one more than all there were.
LEMMA SignKeepsAInv ==
  ASSUME IInv, AInv, NEW new \in SUBSET Revocable, SignList(new)
  PROVE  AInv'
<1> DEFINE l == [revoked |-> new \cup
                   (IF lists = << >> THEN {} ELSE lists[Len(lists)].revoked),
                 updated_at |-> now]
<1>1. /\ TypeOK /\ lists \in Seq(StatusList) /\ lists' = Append(lists, l)
      /\ UNCHANGED <<call, journal, known, orders>>
  BY DEF IInv, TypeOK, SignList, memory, history
<1>2. /\ Len(lists) \in Nat /\ Len(lists') = Len(lists) + 1
      /\ \A i \in 1..Len(lists) : lists'[i] = lists[i]
      /\ lists'[Len(lists) + 1] = l
  BY <1>1
<1>3. Cumulative'
  <2> SUFFICES ASSUME NEW i \in 1..Len(lists'), NEW j \in 1..Len(lists'), i <= j
               PROVE  lists'[i].revoked \subseteq lists'[j].revoked
    BY DEF Cumulative
  <2>1. CASE j \in 1..Len(lists)
    BY <1>2, <2>1 DEF AInv, Cumulative
  <2>2. CASE j = Len(lists) + 1 /\ i = j
    BY <2>2
  <2>3. CASE j = Len(lists) + 1 /\ i \in 1..Len(lists)
    <3>1. lists[i].revoked \subseteq lists[Len(lists)].revoked /\ lists # << >>
      BY <1>2, <2>3 DEF AInv, Cumulative
    <3> QED BY <1>2, <2>3, <3>1
  <2> QED BY <1>2, <2>1, <2>2, <2>3
<1>4. KnownInJournal'
  BY <1>1, <1>2 DEF AInv, KnownInJournal, TypeOK
<1>5. \A o \in orders' : o.list \in 1..Len(lists') /\ lists'[o.list] = lists[o.list]
  BY <1>1, <1>2 DEF AInv
<1>6. OrdersAreAuthorised'
  BY <1>1, <1>5 DEF AInv, OrdersAreAuthorised, Revoked, Expired
<1>7. CallsAuthorised'
  <2>1. \A t \in Thread : Allowed(call[t]) => Allowed(call[t])'
    BY <1>1, <1>2 DEF Allowed, Revoked, Expired
  <2> QED BY <1>1, <2>1 DEF AInv, CallsAuthorised, InStage, Rooted, Chained
<1> QED BY <1>3, <1>4, <1>5, <1>6, <1>7 DEF AInv

\* Steps that touch nothing the invariant speaks of, but for calls not yet admitted.
LEMMA UntouchedKeepsAInv ==
  ASSUME AInv, UNCHANGED <<lists, journal, known, orders>>,
         \A t \in Thread : call'[t] = call[t] \/ call'[t].stage = "checking"
  PROVE  AInv'
<1>1. CallsAuthorised'
  <2> SUFFICES ASSUME NEW t \in Thread, call'[t] = call[t], call'[t] # NoCall
               PROVE  /\ call[t].stage = "verifying" => Rooted(call[t])
                      /\ call[t].stage = "decided" =>
                           /\ Rooted(call[t]) /\ Chained(call[t])
                           /\ call[t].refusal = "none" => Allowed(call[t])'
    BY DEF CallsAuthorised, InStage, Rooted, Chained
  <2>1. Allowed(call[t]) => Allowed(call[t])'
    BY DEF Allowed, Revoked, Expired
  <2> QED BY <2>1 DEF AInv, CallsAuthorised, InStage
<1> QED
  BY <1>1 DEF AInv, Cumulative, KnownInJournal, OrdersAreAuthorised, Revoked, Expired

\* AInv is inductive relative to IInv.
LEMMA AInvInductive == IInv /\ IInv' /\ AInv /\ [Next]_vars => AInv'
<1> SUFFICES ASSUME IInv, IInv', AInv, [Next]_vars PROVE AInv'
  OBVIOUS
<1>0. TypeOK /\ LockHeld /\ Cumulative /\ KnownInJournal
  BY DEF IInv, AInv
<1>1. ASSUME NEW t \in Thread, Execute(t) PROVE AInv'
  <2>1. ASSUME NEW action \in Action, NEW caller \in Caller, NEW bundle,
               Enter(t, action, caller, bundle)
        PROVE  AInv'
    <3>1. /\ UNCHANGED <<lists, journal, known, orders>>
          /\ \A u \in Thread : call'[u] = call[u] \/ call'[u].stage = "checking"
      BY <1>0, <2>1 DEF Enter, environment, history, TypeOK
    <3> QED BY <3>1, UntouchedKeepsAInv
  <2>2. CASE Refuse(t) \/ Deny(t)
    <3>1. PICK reason : Return(t, reason)
      BY <2>2 DEF Refuse, Deny
    <3>2. (\A u \in Thread : call'[u] = NoCall) /\ UNCHANGED <<lists, journal, known, orders>>
      BY <1>0, <2>2, <3>1, Left DEF Refuse, Deny, InStage, environment, memory, history
    <3> QED BY <1>0, <3>2, OutsideKeepsAInv DEF KnownInJournal
  <2>3. CASE Admit(t)
    BY <2>3, AdmitKeepsAInv
  <2>4. CASE VerifierFails(t) \/ Reject(t)
    <3>1. PICK reason : Return(t, reason)
      BY <2>4 DEF VerifierFails, Reject
    <3>2. /\ \A u \in Thread : call'[u] = NoCall
          /\ UNCHANGED <<lists, orders>>
          /\ Ingest(call[t]) \/ UNCHANGED <<journal, known>>
      BY <1>0, <2>4, <3>1, Left DEF VerifierFails, Reject, InStage, environment
    <3> QED BY <1>0, <3>2, IngestKeepsKnown, OutsideKeepsAInv
  <2>5. CASE Commit(t)
    BY <2>5, CommitKeepsAInv
  <2>6. CASE InvokeHandler(t)
    BY <2>6, InvokeKeepsAInv
  <2> QED BY <1>1, <2>1, <2>2, <2>3, <2>4, <2>5, <2>6 DEF Execute, Verify
<1>2. CASE Restart
  <2>1. (\A u \in Thread : call'[u] = NoCall) /\ UNCHANGED <<lists, orders>> /\ KnownInJournal'
    BY <1>2 DEF Restart, KnownInJournal
  <2> QED BY <2>1, OutsideKeepsAInv
<1>3. ASSUME NEW new \in SUBSET Revocable, SignList(new) PROVE AInv'
  BY <1>3, SignKeepsAInv
<1>4. CASE \/ RefuseMalformed \/ Tick \/ UNCHANGED vars
           \/ \E action \in Action, caller \in Caller : IssueChallenge(action, caller)
           \/ \E list \in 0..Len(lists) : WriteFile(list)
  <2>1. UNCHANGED <<lists, journal, known, orders, call>>
    BY <1>4 DEF RefuseMalformed, Tick, IssueChallenge, WriteFile, vars, environment, memory,
       history
  <2> QED BY <2>1, UntouchedKeepsAInv
<1> QED BY <1>1, <1>2, <1>3, <1>4 DEF Next

\* The strengthening holds in every reachable state: authority that was once
\* established is carried to the handler unchanged.
THEOREM AInvCorrect == Spec => []AInv
<1>1. Init => AInv
  BY InitAInv
<1>2. IInv /\ IInv' /\ AInv /\ [Next]_vars => AInv'
  BY AInvInductive
<1> QED BY <1>1, <1>2, IInvCorrect, PTL DEF Spec

\* Every invocation of the handler rests on an unbroken, unexpired chain from the
\* pinned root, within every bound, on a current list that revokes none of it.
THEOREM HandlerIsAuthorised == Spec => []OrdersAreAuthorised
<1>1. AInv => OrdersAreAuthorised
  BY DEF AInv
<1> QED BY <1>1, AInvCorrect, PTL

\* A revocation this process has ingested is never set aside again: the list behind
\* an invocation is the journal's newest, which names all that is known.
THEOREM RevocationsStay == Spec => RevocationIsFinal
<1> DEFINE Step == \A o \in orders' \ orders :
                     \A cert \in Elements(o.bundle.delegations) : cert.cert_id \notin known
<1>1. ASSUME IInv, AInv, Next PROVE Step
  <2>1. ASSUME NEW t \in Thread, InvokeHandler(t) PROVE Step
    <3>1. Allowed(call[t]) /\ KnownInJournal
      BY <2>1, <1>1, InvokedWithAuthority DEF AInv
    <3>2. known \subseteq lists[call[t].list].revoked
      BY <3>1 DEF Allowed, KnownInJournal
    <3>3. \A o \in orders' \ orders : o.bundle = call[t].bundle
      BY <2>1 DEF InvokeHandler
    <3> QED BY <3>1, <3>2, <3>3 DEF Allowed, Revoked
  <2>2. CASE ~ \E t \in Thread : InvokeHandler(t)
    <3>1. UNCHANGED orders
      BY <1>1, <2>2 DEF Next, Execute, Verify, Enter, Refuse, Admit, VerifierFails, Reject,
         Commit, Deny, IssueChallenge, RefuseMalformed, Tick, SignList, WriteFile, Restart,
         history
    <3> QED BY <3>1
  <2> QED BY <2>1, <2>2
<1>2. IInv /\ AInv /\ [Next]_vars => [Step]_vars
  BY <1>1
<1> QED BY <1>2, IInvCorrect, AInvCorrect, PTL DEF Spec, RevocationIsFinal

-----------------------------------------------------------------------------
\* What reaping takes from pending has expired.
LEMMA ReapedExpired ==
  ASSUME IInv, NEW r \in RequestId, pending[r] # NoChallenge,
         Reaped(now)[r] # pending[r]
  PROVE  grant[pending[r]].expires_at <= now
<1>1. grant[pending[r]] \in Grant /\ now \in Nat
  BY DEF IInv, TypeOK, PendingFresh
<1> QED BY <1>1 DEF Reaped, Live, Grant

\* What a step may do to the grant pending for r.
EndsItsOwnWay(r) ==
  LET c == pending[r] IN
  c # NoChallenge /\ pending'[r] # c =>
    \/ grant[c].expires_at <= now
    \/ restarts' # restarts
    \/ /\ pending'[r] = NoChallenge
       /\ attempts'[c] = attempts[c] + 1
       /\ lock # NoThread
       /\ call[lock].caller = grant[c].caller
       /\ call[lock].action = grant[c].action
       /\ call[lock].bundle.agent_id = grant[c].agent

\* Nobody's proof, action, channel or later challenge ends another's live grant.
THEOREM GrantsAreSafe == Spec => GrantsEndTheirOwnWay
<1> DEFINE Step == \A r \in RequestId : EndsItsOwnWay(r)
<1>1. ASSUME IInv, Next PROVE Step
  <2> SUFFICES ASSUME NEW r \in RequestId, pending[r] # NoChallenge, pending'[r] # pending[r]
               PROVE  EndsItsOwnWay(r)
    BY DEF EndsItsOwnWay
  <2>0. TypeOK /\ LockHeld /\ PendingFresh
    BY <1>1 DEF IInv
  <2>1. ASSUME NEW action \in Action, NEW caller \in Caller, IssueChallenge(action, caller)
        PROVE  EndsItsOwnWay(r)
    <3>1. Reaped(now)[r] # pending[r]
      BY <2>1 DEF IssueChallenge, Reaped
    <3> QED BY <1>1, <3>1, ReapedExpired DEF EndsItsOwnWay
  <2>2. ASSUME NEW t \in Thread, NEW action, NEW caller, NEW bundle,
               Enter(t, action, caller, bundle)
        PROVE  EndsItsOwnWay(r)
    BY <1>1, <2>2, ReapedExpired DEF Enter, EndsItsOwnWay
  <2>3. ASSUME NEW t \in Thread, Admit(t) PROVE EndsItsOwnWay(r)
    <3> DEFINE k  == call[t]
               r0 == call[t].action.request_id
    <3>1. /\ k # NoCall /\ Precheck(k) = "ALLOW"
          /\ pending' = [pending EXCEPT ![r0] = NoChallenge]
          /\ attempts' = [attempts EXCEPT ![pending[r0]] = @ + 1]
      BY <2>3 DEF Admit, InStage
    <3>2. r = r0 /\ pending'[r] = NoChallenge /\ pending[r] \in Challenge
      BY <2>0, <3>1 DEF TypeOK
    <3>3. /\ k.caller = grant[pending[r]].caller /\ k.action = grant[pending[r]].action
          /\ k.bundle.agent_id = grant[pending[r]].agent
      BY <3>1, <3>2, PrecheckAllows
    <3>4. attempts'[pending[r]] = attempts[pending[r]] + 1
      BY <2>0, <3>1, <3>2 DEF TypeOK
    <3>5. lock = t /\ lock # NoThread
      BY <2>0, <3>1, OneInside, ReceiverAssumption
    <3> QED BY <3>2, <3>3, <3>4, <3>5 DEF EndsItsOwnWay
  <2>4. CASE Restart
    <3>1. restarts' # restarts
      BY <2>0, <2>4 DEF Restart, TypeOK
    <3> QED BY <3>1 DEF EndsItsOwnWay
  <2>5. CASE /\ ~ Restart
             /\ \A t \in Thread : ~ Admit(t)
             /\ \A t \in Thread :
                  ~ \E action, caller, bundle : Enter(t, action, caller, bundle)
             /\ ~ \E action \in Action, caller \in Caller : IssueChallenge(action, caller)
    <3>1. UNCHANGED pending
      BY <1>1, <2>5 DEF Next, Execute, Verify, Refuse, VerifierFails, Reject, Commit, Deny,
         InvokeHandler, RefuseMalformed, Tick, SignList, WriteFile, memory
    <3> QED BY <3>1
  <2> QED BY <2>1, <2>2, <2>3, <2>4, <2>5
<1>2. IInv /\ [Next]_vars => [Step]_vars
  BY <1>1
<1> QED BY <1>2, IInvCorrect, PTL DEF Spec, GrantsEndTheirOwnWay, EndsItsOwnWay

-----------------------------------------------------------------------------
(***************************************************************************)
(* The refinement: issuing is Promise!Issue, the handler's invocation      *)
(* Promise!Perform, and every other step lets grants lapse or stutters.    *)
(***************************************************************************)
\* The two parts of the mapping.
OpenGrants == Open \ {NoChallenge}
WorkOf(o) == <<o.challenge, [action |-> o.action, caller |-> o.caller,
                             agent |-> o.bundle.agent_id,
                             expires_at |-> grant[o.challenge].expires_at]>>
Works == {WorkOf(o) : o \in orders}

\* A step that leaves grants, runs and orders alone and opens nothing is a lapse.
LEMMA LapseImplemented ==
  ASSUME UNCHANGED <<grant, runs, orders>>, OpenGrants' \subseteq OpenGrants
  PROVE  Promise!Lapse
BY DEF Promise!Lapse, OpenGrants, Open, InFlight, InStage

\* Without a call in progress the open grants are the pending ones.
LEMMA NobodyInFlight ==
  ASSUME \A t \in Thread : call[t] = NoCall
  PROVE  OpenGrants = {pending[r] : r \in RequestId} \ {NoChallenge}
BY DEF OpenGrants, Open, InFlight, InStage

LEMMA IssueImplemented ==
  ASSUME IInv, IInv', NEW action \in Action, NEW caller \in Caller,
         IssueChallenge(action, caller)
  PROVE  Promise!Next
<1> DEFINE r0 == action.request_id
<1>1. /\ TypeOK /\ OrdersMatchGrants /\ TypeOK'
      /\ \A t \in Thread : call[t] = NoCall /\ call'[t] = NoCall
      /\ UNCHANGED <<runs, orders>>
  BY FreeLock DEF IInv, IssueChallenge
<1>2. /\ OpenGrants = {pending[r] : r \in RequestId} \ {NoChallenge}
      /\ OpenGrants' = {pending'[r] : r \in RequestId} \ {NoChallenge}
  BY <1>1 DEF OpenGrants, Open, InFlight, InStage
<1>3. CASE UNCHANGED grant /\ pending' = Reaped(now)
  <2>1. OpenGrants' \subseteq OpenGrants
    BY <1>2, <1>3 DEF Reaped
  <2> QED BY <1>1, <1>3, <2>1, LapseImplemented DEF Promise!Next
<1>4. ASSUME NEW c \in Challenge, grant[c] = NoGrant,
             grant' = [grant EXCEPT ![c] =
               [action |-> action, caller |-> caller, agent |-> Subject[caller],
                expires_at |-> now + ChallengeLifetime]],
             pending' = [Reaped(now) EXCEPT ![r0] = c]
      PROVE  Promise!Next
  <2>1. /\ grant'[c] = [action |-> action, caller |-> caller, agent |-> Subject[caller],
                        expires_at |-> now + ChallengeLifetime]
        /\ grant' = [grant EXCEPT ![c] = grant'[c]]
    BY <1>1, <1>4 DEF TypeOK
  <2>2. grant'[c] \in Grant
    <3>1. now + ChallengeLifetime \in Nat /\ Subject[caller] \in Agent
      BY <1>1, ReceiverAssumption DEF TypeOK
    <3> QED BY <2>1, <3>1 DEF Grant
  <2>3. r0 \in RequestId /\ pending'[r0] = c /\ c # NoChallenge
    BY <1>4, ReceiverAssumption DEF RequestId, Reaped
  <2>4. c \in OpenGrants'
    BY <1>2, <2>3
  <2>5. OpenGrants' \subseteq OpenGrants \cup {c}
    BY <1>2, <1>4 DEF Reaped
  <2>6. \A o \in orders : grant'[o.challenge] = grant[o.challenge]
    <3> SUFFICES ASSUME NEW o \in orders PROVE grant'[o.challenge] = grant[o.challenge]
      OBVIOUS
    <3>1. o.challenge \in Challenge /\ grant[o.challenge] # NoGrant
      BY <1>1 DEF TypeOK, Order, OrdersMatchGrants
    <3> QED BY <1>1, <1>4, <3>1 DEF TypeOK
  <2>7. Works' = Works
    BY <1>1, <2>6 DEF Works, WorkOf
  <2>8. Promise!Issue(c)
    BY <1>1, <1>4, <2>1, <2>2, <2>4, <2>5, <2>7 DEF Promise!Issue, OpenGrants, Works, WorkOf
  <2> QED BY <2>8 DEF Promise!Next
<1> QED BY <1>3, <1>4 DEF IssueChallenge

LEMMA InvokeImplemented ==
  ASSUME IInv, IInv', NEW t \in Thread, InvokeHandler(t)
  PROVE  Promise!Next
<1> DEFINE k == call[t]
           c == k.challenge
           o == [challenge |-> c, action |-> k.action, caller |-> k.caller,
                 bundle |-> k.bundle, now |-> k.now, list |-> k.list]
<1>1. /\ TypeOK /\ LockHeld /\ PendingFresh /\ InFlightFaithful
      /\ k # NoCall /\ k.stage = "decided" /\ Return(t, "ALLOW")
      /\ runs' = [runs EXCEPT ![c] = @ + 1]
      /\ orders' = orders \cup {o}
      /\ UNCHANGED <<pending, grant>>
  BY DEF IInv, InvokeHandler, InStage, memory
<1>2. Faithful(k) /\ c \in Challenge /\ c # NoChallenge
  BY <1>1, CallFields, ReceiverAssumption DEF InFlightFaithful, InStage
<1>3. OpenGrants = ({pending[r] : r \in RequestId} \cup {c}) \ {NoChallenge}
  <2>1. InFlight = {t}
    BY <1>1, OneInside DEF InFlight, InStage
  <2> QED BY <2>1 DEF OpenGrants, Open
<1>4. OpenGrants' = {pending[r] : r \in RequestId} \ {NoChallenge}
  <2>1. \A u \in Thread : call'[u] = NoCall
    BY <1>1, Left
  <2> QED BY <1>1, <2>1 DEF OpenGrants, Open, InFlight, InStage
<1>5. \A r \in RequestId : pending[r] # c
  BY <1>1, <1>2, ReceiverAssumption DEF PendingFresh, Faithful
<1>6. c \in OpenGrants /\ OpenGrants' = OpenGrants \ {c}
  BY <1>2, <1>3, <1>4, <1>5
<1>7. grant[c] = [action |-> k.action, caller |-> k.caller, agent |-> k.bundle.agent_id,
                  expires_at |-> grant[c].expires_at]
  <2>1. grant[c] \in Grant
    BY <1>1, <1>2 DEF Faithful, TypeOK
  <2> QED BY <1>2, <2>1 DEF Faithful, Grant
<1>8. Works' = Works \cup {<<c, grant[c]>>}
  <2>1. WorkOf(o) = <<c, grant[c]>>
    BY <1>7 DEF WorkOf
  <2> HIDE DEF o
  <2>2. Works' = {WorkOf(x) : x \in orders'}
    BY <1>1 DEF Works, WorkOf
  <2>3. Works' = Works \cup {WorkOf(o)}
    BY <1>1, <2>2 DEF Works
  <2> QED BY <2>1, <2>3
<1>9. PICK d \in Challenge : d = c
  BY <1>2
<1>10. /\ d \in OpenGrants /\ OpenGrants' = OpenGrants \ {d}
       /\ runs' = [runs EXCEPT ![d] = @ + 1]
       /\ Works' = Works \cup {<<d, grant[d]>>}
       /\ UNCHANGED grant
  BY <1>1, <1>6, <1>8, <1>9
<1>11. Promise!Perform(d)
  BY <1>10 DEF Promise!Perform, OpenGrants, Works, WorkOf
<1> QED BY <1>11 DEF Promise!Next

\* Any other step of a call leaves what is open open, or lets it lapse.
LEMMA CallImplemented ==
  ASSUME IInv, NEW t \in Thread, Execute(t), ~ InvokeHandler(t)
  PROVE  Promise!Next
<1>0. TypeOK /\ LockHeld
  BY DEF IInv
<1>1. ASSUME NEW reason, Return(t, reason), call[t] # NoCall,
             UNCHANGED <<pending, grant, runs, orders>>
      PROVE  Promise!Next
  <2>1. \A u \in Thread : call'[u] = NoCall
    BY <1>0, <1>1, Left
  <2>2. OpenGrants' \subseteq OpenGrants
    BY <1>1, <2>1 DEF OpenGrants, Open, InFlight, InStage
  <2> QED BY <1>1, <2>2, LapseImplemented DEF Promise!Next
<1>2. ASSUME NEW action, NEW caller, NEW bundle, Enter(t, action, caller, bundle)
      PROVE  Promise!Next
  <2>1. \A u \in Thread : ~ (InStage(u, "verifying") \/ InStage(u, "decided"))'
    <3>1. \A u \in Thread : u # t => call'[u] = NoCall
      BY <1>0, <1>2, FreeLock DEF Enter, TypeOK
    <3>2. call'[t].stage = "checking"
      BY <1>0, <1>2 DEF Enter, TypeOK
    <3> QED BY <3>1, <3>2 DEF InStage
  <2>2. OpenGrants' \subseteq OpenGrants
    BY <1>2, <2>1 DEF Enter, Reaped, OpenGrants, Open, InFlight
  <2> QED BY <1>2, <2>2, LapseImplemented DEF Enter, history, Promise!Next
<1>3. ASSUME NEW c, call[t] # NoCall, c \in OpenGrants,
             \A u \in Thread : u # t => call'[u] = call[u],
             call'[t].challenge = c,
             \A r \in RequestId : pending'[r] \in {pending[r], NoChallenge},
             UNCHANGED <<grant, runs, orders>>
      PROVE  Promise!Next
  <2>1. \A u \in Thread : u # t => call'[u] = NoCall
    BY <1>0, <1>3, OneInside
  <2>2. OpenGrants' \subseteq OpenGrants
    BY <1>3, <2>1 DEF OpenGrants, Open, InFlight, InStage
  <2> QED BY <1>3, <2>2, LapseImplemented DEF Promise!Next
<1>4. CASE Admit(t)
  <2> DEFINE r0 == call[t].action.request_id
             c  == pending[r0]
  <2>1. /\ call[t] # NoCall /\ Precheck(call[t]) = "ALLOW"
        /\ pending' = [pending EXCEPT ![r0] = NoChallenge]
        /\ call' = [call EXCEPT ![t] = [call[t] EXCEPT !.stage = "verifying",
                                                        !.challenge = c]]
        /\ UNCHANGED <<grant, runs, orders>>
    BY <1>4 DEF Admit, InStage
  <2>2. call[t] \in Call /\ r0 \in RequestId /\ c # NoChallenge
    BY <1>0, <2>1, CallFields, PrecheckAllows
  <2>3. /\ call'[t].challenge = c /\ \A u \in Thread : u # t => call'[u] = call[u]
        /\ \A r \in RequestId : pending'[r] \in {pending[r], NoChallenge}
    BY <1>0, <2>1, <2>2 DEF TypeOK, Call
  <2>4. c \in OpenGrants
    BY <2>2 DEF OpenGrants, Open
  <2> QED BY <1>3, <2>1, <2>3, <2>4
<1>5. CASE Commit(t)
  <2> DEFINE c == call[t].challenge
  <2>1. /\ call[t] # NoCall /\ InStage(t, "verifying")
        /\ UNCHANGED <<pending, grant, runs, orders>>
    BY <1>5 DEF Commit, InStage
  <2>2. PICK r \in Refusal \cup {"none"} :
          call' = [call EXCEPT ![t] = [call[t] EXCEPT !.stage = "decided",
                                         !.list = served, !.refusal = r]]
    BY <1>5 DEF Commit, Refusals
  <2>3. call[t] \in Call /\ c \in Challenge
    BY <1>0, <2>1, CallFields DEF InStage
  <2>4. call'[t].challenge = c /\ \A u \in Thread : u # t => call'[u] = call[u]
    BY <1>0, <2>2, <2>3 DEF TypeOK, Call
  <2>5. c \in OpenGrants
    BY <2>1, <2>3, ReceiverAssumption DEF OpenGrants, Open, InFlight
  <2> QED BY <1>3, <2>1, <2>4, <2>5
<1>6. CASE Refuse(t) \/ VerifierFails(t) \/ Reject(t) \/ Deny(t)
  <2>1. PICK reason : Return(t, reason)
    BY <1>6 DEF Refuse, VerifierFails, Reject, Deny
  <2>2. call[t] # NoCall /\ UNCHANGED <<pending, grant, runs, orders>>
    BY <1>6 DEF Refuse, VerifierFails, Reject, Deny, InStage, memory, history
  <2> QED BY <1>1, <2>1, <2>2
<1> QED BY <1>2, <1>4, <1>5, <1>6 DEF Execute, Verify

\* Every step of the receiver is a step of the promise or leaves it alone.
LEMMA StepImplemented ==
  IInv /\ IInv' /\ [Next]_vars => [Promise!Next]_(Promise!vars)
<1> SUFFICES ASSUME IInv, IInv', [Next]_vars PROVE [Promise!Next]_(Promise!vars)
  OBVIOUS
<1>1. ASSUME NEW action \in Action, NEW caller \in Caller, IssueChallenge(action, caller)
      PROVE  Promise!Next
  BY <1>1, IssueImplemented
<1>2. ASSUME NEW t \in Thread, Execute(t) PROVE Promise!Next
  BY <1>2, InvokeImplemented, CallImplemented
<1>3. CASE Restart
  <2>1. OpenGrants' \subseteq OpenGrants
    BY <1>3 DEF Restart, OpenGrants, Open, InFlight, InStage
  <2> QED BY <1>3, <2>1, LapseImplemented DEF Restart, Promise!Next
<1>4. CASE \/ RefuseMalformed \/ Tick \/ UNCHANGED vars
           \/ \E new \in SUBSET Revocable : SignList(new)
           \/ \E list \in 0..Len(lists) : WriteFile(list)
  <2>1. UNCHANGED <<call, pending, grant, runs, orders>>
    BY <1>4 DEF RefuseMalformed, Tick, SignList, WriteFile, vars, memory, history
  <2> QED BY <2>1 DEF Promise!vars, Open, InFlight, InStage
<1> QED BY <1>1, <1>2, <1>3, <1>4 DEF Next

\* Seen from its callers, the receiver is WorkOrders: each grant performed at most
\* once, as granted, and never again after it was performed or lapsed.
THEOREM KeepsThePromise == Spec => ImplementsWorkOrders
<1>1. Init => Promise!Init
  BY ReceiverAssumption DEF Init, Promise!Init, Open, InFlight, InStage
<1>2. IInv /\ IInv' /\ [Next]_vars => [Promise!Next]_(Promise!vars)
  BY StepImplemented
<1> QED BY <1>1, <1>2, IInvCorrect, PTL DEF Spec, ImplementsWorkOrders, Promise!Spec
=============================================================================

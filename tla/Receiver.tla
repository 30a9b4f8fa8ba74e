------------------------------ MODULE Receiver ------------------------------
(***************************************************************************)
(* WorkOrderReceiver (src/maritime_ratify/receiver.py): the authorization  *)
(* boundary in front of the protected handler.                             *)
(*                                                                         *)
(* A caller asks for a challenge for one exact action and presents a proof *)
(* over it; the receiver pops the pending challenge, has the protocol SDK  *)
(* verify the proof against the pinned root and the signed status list,    *)
(* applies its own policy and runs the handler.  Both calls run under one  *)
(* reentrant lock and read the clock once, when they enter it.  A call is  *)
(* split where the world outside the lock can move: entering, the          *)
(* prechecks, the verification (which reads the status file) and the       *)
(* decision.                                                               *)
(*                                                                         *)
(* The SDK (verification, claim store, security journal) is external and   *)
(* modelled from how receiver.py uses it: which of several true faults it  *)
(* reports is left open.  A challenge is a random value: Challenge is the  *)
(* set of those ever drawn, its size bounds the challenges of a behaviour. *)
(***************************************************************************)
EXTENDS WorkOrderPolicy

CONSTANTS
  Thread,             \* server threads calling the receiver
  Caller,             \* authenticated caller identities
  Agent,              \* agent keys
  Subject,            \* the agent key the service expects of each caller
  Action,             \* the work orders asked for
  Certificate,        \* the certificates in circulation
  Revocable,          \* bound: the certificate IDs the principal revokes
  Presentation,       \* the proofs agents can produce, less their challenge
  Challenge,
  TrustedRoot,        \* the pinned root key
  ChallengeLifetime,  \* seconds a challenge stays claimable
  StatusLifetime,     \* seconds a signed status list stays current
  FutureSkew,         \* seconds a list may be dated ahead of the clock
  MaxTime,            \* bound: the last instant
  MaxLists,           \* bound: status lists ever signed
  MaxRestarts,        \* bound: restarts of the receiver
  NoThread, NoChallenge, NoGrant, NoCall

RequestId == {a.request_id : a \in Action}
CertId    == {c.cert_id : c \in Certificate}

\* _Pending: what a challenge was issued for.
Grant == [action : Action, caller : Caller, agent : Agent, expires_at : Nat]

\* A proof bundle: agent_id is declared, signer holds the key that signed,
\* context is the action the signed session context was computed for.
Bundle == [agent_id : Agent, signer : Agent, context : Action,
           delegations : Seq(Certificate), challenge : Challenge]

\* A signed list.  Its position in lists is its place in the journal's order: by
\* sequence number, then by updated_at (a heartbeat keeps the sequence).
StatusList == [revoked : SUBSET CertId, updated_at : Nat]

\* The SDK's reasons for a released decision that does not allow.
Refusal == {"status_unavailable", "delegation_revoked", "delegation_expired",
            "scope_denied", "constraint_denied"}

\* A call of execute inside the lock: the action, caller and bundle are its own
\* snapshots, now the one reading of the clock, challenge the popped challenge,
\* list and refusal what the verification found.
Call ==
  {k \in [stage : {"checking", "verifying", "decided"}, action : Action,
          caller : Caller, bundle : Bundle, now : Nat,
          challenge : Challenge \cup {NoChallenge}, list : Nat,
          refusal : Refusal \cup {"none"}] :
     k.challenge = NoChallenge <=> k.stage = "checking"}

\* An invocation of the handler, with what stood behind it.
Order == [challenge : Challenge, action : Action, caller : Caller,
          bundle : Bundle, now : Nat, list : Nat]

ASSUME ReceiverAssumption ==
  /\ Subject \in [Caller -> Agent]
  /\ ChallengeLifetime \in Nat \ {0}
  /\ MaxTime \in Nat /\ MaxLists \in Nat /\ MaxRestarts \in Nat
  /\ Revocable \subseteq CertId
  /\ \A cert \in Certificate : cert.expires_at \in Nat
  /\ NoChallenge \notin Challenge
  /\ NoThread \notin Thread
  /\ NoGrant \notin Grant
  /\ NoCall \notin Call
  /\ Presentation \subseteq [agent_id : Agent, signer : Agent,
                             context : Action, delegations : Seq(Certificate)]

VARIABLES
  now,        \* the receiver's wall clock
  lists,      \* the status lists signed so far, a cumulative history
  served,     \* the one on the receiver's volume; 0: missing or unsigned
  lock,       \* the thread inside the receiver's lock
  call,       \* the call each thread executes inside the lock
  pending,    \* _pending: the live challenge of each request
  claimed,    \* the SDK's claim store
  journal,    \* the SDK's journal: the newest list it ingested
  answer,     \* the reason the last call returned
  grant,      \* history: what every challenge was issued for
  attempts,   \* history: verifications started for every challenge
  runs,       \* history: handler invocations for every challenge
  orders,     \* history: the handler invocations
  known,      \* history: certificates an ingested list of this process revoked
  restarts

environment == <<now, lists, served, restarts>>
memory      == <<pending, claimed, journal>>
history     == <<grant, attempts, runs, orders, known>>
vars        == <<environment, lock, call, memory, answer, history>>

-----------------------------------------------------------------------------
TypeOK ==
  /\ now \in Nat
  /\ lists \in Seq(StatusList)
  /\ served \in 0..Len(lists)
  /\ lock \in Thread \cup {NoThread}
  /\ call \in [Thread -> Call \cup {NoCall}]
  /\ pending \in [RequestId -> Challenge \cup {NoChallenge}]
  /\ claimed \subseteq Challenge
  /\ journal \in 0..Len(lists)
  /\ answer \in Reason \cup {"none"}
  /\ grant \in [Challenge -> Grant \cup {NoGrant}]
  /\ attempts \in [Challenge -> Nat]
  /\ runs \in [Challenge -> Nat]
  /\ orders \subseteq Order
  /\ known \subseteq CertId
  /\ restarts \in Nat

Init ==
  /\ now = 0
  /\ lists = << >> /\ served = 0
  /\ lock = NoThread
  /\ call = [t \in Thread |-> NoCall]
  /\ pending = [r \in RequestId |-> NoChallenge]
  /\ claimed = {}
  /\ journal = 0
  /\ answer = "none"
  /\ grant = [c \in Challenge |-> NoGrant]
  /\ attempts = [c \in Challenge |-> 0]
  /\ runs = [c \in Challenge |-> 0]
  /\ orders = {}
  /\ known = {}
  /\ restarts = 0

-----------------------------------------------------------------------------
\* _reap_pending: a challenge is live while expires_at > now.
Live(c, at) == c # NoChallenge /\ grant[c].expires_at > at

Reaped(at) ==
  [r \in RequestId |-> IF Live(pending[r], at) THEN pending[r] ELSE NoChallenge]

\* Fault: only an allowed call gives the lock back.
ReturnHolding(t, reason) ==
  /\ lock' = IF reason = "ALLOW" THEN NoThread ELSE lock
  /\ call' = [call EXCEPT ![t] = NoCall]
  /\ answer' = reason

\* Leave the lock with a reason; the caller gets its response.
Return(t, reason) ==
  /\ lock' = NoThread
  /\ call' = [call EXCEPT ![t] = NoCall]
  /\ answer' = reason

(***************************************************************************)
(* issue_challenge.  Nothing outside the lock is read after the clock, so  *)
(* the call is one step.  The stores can be missing or the SDK's issuance  *)
(* helper raise: either leaves only the reaping behind.                    *)
(***************************************************************************)
IssueChallenge(action, caller) ==
  /\ lock = NoThread
  /\ WellFormed(action)
  /\ LET reaped == Reaped(now) IN
     \/ /\ pending' = reaped
        /\ answer' = "DENY_VERIFIER_UNAVAILABLE"
        /\ UNCHANGED grant
     \/ /\ reaped[action.request_id] # NoChallenge
        /\ pending' = reaped
        /\ answer' = "DENY_AMBIGUOUS_INPUT"
        /\ UNCHANGED grant
     \/ /\ reaped[action.request_id] = NoChallenge
        /\ \E c \in Challenge :
             /\ grant[c] = NoGrant
             /\ grant' = [grant EXCEPT ![c] =
                  [action |-> action, caller |-> caller, agent |-> Subject[caller],
                   expires_at |-> now + ChallengeLifetime]]
             /\ pending' = [reaped EXCEPT ![action.request_id] = c]
        /\ answer' = "ALLOW"
  /\ UNCHANGED <<environment, lock, call, claimed, journal, attempts, runs, orders, known>>

\* Either call refuses an action outside the closed schema before the lock.
RefuseMalformed ==
  /\ \E action \in Action : ~ WellFormed(action)
  /\ answer' = "DENY_INVALID_REQUEST"
  /\ UNCHANGED <<environment, lock, call, memory, history>>

-----------------------------------------------------------------------------
\* execute: take the lock, read the clock once, reap.
Enter(t, action, caller, bundle) ==
  /\ lock = NoThread
  /\ call[t] = NoCall
  /\ WellFormed(action)
  /\ lock' = t
  /\ call' = [call EXCEPT ![t] =
       [stage |-> "checking", action |-> action, caller |-> caller,
        bundle |-> bundle, now |-> now, challenge |-> NoChallenge,
        list |-> 0, refusal |-> "none"]]
  /\ pending' = Reaped(now)
  /\ UNCHANGED <<environment, claimed, journal, answer, history>>

InStage(t, stage) == call[t] # NoCall /\ call[t].stage = stage

\* Fault: the caller's channel is not compared with the one that asked.
PrecheckAnyCaller(k) ==
  LET c == pending[k.action.request_id] IN
  IF c = NoChallenge THEN "DENY_REPLAY"
  ELSE IF k.action # grant[c].action THEN "DENY_OPERATION_MISMATCH"
  ELSE IF k.bundle.agent_id # grant[c].agent THEN "DENY_SUBJECT_MISMATCH"
  ELSE IF k.bundle.delegations = << >> THEN "DENY_INVALID_REQUEST"
  ELSE "ALLOW"

(***************************************************************************)
(* The prechecks, in order; none of them removes the pending challenge.    *)
(***************************************************************************)
Precheck(k) ==
  LET c == pending[k.action.request_id]
      g == grant[c]
  IN IF c = NoChallenge
     THEN "DENY_REPLAY"
     ELSE IF k.caller # g.caller
     THEN "DENY_CALLER_MISMATCH"
     ELSE IF k.action # g.action
     THEN "DENY_OPERATION_MISMATCH"
     ELSE IF k.bundle.agent_id # g.agent
     THEN "DENY_SUBJECT_MISMATCH"
     ELSE IF k.bundle.delegations = << >>
     THEN "DENY_INVALID_REQUEST"
     ELSE IF k.bundle.delegations[Len(k.bundle.delegations)].issuer # TrustedRoot
     THEN "DENY_UNTRUSTED_ISSUER"
     ELSE "ALLOW"

\* Fault: the challenge is popped before the prechecks.
RefuseAndPop(t) ==
  /\ InStage(t, "checking")
  /\ Precheck(call[t]) # "ALLOW"
  /\ Return(t, Precheck(call[t]))
  /\ pending' = [pending EXCEPT ![call[t].action.request_id] = NoChallenge]
  /\ UNCHANGED <<environment, claimed, journal, history>>

Refuse(t) ==
  /\ InStage(t, "checking")
  /\ \/ Precheck(call[t]) # "ALLOW" /\ Return(t, Precheck(call[t]))
     \/ Return(t, "DENY_VERIFIER_UNAVAILABLE")   \* a store is missing
  /\ UNCHANGED <<environment, memory, history>>

\* Fault: the challenge stays pending until an attempt succeeds.
AdmitWithoutPop(t) ==
  /\ InStage(t, "checking")
  /\ Precheck(call[t]) = "ALLOW"
  /\ LET c == pending[call[t].action.request_id]
     IN /\ attempts' = [attempts EXCEPT ![c] = @ + 1]
        /\ call' = [call EXCEPT ![t].stage = "verifying", ![t].challenge = c]
  /\ UNCHANGED <<environment, lock, memory, answer, grant, runs, orders, known>>

\* One attempt per issued challenge, whatever the outcome.
Admit(t) ==
  /\ InStage(t, "checking")
  /\ Precheck(call[t]) = "ALLOW"
  /\ LET r == call[t].action.request_id
         c == pending[r]
     IN /\ pending' = [pending EXCEPT ![r] = NoChallenge]
        /\ attempts' = [attempts EXCEPT ![c] = @ + 1]
        /\ call' = [call EXCEPT ![t].stage = "verifying", ![t].challenge = c]
  /\ UNCHANGED <<environment, lock, claimed, journal, answer, grant, runs, orders, known>>

-----------------------------------------------------------------------------
(***************************************************************************)
(* The SDK's verification (external).  A fault is a rejection before the   *)
(* challenge is claimed; a refusal is the reason of a released decision.   *)
(***************************************************************************)
Faults(k) ==
  LET b == k.bundle
      g == grant[k.challenge]
      d == b.delegations
  IN {f \in {"session_context_mismatch", "receiver_audience_mismatch",
              "unclassified"} :
        \/ f = "session_context_mismatch" /\ b.context # g.action
        \/ f = "receiver_audience_mismatch" /\ ~ AudienceAccepted(d)
        \/ /\ f = "unclassified"
           /\ \/ b.challenge # k.challenge
              \/ b.signer # b.agent_id
              \/ d[1].subject # b.agent_id
              \/ \E i \in 1..(Len(d) - 1) : d[i].issuer # d[i + 1].subject}

Revoked(d, list) == \E cert \in Elements(d) : cert.cert_id \in lists[list].revoked
Expired(d, at)   == \E cert \in Elements(d) : cert.expires_at <= at

\* Signed, within its lifetime at the frozen clock, and not older than the
\* newest list the journal has ingested.
Usable(list, at) ==
  /\ list # 0
  /\ journal <= list
  /\ lists[list].updated_at <= at + FutureSkew
  /\ at - lists[list].updated_at <= StatusLifetime

Refusals(k, list) ==
  LET d == k.bundle.delegations IN
  {r \in Refusal :
     \/ r = "status_unavailable" /\ ~ Usable(list, k.now)
     \/ r = "delegation_revoked" /\ Usable(list, k.now) /\ Revoked(d, list)
     \/ r = "delegation_expired" /\ Expired(d, k.now)
     \/ r = "scope_denied" /\ \E cert \in Elements(d) : WorkOrderScope \notin cert.scope
     \/ r = "constraint_denied" /\ ~ ConstraintsAllow(d, k.action)}

\* Fault: every verification gets a journal of its own.
IngestUnrecorded(k) ==
  /\ known' = known \cup (IF Usable(served, k.now) THEN lists[served].revoked ELSE {})
  /\ UNCHANGED journal

Ingest(k) ==
  IF Usable(served, k.now)
  THEN journal' = served /\ known' = known \cup lists[served].revoked
  ELSE UNCHANGED <<journal, known>>

\* An exception out of verification, publication or release, or a committed
\* result that could not be released; the challenge may have been claimed.
VerifierFails(t) ==
  /\ InStage(t, "verifying")
  /\ Return(t, "DENY_VERIFIER_UNAVAILABLE")
  /\ claimed' \in {claimed, claimed \cup {call[t].challenge}}
  /\ Ingest(call[t]) \/ UNCHANGED <<journal, known>>
  /\ UNCHANGED <<environment, pending, grant, attempts, runs, orders>>

\* Rejected before the claim, or because the challenge was claimed before.
Reject(t) ==
  /\ InStage(t, "verifying")
  /\ \/ \E f \in Faults(call[t]) : Return(t, RejectionReason(f))
     \/ /\ Faults(call[t]) = {}
        /\ call[t].challenge \in claimed
        /\ Return(t, RejectionReason("claim_replay"))
  /\ Ingest(call[t]) \/ UNCHANGED <<journal, known>>
  /\ UNCHANGED <<environment, pending, claimed, grant, attempts, runs, orders>>

\* Committed: the challenge is claimed, the status file read and ingested.
Commit(t) ==
  /\ InStage(t, "verifying")
  /\ Faults(call[t]) = {}
  /\ call[t].challenge \notin claimed
  /\ claimed' = claimed \cup {call[t].challenge}
  /\ Ingest(call[t])
  /\ LET refusals == Refusals(call[t], served) IN
     \E r \in IF refusals = {} THEN {"none"} ELSE refusals :
       call' = [call EXCEPT ![t].stage = "decided", ![t].list = served,
                            ![t].refusal = r]
  /\ UNCHANGED <<environment, lock, pending, answer, grant, attempts, runs, orders>>

Verify(t) == VerifierFails(t) \/ Reject(t) \/ Commit(t)

\* Fault: an allowing decision reaches the handler without local policy.
DecisionWithoutPolicy(k) ==
  IF k.refusal # "none"
  THEN DecisionReason(k.refusal, k.action, k.bundle.delegations)
  ELSE "ALLOW"

(***************************************************************************)
(* The released decision, then local policy, then the handler.  allowed()  *)
(* asks the claim store's clock, which set_time froze at the locked now.   *)
(***************************************************************************)
Decision(k) ==
  IF k.refusal # "none"
  THEN DecisionReason(k.refusal, k.action, k.bundle.delegations)
  ELSE LocalPolicy(k.action, k.bundle.delegations)

Deny(t) ==
  /\ InStage(t, "decided")
  /\ Decision(call[t]) # "ALLOW"
  /\ Return(t, Decision(call[t]))
  /\ UNCHANGED <<environment, memory, history>>

InvokeHandler(t) ==
  /\ InStage(t, "decided")
  /\ Decision(call[t]) = "ALLOW"
  /\ LET k == call[t] IN
     /\ runs' = [runs EXCEPT ![k.challenge] = @ + 1]
     /\ orders' = orders \cup
          {[challenge |-> k.challenge, action |-> k.action, caller |-> k.caller,
            bundle |-> k.bundle, now |-> k.now, list |-> k.list]}
  /\ Return(t, "ALLOW")
  /\ UNCHANGED <<environment, memory, grant, attempts, known>>

-----------------------------------------------------------------------------
(***************************************************************************)
(* The world outside the lock.                                             *)
(***************************************************************************)
Tick ==
  /\ now < MaxTime
  /\ now' = now + 1
  /\ UNCHANGED <<lists, served, restarts, lock, call, memory, answer, history>>

\* The principal signs a list: the last revoked set and more, dated later.
SignList(new) ==
  /\ Len(lists) < MaxLists
  /\ \A i \in DOMAIN lists : lists[i].updated_at < now
  /\ lists' = Append(lists, [revoked |-> new \cup
                               (IF lists = << >> THEN {} ELSE lists[Len(lists)].revoked),
                             updated_at |-> now])
  /\ UNCHANGED <<now, served, restarts, lock, call, memory, answer, history>>

\* The file on the receiver's volume is replaced, removed or corrupted.
WriteFile(list) ==
  /\ list \in 0..Len(lists)
  /\ served' = list
  /\ UNCHANGED <<now, lists, restarts, lock, call, memory, answer, history>>

\* Nothing survives a restart of the process: the stores are in memory.
Restart ==
  /\ restarts < MaxRestarts
  /\ restarts' = restarts + 1
  /\ lock' = NoThread
  /\ call' = [t \in Thread |-> NoCall]
  /\ pending' = [r \in RequestId |-> NoChallenge]
  /\ claimed' = {}
  /\ journal' = 0
  /\ known' = {}
  /\ UNCHANGED <<now, lists, served, answer, grant, attempts, runs, orders>>

Execute(t) ==
  \/ \E action \in Action, caller \in Caller, p \in Presentation, c \in Challenge :
       /\ grant[c] # NoGrant
       /\ Enter(t, action, caller,
                [agent_id |-> p.agent_id, signer |-> p.signer, context |-> p.context,
                 delegations |-> p.delegations, challenge |-> c])
  \/ Refuse(t) \/ Admit(t) \/ Verify(t) \/ Deny(t) \/ InvokeHandler(t)

Next ==
  \/ \E action \in Action, caller \in Caller : IssueChallenge(action, caller)
  \/ RefuseMalformed
  \/ \E t \in Thread : Execute(t)
  \/ Tick
  \/ \E new \in SUBSET Revocable : SignList(new)
  \/ \E list \in 0..Len(lists) : WriteFile(list)
  \/ Restart

Spec == Init /\ [][Next]_vars

-----------------------------------------------------------------------------
(***************************************************************************)
(* Properties.                                                             *)
(***************************************************************************)

\* However many threads present proofs, and across restarts, a challenge is
\* verified at most once and the handler runs at most once for it: the pending
\* entry is popped under the lock before verification begins.
HandledAtMostOnce ==
  \A c \in Challenge : runs[c] <= attempts[c] /\ attempts[c] <= 1

\* A challenge under verification was never claimed before, so a caller with a
\* live grant is never told DENY_REPLAY by the SDK's claim store.
NeverClaimedTwice ==
  \A t \in Thread : InStage(t, "verifying") => call[t].challenge \notin claimed

\* The handler runs for exactly what the challenge was issued for: the same
\* action, on the same caller's channel, for the expected agent, which signed
\* that action's context over that challenge while it was live.
OrdersMatchGrants ==
  \A o \in orders :
    LET g == grant[o.challenge] IN
    /\ g # NoGrant
    /\ o.action = g.action /\ o.caller = g.caller
    /\ o.bundle.agent_id = g.agent /\ o.bundle.signer = g.agent
    /\ o.bundle.challenge = o.challenge /\ o.bundle.context = g.action
    /\ o.now < g.expires_at

\* Every invocation of the handler had authority: an unbroken, unexpired chain
\* from the pinned root to the signer, the action within every signed bound and
\* within what the receiver does at all, and a current signed list, read by that
\* verification, revoking none of the certificates.
OrdersAreAuthorised ==
  \A o \in orders :
    LET d == o.bundle.delegations IN
    /\ d[Len(d)].issuer = TrustedRoot
    /\ d[1].subject = o.bundle.signer
    /\ \A i \in 1..(Len(d) - 1) : d[i].issuer = d[i + 1].subject
    /\ ~ Expired(d, o.now)
    /\ ConstraintsAllow(d, o.action)
    /\ LocalPolicy(o.action, d) = "ALLOW"
    /\ o.list # 0
    /\ o.now - lists[o.list].updated_at <= StatusLifetime
    /\ ~ Revoked(d, o.list)

\* A live grant ends only by its own caller presenting its own action as the
\* expected agent, by expiring, or by a restart: no other caller, altered action,
\* declared subject, empty or foreign chain, and no later challenge, removes it.
GrantsEndTheirOwnWay ==
  [][\A r \in RequestId :
       LET c == pending[r] IN
       c # NoChallenge /\ pending'[r] # c =>
         \/ grant[c].expires_at <= now
         \/ restarts' # restarts
         \/ /\ pending'[r] = NoChallenge
            /\ attempts'[c] = attempts[c] + 1
            /\ lock # NoThread
            /\ call[lock].caller = grant[c].caller
            /\ call[lock].action = grant[c].action
            /\ call[lock].bundle.agent_id = grant[c].agent]_vars

\* Once a verification of this process ingested a list revoking a certificate, no
\* later invocation rests on it, even when an older signed list is put back on the
\* volume: the journal all verifications share refuses the older list.
RevocationIsFinal ==
  [][\A o \in orders' \ orders :
       \A cert \in Elements(o.bundle.delegations) : cert.cert_id \notin known]_vars

\* The receiver implements WorkOrders: a grant is open while it is pending or
\* its verification holds the lock, and is performed when the handler runs.
InFlight == {t \in Thread : InStage(t, "verifying") \/ InStage(t, "decided")}
Open == {pending[r] : r \in RequestId} \cup {call[t].challenge : t \in InFlight}

Promise == INSTANCE WorkOrders WITH
  Terms <- Grant,
  open  <- Open \ {NoChallenge},
  works <- {<<o.challenge, [action |-> o.action, caller |-> o.caller,
                            agent |-> o.bundle.agent_id,
                            expires_at |-> grant[o.challenge].expires_at]>> :
              o \in orders}

\* Seen from its callers, the receiver is WorkOrders.
ImplementsWorkOrders == Promise!Spec

\* docs/THREAT-MODEL.md: "The request ID cannot be challenged again until that
\* grant succeeds or its 300-second TTL expires."  Refuted: an attempt that is
\* denied after the pop frees the request as well.
RequestHeldUntilGrantEnds ==
  \A c1, c2 \in Challenge :
    /\ c1 # c2
    /\ grant[c1] # NoGrant /\ grant[c2] # NoGrant
    /\ grant[c1].action.request_id = grant[c2].action.request_id
    /\ grant[c1].expires_at > now /\ grant[c2].expires_at > now
    => runs[c1] + runs[c2] > 0
=============================================================================

----------------------------- MODULE Scenarios -----------------------------
(***************************************************************************)
(* The demonstration's scenarios: what issuance signs for each of the two  *)
(* runtimes (deployment_issuance.py, authority.py), which work order and   *)
(* which authority a scenario combines (agent_runtime.py), how that        *)
(* authority is presented, what the receiver answers, and the answers that *)
(* docs/gate-expectations.json and docs/runtime-isolation-expectations.json*)
(* require.                                                                *)
(*                                                                         *)
(* Nothing here has state: an answer is a function of the material a       *)
(* runtime holds, the clock and what the receiver knows of revocation.  A  *)
(* scenario's request ID is new in every run and left out.                 *)
(***************************************************************************)
EXTENDS WorkOrderPolicy

CONSTANTS
  DefaultResource, SecondResource,
  DefaultMax, SecondMax,    \* the ceilings of the two delegations
  Amount, Excess, Modest,   \* what scenarios ask for: 42_000, 50_100, 15_000
  Validity,                 \* DEMO_VALIDITY_SECONDS
  TrustedRoot

ASSUME ScenarioAssumption ==
  /\ DefaultResource # SecondResource
  /\ {DefaultResource, SecondResource} \subseteq ManagedResources
  /\ {Amount, Excess, Modest, DefaultMax, SecondMax} \subseteq Nat
  /\ Amount <= DefaultMax /\ DefaultMax < Excess
  /\ Modest <= SecondMax /\ Modest <= DefaultMax
  /\ {Amount, Excess, Modest} \subseteq 0..CeilingMinor
  /\ Validity \in Nat \ {0}

Runtime == {"primary", "secondary"}
Agent   == {"agent", "second_agent", "wrong_agent"}

\* One image serves both; what a runtime can execute follows from its authority.
Supported ==
  [primary   |-> {"allow", "over_limit", "wrong_resource", "altered_operation",
                  "expired", "revoked", "replay", "wrong_agent",
                  "copied_certificate"},
   secondary |-> {"isolation_own", "isolation_wrong_site",
                  "isolation_borrowed_subject", "isolation_borrowed_certificate"}]

\* The agent key the receiver binds to each runtime's transport credential.
CallerAgent == [primary |-> "agent", secondary |-> "second_agent"]

-----------------------------------------------------------------------------
(***************************************************************************)
(* Issuance: renewal number issue, signed at the given time.               *)
(***************************************************************************)
DelegationName == {"active", "expired", "revoked", "second", "wrong_agent"}

Holder ==
  [active |-> "agent", expired |-> "agent", revoked |-> "agent",
   second |-> "second_agent", wrong_agent |-> "wrong_agent"]

BoundedDelegation(name, issue, from, to) ==
  [cert_id |-> <<name, issue>>, issuer |-> TrustedRoot, subject |-> Holder[name],
   issued_at |-> from, expires_at |-> to, scope |-> {WorkOrderScope},
   constraints |->
     IF name = "second"
     THEN BoundedConstraints(SecondResource, ManagedCategory, SecondMax,
                             ManagedCurrency, ReceiverId)
     ELSE BoundedConstraints(DefaultResource, ManagedCategory, DefaultMax,
                             ManagedCurrency, ReceiverId)]

\* The expired fixture is two validities old; all others start when issued.
ScenarioDelegation(name, issue, at) ==
  IF name = "expired"
  THEN BoundedDelegation(name, issue, at - 2 * Validity, at - Validity)
  ELSE BoundedDelegation(name, issue, at, at + Validity)

-----------------------------------------------------------------------------
(***************************************************************************)
(* The authority a runtime presents in a scenario: the subject it declares *)
(* itself to be, the key it holds, and the name of a delegation.  An honest*)
(* fixture holds the key of the delegation's subject; a misheld one does   *)
(* not.                                                                    *)
(***************************************************************************)
Honest(agent, name) ==
  [misheld |-> FALSE, agent_id |-> agent, key |-> agent, delegation |-> name]

Misheld(agent, key, name) ==
  [misheld |-> TRUE, agent_id |-> agent, key |-> key, delegation |-> name]

\* settings.authority: the delegation a runtime was issued for its own work.
Own == [primary |-> "active", secondary |-> "second"]

\* Fault: the cross-runtime attempts use the runtime's own certificate.
AuthorityOwnCertificate(runtime, scenario) == Honest(CallerAgent[runtime], Own[runtime])

\* settings.scenario_authorities, else settings.authority.
Authority(runtime, scenario) ==
  CASE scenario \in {"expired", "revoked"} -> Honest("agent", scenario)
    [] scenario = "wrong_agent" -> Honest("wrong_agent", "wrong_agent")
    [] scenario = "copied_certificate" -> Misheld("agent", "wrong_agent", "active")
    [] scenario = "isolation_borrowed_subject" ->
         Misheld("agent", "second_agent", "active")
    [] scenario = "isolation_borrowed_certificate" ->
         Misheld("second_agent", "second_agent", "active")
    [] OTHER -> Honest(CallerAgent[runtime], Own[runtime])

\* present: the declared key is the certificate's subject's if the declared agent
\* is that subject, else the holder's own; the holder signs in either case.
Present(authority) ==
  LET subject == Holder[authority.delegation] IN
  [agent_id |-> authority.agent_id,
   declared |-> IF ~ authority.misheld \/ authority.agent_id = subject
                THEN subject ELSE authority.key,
   signer |-> authority.key,
   subject |-> subject]

-----------------------------------------------------------------------------
\* _scenario_arguments
Arguments(scenario) ==
  [resource |-> IF scenario \in {"wrong_resource", "isolation_own"}
                THEN SecondResource ELSE DefaultResource,
   category |-> ManagedCategory, currency |-> ManagedCurrency,
   amount_minor |-> CASE scenario = "over_limit" -> Excess
                      [] scenario \in {"isolation_own", "isolation_wrong_site"} -> Modest
                      [] OTHER -> Amount,
   description |-> "lighting"]

\* _dispatch_transform, applied after the proof was made and uploaded.
Dispatched(scenario) ==
  IF scenario = "altered_operation"
  THEN [Arguments(scenario) EXCEPT !.description = "panel"]
  ELSE Arguments(scenario)

\* Fault: the facts shown are those of the runtime's own delegation.
ShownDelegationOwn(runtime, scenario) == Own[runtime]

\* _delegation_public_facts: of the delegation the scenario presents.
ShownDelegation(runtime, scenario) == Authority(runtime, scenario).delegation

BoundOf(delegation, type) ==
  CHOOSE c \in Elements(delegation.constraints) : c.type = type

\* What run_scenario returns beside the decision.  The ceiling is that of the
\* runtime's own delegation (_delegation_amount_limit), in whole minor units.
PublicFacts(runtime, scenario, issue, at) ==
  LET own == ScenarioDelegation(Own[runtime], issue, at)
      shown == ScenarioDelegation(ShownDelegation(runtime, scenario), issue, at)
  IN [requested_amount_minor |-> Dispatched(scenario).amount_minor,
      requested_resource |-> Dispatched(scenario).resource,
      authorized_max_amount_minor |->
        BoundOf(own, MaxAmount).max_amount_micros \div MicrosPerMinor,
      delegation_resource |-> BoundOf(shown, ResourcePath).resource_id,
      delegation_expires_at |-> shown.expires_at]

-----------------------------------------------------------------------------
(***************************************************************************)
(* The receiver's answer.  status is what a verification finds on the      *)
(* volume: whether a usable list is there, and the certificates it names.  *)
(***************************************************************************)
Answer(decision, reason, decided_by, verification_status) ==
  [decision |-> decision, reason |-> reason, handler_invoked |-> decision = "ALLOW",
   decided_by |-> decided_by, verification_status |-> verification_status]

Denied(reason, decided_by, status) == Answer("DENY", reason, decided_by, status)

\* The SDK's error class of a proof that is not the declared agent's.
ProofFaults(proof) ==
  {f \in {"invalid_signature", "chain_linkage_mismatch"} :
     \/ f = "invalid_signature" /\ proof.signer # proof.declared
     \/ f = "chain_linkage_mismatch" /\ proof.subject # proof.agent_id}

\* The reasons for which a released decision does not allow, with the identity
\* status each is reported under.
IdentityStatus ==
  [status_unavailable |-> "status_unavailable", delegation_revoked |-> "revoked",
   delegation_expired |-> "expired", constraint_denied |-> "constraint_denied"]

Refused(cert, action, now, status) ==
  {r \in DOMAIN IdentityStatus :
     \/ r = "status_unavailable" /\ ~ status.usable
     \/ r = "delegation_revoked" /\ status.usable /\ cert.cert_id \in status.revoked
     \/ r = "delegation_expired" /\ cert.expires_at <= now
     \/ r = "constraint_denied" /\ ~ ConstraintsAllow(<<cert>>, action)}

\* verify_proof_bundle_v2 and what execute makes of it.  Which of several true
\* reasons the SDK reports is left open.
Verified(proof, cert, action, now, status) ==
  LET refused == Refused(cert, action, now, status)
      policy  == LocalPolicy(action, <<cert>>)
  IN IF ProofFaults(proof) # {}
     THEN {Denied(RejectionReason(f), "ratify_verification", f) : f \in ProofFaults(proof)}
     ELSE IF refused # {}
     THEN {Denied(DecisionReason(r, action, <<cert>>),
                  "ratify_verification", IdentityStatus[r]) : r \in refused}
     ELSE IF policy # "ALLOW"
     THEN {Denied(policy, "receiver_policy", "authorized_agent")}
     ELSE {Answer("ALLOW", "ALLOW", "ratify_verification", "authorized_agent")}

\* create_work_order with the reference of an unused proof: the registry compares
\* the action, the receiver the declared agent with the one of the challenge.
FirstDispatch(runtime, scenario, proof, cert, now, status) ==
  IF Dispatched(scenario) # Arguments(scenario)
  THEN {Denied("DENY_OPERATION_MISMATCH", "proof_carrier", "none")}
  ELSE IF proof.agent_id # CallerAgent[runtime]
  THEN {Denied("DENY_SUBJECT_MISMATCH", "receiver_precheck", "none")}
  ELSE IF cert.issuer # TrustedRoot
  THEN {Denied("DENY_UNTRUSTED_ISSUER", "receiver_precheck", "none")}
  ELSE Verified(proof, cert, Arguments(scenario), now, status)

\* run_scenario: the answers a visitor can be given.  A replaying scenario returns
\* the second dispatch's, whose reference the first one used up.
Answers(runtime, scenario, issue, at, now, status) ==
  LET authority == Authority(runtime, scenario) IN
  IF scenario = "replay"
  THEN {Denied("DENY_REPLAY", "proof_carrier", "none")}
  ELSE FirstDispatch(runtime, scenario, Present(authority),
                     ScenarioDelegation(authority.delegation, issue, at), now, status)

\* Whether the dispatch of a scenario reads the status list: nothing before the
\* verification refuses it.
ReachesVerification(runtime, scenario) ==
  /\ Dispatched(scenario) = Arguments(scenario)
  /\ Authority(runtime, scenario).agent_id = CallerAgent[runtime]

-----------------------------------------------------------------------------
\* The contracts, by scenario; an attempt of the isolation contract that runs a
\* scenario of the other requires the same of it.
Required ==
  LET allowed == Answer("ALLOW", "ALLOW", "ratify_verification", "authorized_agent")
      bound(reason) == Denied(reason, "ratify_verification", "constraint_denied")
  IN [allow |-> allowed,
      over_limit |-> bound("DENY_LIMIT_EXCEEDED"),
      wrong_resource |-> bound("DENY_RESOURCE_MISMATCH"),
      altered_operation |-> Denied("DENY_OPERATION_MISMATCH", "proof_carrier", "none"),
      expired |-> Denied("DENY_EXPIRED", "ratify_verification", "expired"),
      revoked |-> Denied("DENY_REVOKED", "ratify_verification", "revoked"),
      replay |-> Denied("DENY_REPLAY", "proof_carrier", "none"),
      wrong_agent |-> Denied("DENY_SUBJECT_MISMATCH", "receiver_precheck", "none"),
      copied_certificate |->
        Denied("DENY_VERIFICATION_FAILED", "ratify_verification", "invalid_signature"),
      isolation_own |-> allowed,
      isolation_wrong_site |-> bound("DENY_RESOURCE_MISMATCH"),
      isolation_borrowed_subject |->
        Denied("DENY_SUBJECT_MISMATCH", "receiver_precheck", "none"),
      isolation_borrowed_certificate |->
        Denied("DENY_VERIFICATION_FAILED", "ratify_verification",
               "chain_linkage_mismatch")]

-----------------------------------------------------------------------------
(***************************************************************************)
(* The hosted walkthrough, the proxy's own table of what each scenario     *)
(* would show (hostedWalkthroughResult in index.ts).  It is written by     *)
(* hand beside all of the above and keeps its own amounts.                 *)
(***************************************************************************)
Portland == Supported.secondary
Borrowed == {"isolation_borrowed_subject", "isolation_borrowed_certificate"}

WalkthroughAnswer(scenario) ==
  CASE scenario \in {"allow", "isolation_own"} ->
         Answer("ALLOW", "ALLOW", "ratify_verification", "authorized_agent")
    [] scenario \in {"wrong_resource", "isolation_wrong_site"} ->
         Denied("DENY_RESOURCE_MISMATCH", "ratify_verification", "constraint_denied")
    [] scenario \in {"copied_certificate", "isolation_borrowed_certificate"} ->
         Denied("DENY_VERIFICATION_FAILED", "ratify_verification", "invalid")
    [] scenario = "over_limit" ->
         Denied("DENY_LIMIT_EXCEEDED", "ratify_verification", "constraint_denied")
    [] scenario = "altered_operation" ->
         Denied("DENY_OPERATION_MISMATCH", "proof_carrier", "none")
    [] scenario = "expired" -> Denied("DENY_EXPIRED", "ratify_verification", "expired")
    [] scenario = "revoked" -> Denied("DENY_REVOKED", "ratify_verification", "revoked")
    [] scenario = "replay" -> Denied("DENY_REPLAY", "proof_carrier", "none")
    [] OTHER -> Denied("DENY_SUBJECT_MISMATCH", "receiver_precheck", "none")

\* Fault: what a scenario borrows is not told apart from the runtime's own.
WalkthroughFactsOwn(scenario) ==
  [requested_amount_minor |->
     CASE scenario = "over_limit" -> 50100
       [] scenario \in {"isolation_own", "isolation_wrong_site"} -> 15000
       [] OTHER -> 42000,
   requested_resource |->
     IF scenario = "wrong_resource" \/ scenario \in Portland \ {"isolation_wrong_site"}
     THEN SecondResource ELSE DefaultResource,
   authorized_max_amount_minor |-> IF scenario \in Portland THEN 20000 ELSE 50000,
   delegation_resource |->
     IF scenario \in Portland THEN SecondResource ELSE DefaultResource]

WalkthroughFacts(scenario) ==
  [requested_amount_minor |->
     CASE scenario = "over_limit" -> 50100
       [] scenario \in {"isolation_own", "isolation_wrong_site"} -> 15000
       [] OTHER -> 42000,
   requested_resource |->
     IF \/ scenario = "wrong_resource"
        \/ scenario \in Portland \ (Borrowed \cup {"isolation_wrong_site"})
     THEN SecondResource ELSE DefaultResource,
   authorized_max_amount_minor |-> IF scenario \in Portland THEN 20000 ELSE 50000,
   delegation_resource |->
     IF scenario \in Portland \ Borrowed THEN SecondResource ELSE DefaultResource]

\* Whether the delegation it shows has lapsed.
WalkthroughLapsed(scenario) == scenario = "expired"
=============================================================================

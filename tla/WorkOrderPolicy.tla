--------------------------- MODULE WorkOrderPolicy ---------------------------
(***************************************************************************)
(* What one maritime work order must satisfy, and the public name of every *)
(* reason for refusing it: the action schema (action.py), the bounds a     *)
(* delegation carries (authority.py), the receiver's own capability and    *)
(* the reason tables (receiver.py).                                        *)
(*                                                                         *)
(* An action is a record                                                   *)
(*   [request_id, resource, category, currency, amount_minor]              *)
(* and a certificate a record                                              *)
(*   [cert_id, issuer, subject, expires_at, scope, constraints],           *)
(* constraints being a sequence.  A proof carries a sequence of            *)
(* certificates, leaf first and root last.                                 *)
(***************************************************************************)
EXTENDS Integers, Sequences

CONSTANTS
  MicrosPerMinor,     \* micro-units of the major unit in one minor unit
  MaxAmountMinor,     \* the largest amount the closed schema accepts
  ManagedResources,   \* the sites this receiver manages
  ManagedCategory,    \* the one category it accepts
  ManagedCurrency,    \* the one currency it accepts
  CeilingMinor,       \* its ceiling, above every delegated one
  ReceiverId,         \* the audience delegations name
  WorkOrderScope      \* the one scope delegations grant

ASSUME PolicyAssumption ==
  /\ MicrosPerMinor \in Nat \ {0}
  /\ MaxAmountMinor \in Nat
  /\ CeilingMinor \in Nat

-----------------------------------------------------------------------------
\* The four bounds a work-order delegation is signed with.
ResourcePath   == "resource_path"
MaxAmount      == "max_amount"
AllowedValues  == "com.ratifyprotocol.allowed_values"
Audience       == "ratify.receiver_audience"
RequiredBounds == {ResourcePath, MaxAmount, AllowedValues, Audience}

\* The public reasons of docs/gate-expectations.json and receiver.py.
Reason == {"ALLOW", "DENY_INVALID_REQUEST", "DENY_VERIFIER_UNAVAILABLE",
           "DENY_AMBIGUOUS_INPUT", "DENY_REPLAY", "DENY_CALLER_MISMATCH",
           "DENY_OPERATION_MISMATCH", "DENY_SUBJECT_MISMATCH",
           "DENY_UNTRUSTED_ISSUER", "DENY_AUDIENCE_MISMATCH",
           "DENY_VERIFICATION_FAILED", "DENY_EXPIRED", "DENY_REVOKED",
           "DENY_SCOPE_MISMATCH", "DENY_CONSTRAINT_MISMATCH",
           "DENY_LIMIT_EXCEEDED", "DENY_RESOURCE_MISMATCH"}

Elements(s) == {s[i] : i \in DOMAIN s}

\* WorkOrder.validate: the receiver accepts nothing outside the closed schema.
WellFormed(action) == action.amount_minor \in 0..MaxAmountMinor

RequestedMicros(action) == action.amount_minor * MicrosPerMinor

BoundedConstraints(resource, category, amount, currency, audience) ==
  << [type |-> ResourcePath, resource_id |-> resource],
     [type |-> MaxAmount, currency |-> currency,
      max_amount_micros |-> amount * MicrosPerMinor],
     [type |-> AllowedValues, allowed |-> {category}],
     [type |-> Audience, receivers |-> {audience}] >>

-----------------------------------------------------------------------------
(***************************************************************************)
(* The protocol SDK's constraint evaluators, as the receiver configures    *)
(* them: every value comes from the authenticated action.                  *)
(***************************************************************************)
Satisfied(constraint, action) ==
  \/ /\ constraint.type = ResourcePath
     /\ constraint.resource_id = action.resource
  \/ /\ constraint.type = MaxAmount
     /\ constraint.currency = action.currency
     /\ RequestedMicros(action) <= constraint.max_amount_micros
  \/ /\ constraint.type = AllowedValues
     /\ action.category \in constraint.allowed
  \/ /\ constraint.type = Audience
     /\ ReceiverId \in constraint.receivers

ConstraintsOf(delegations) ==
  UNION {Elements(cert.constraints) : cert \in Elements(delegations)}

\* An audience bound is decided before the challenge is claimed, the others
\* in the released decision.
AudienceAccepted(delegations) ==
  \A c \in ConstraintsOf(delegations) :
    c.type = Audience => ReceiverId \in c.receivers

ConstraintsAllow(delegations, action) ==
  \A c \in ConstraintsOf(delegations) : Satisfied(c, action)

-----------------------------------------------------------------------------
(***************************************************************************)
(* Receiver capability, not agent authority: checked after the delegation  *)
(* was verified, in this order.                                            *)
(***************************************************************************)
LocalPolicy(action, delegations) ==
  IF ~ (RequiredBounds \subseteq {c.type : c \in Elements(delegations[1].constraints)})
  THEN "DENY_CONSTRAINT_MISMATCH"
  ELSE IF action.resource \notin ManagedResources
  THEN "DENY_RESOURCE_MISMATCH"
  ELSE IF action.category # ManagedCategory \/ action.currency # ManagedCurrency
  THEN "DENY_CONSTRAINT_MISMATCH"
  ELSE IF action.amount_minor > CeilingMinor
  THEN "DENY_LIMIT_EXCEEDED"
  ELSE "ALLOW"

(***************************************************************************)
(* The public reason of a signed constraint denial: the first bound, in    *)
(* certificate order and then constraint order, that the action exceeds.   *)
(* Category and audience have no reason of their own.                      *)
(***************************************************************************)
Complaint(constraint, action) ==
  IF constraint.type = MaxAmount /\ constraint.currency # action.currency
  THEN "DENY_CONSTRAINT_MISMATCH"
  ELSE IF /\ constraint.type = MaxAmount
          /\ RequestedMicros(action) > constraint.max_amount_micros
  THEN "DENY_LIMIT_EXCEEDED"
  ELSE IF /\ constraint.type = ResourcePath
          /\ constraint.resource_id # action.resource
  THEN "DENY_RESOURCE_MISMATCH"
  ELSE "none"

ConstraintReason(action, delegations) ==
  LET At(p) == delegations[p[1]].constraints[p[2]]
      Offending ==
        {p \in UNION {{i} \X DOMAIN delegations[i].constraints :
                       i \in DOMAIN delegations} :
           Complaint(At(p), action) # "none"}
      Precedes(p, q) == p[1] < q[1] \/ (p[1] = q[1] /\ p[2] <= q[2])
  IN IF Offending = {}
     THEN "DENY_CONSTRAINT_MISMATCH"
     ELSE Complaint(At(CHOOSE p \in Offending :
                         \A q \in Offending : Precedes(p, q)), action)

\* The public reason of a rejection before the challenge is claimed.
RejectionReason(error_class) ==
  CASE error_class = "claim_replay" -> "DENY_REPLAY"
    [] error_class \in {"session_context_mismatch", "verifier_id_mismatch",
                        "receiver_audience_mismatch",
                        "receiver_audience_required"} -> "DENY_AUDIENCE_MISMATCH"
    [] error_class = "expected_agent_mismatch" -> "DENY_SUBJECT_MISMATCH"
    [] error_class \in {"claim_store_unavailable", "configuration_invalid",
                        "clock_regressed", "expected_challenge_unavailable"}
         -> "DENY_VERIFIER_UNAVAILABLE"
    [] OTHER -> "DENY_VERIFICATION_FAILED"

\* Fault: the SDK's own reason is passed on.
DecisionReasonRaw(reason, action, delegations) == reason

\* The public reason of a released decision that does not allow.
DecisionReason(reason, action, delegations) ==
  CASE reason = "constraint_denied"  -> ConstraintReason(action, delegations)
    [] reason = "delegation_expired" -> "DENY_EXPIRED"
    [] reason = "delegation_revoked" -> "DENY_REVOKED"
    [] reason \in {"scope_denied", "invalid_scope"} -> "DENY_SCOPE_MISMATCH"
    [] reason = "constraint_unknown" -> "DENY_CONSTRAINT_MISMATCH"
    [] reason = "unauthorized"       -> "DENY_UNTRUSTED_ISSUER"
    [] reason \in {"constraint_unverifiable", "status_unavailable",
                   "status_stale", "trust_unavailable",
                   "evaluation_interrupted", "action_context_unverified"}
         -> "DENY_VERIFIER_UNAVAILABLE"
    [] OTHER -> "DENY_VERIFICATION_FAILED"
=============================================================================

-------------------------- MODULE DeploymentProofs --------------------------
(***************************************************************************)
(* Proofs about Deployment, for any validities, lifetimes and margins, and *)
(* any number of issues and lists: what a gate or watch that passed        *)
(* promises, which scenario may slip through when a list is not written,   *)
(* and that what is in force is answered as the contracts require and      *)
(* shown with the facts that explain it.                                   *)
(***************************************************************************)
EXTENDS Deployment, SequenceTheorems, TLAPS

-----------------------------------------------------------------------------
(***************************************************************************)
(* What a delegation bounds, and what a work order asks of it.             *)
(***************************************************************************)
SiteOf(name)    == IF name = "second" THEN SecondResource ELSE DefaultResource
CeilingOf(name) == IF name = "second" THEN SecondMax ELSE DefaultMax
LapseOf(name, at) == IF name = "expired" THEN at - Validity ELSE at + Validity
Bounds(name) ==
  BoundedConstraints(SiteOf(name), ManagedCategory, CeilingOf(name), ManagedCurrency,
                     ReceiverId)

LEMMA MicrosKeepOrder ==
  ASSUME NEW m \in Nat, NEW n \in Nat
  PROVE  /\ m * MicrosPerMinor <= n * MicrosPerMinor <=> m <= n
         /\ (m * MicrosPerMinor) \div MicrosPerMinor = m
<1> DEFINE k == MicrosPerMinor
<1>1. k \in Nat \ {0}
  BY PolicyAssumption
<1> HIDE DEF k
<1>2. m <= n => m * k <= n * k
  BY <1>1
<1>3. n < m => n * k < m * k
  BY <1>1
<1>4. m * k \in Nat /\ n * k \in Nat
  BY <1>1
<1>5. (m * k) \div k = m
  BY <1>1
<1> QED BY <1>2, <1>3, <1>4, <1>5 DEF k

LEMMA DelegationFields ==
  ASSUME NEW name, NEW issue, NEW at
  PROVE  LET cert == ScenarioDelegation(name, issue, at) IN
         /\ cert.cert_id = <<name, issue>> /\ cert.issuer = TrustedRoot
         /\ cert.expires_at = LapseOf(name, at)
         /\ cert.constraints = Bounds(name)
BY DEF ScenarioDelegation, BoundedDelegation, Bounds, SiteOf, CeilingOf, LapseOf

LEMMA TypesDiffer ==
  /\ ResourcePath # MaxAmount /\ ResourcePath # AllowedValues /\ ResourcePath # Audience
  /\ MaxAmount # AllowedValues /\ MaxAmount # Audience /\ AllowedValues # Audience
BY DEF ResourcePath, MaxAmount, AllowedValues, Audience

LEMMA BoundFields ==
  ASSUME NEW name
  PROVE  LET b == Bounds(name) IN
         /\ DOMAIN b = 1..4
         /\ b[1].type = ResourcePath /\ b[1].resource_id = SiteOf(name)
         /\ b[2].type = MaxAmount /\ b[2].currency = ManagedCurrency
         /\ b[2].max_amount_micros = CeilingOf(name) * MicrosPerMinor
         /\ b[3].type = AllowedValues /\ b[3].allowed = {ManagedCategory}
         /\ b[4].type = Audience /\ b[4].receivers = {ReceiverId}
         /\ Elements(b) = {b[1], b[2], b[3], b[4]}
<1> DEFINE b == Bounds(name)
<1>1. /\ DOMAIN b = 1..4
      /\ b[1] = [type |-> ResourcePath, resource_id |-> SiteOf(name)]
      /\ b[2] = [type |-> MaxAmount, currency |-> ManagedCurrency,
                 max_amount_micros |-> CeilingOf(name) * MicrosPerMinor]
      /\ b[3] = [type |-> AllowedValues, allowed |-> {ManagedCategory}]
      /\ b[4] = [type |-> Audience, receivers |-> {ReceiverId}]
  BY DEF Bounds, BoundedConstraints
<1> HIDE DEF b
<1>2. Elements(b) = {b[1], b[2], b[3], b[4]}
  <2>1. \A i : i \in 1..4 <=> i \in {1, 2, 3, 4}
    OBVIOUS
  <2> QED BY <1>1, <2>1 DEF Elements
<1> QED BY <1>1, <1>2 DEF b

LEMMA WorkFields ==
  ASSUME NEW s
  PROVE  /\ Arguments(s).category = ManagedCategory
         /\ Arguments(s).currency = ManagedCurrency
         /\ Arguments(s).amount_minor \in Nat /\ Arguments(s).amount_minor <= CeilingMinor
         /\ Arguments(s).resource \in ManagedResources
         /\ Dispatched(s).amount_minor = Arguments(s).amount_minor
         /\ Dispatched(s).resource = Arguments(s).resource
BY ScenarioAssumption, PolicyAssumption DEF Arguments, Dispatched

LEMMA CeilingInNat == \A name : CeilingOf(name) \in Nat
BY ScenarioAssumption DEF CeilingOf

LEMMA BoundsAllow ==
  ASSUME NEW name, NEW cert, cert.constraints = Bounds(name), NEW s
  PROVE  ConstraintsAllow(<<cert>>, Arguments(s)) <=>
           /\ Arguments(s).resource = SiteOf(name)
           /\ Arguments(s).amount_minor <= CeilingOf(name)
<1> DEFINE b == Bounds(name)
           x == Arguments(s)
<1>1. /\ b[1].type = ResourcePath /\ b[1].resource_id = SiteOf(name)
      /\ b[2].type = MaxAmount /\ b[2].currency = ManagedCurrency
      /\ b[2].max_amount_micros = CeilingOf(name) * MicrosPerMinor
      /\ b[3].type = AllowedValues /\ b[3].allowed = {ManagedCategory}
      /\ b[4].type = Audience /\ b[4].receivers = {ReceiverId}
      /\ Elements(b) = {b[1], b[2], b[3], b[4]}
  BY BoundFields
<1>2. /\ x.category = ManagedCategory /\ x.currency = ManagedCurrency
      /\ x.amount_minor \in Nat
  BY WorkFields
<1> HIDE DEF b, x
<1>3. ConstraintsOf(<<cert>>) = {b[1], b[2], b[3], b[4]}
  <2>1. Elements(<<cert>>) = {cert}
    BY DEF Elements
  <2> QED BY <1>1, <2>1 DEF ConstraintsOf, b
<1>4. Satisfied(b[1], x) <=> x.resource = SiteOf(name)
  BY <1>1, TypesDiffer DEF Satisfied
<1>5. Satisfied(b[2], x) <=> x.amount_minor <= CeilingOf(name)
  <2>1. x.amount_minor * MicrosPerMinor <= CeilingOf(name) * MicrosPerMinor
          <=> x.amount_minor <= CeilingOf(name)
    BY <1>2, MicrosKeepOrder, CeilingInNat
  <2> QED BY <1>1, <1>2, <2>1, TypesDiffer DEF Satisfied, RequestedMicros
<1>6. Satisfied(b[3], x) /\ Satisfied(b[4], x)
  BY <1>1, <1>2 DEF Satisfied
<1> QED BY <1>3, <1>4, <1>5, <1>6 DEF ConstraintsAllow, x

LEMMA BoundsReason ==
  ASSUME NEW name, NEW cert, cert.constraints = Bounds(name), NEW s
  PROVE  ConstraintReason(Arguments(s), <<cert>>) =
           IF Arguments(s).resource # SiteOf(name) THEN "DENY_RESOURCE_MISMATCH"
           ELSE IF Arguments(s).amount_minor > CeilingOf(name) THEN "DENY_LIMIT_EXCEEDED"
           ELSE "DENY_CONSTRAINT_MISMATCH"
<1> DEFINE b == Bounds(name)
           x == Arguments(s)
           At(p) == <<cert>>[p[1]].constraints[p[2]]
           Places == UNION {{i} \X DOMAIN <<cert>>[i].constraints : i \in DOMAIN <<cert>>}
           Offending == {p \in Places : Complaint(At(p), x) # "none"}
           Precedes(p, q) == p[1] < q[1] \/ (p[1] = q[1] /\ p[2] <= q[2])
           First == CHOOSE p \in Offending : \A q \in Offending : Precedes(p, q)
<1>1. ConstraintReason(x, <<cert>>) =
        IF Offending = {} THEN "DENY_CONSTRAINT_MISMATCH" ELSE Complaint(At(First), x)
  BY DEF ConstraintReason
<1>2. Places = {<<1, 1>>, <<1, 2>>, <<1, 3>>, <<1, 4>>}
  <2>1. DOMAIN <<cert>> = {1} /\ <<cert>>[1] = cert
    OBVIOUS
  <2>2. Places = {1} \X (1..4)
    BY <2>1, BoundFields
  <2>3. 1..4 = {1, 2, 3, 4}
    OBVIOUS
  <2> HIDE DEF Places
  <2> QED BY <2>2, <2>3
<1>3. \A i \in 1..4 : At(<<1, i>>) = b[i]
  OBVIOUS
<1>4. /\ b[1].type = ResourcePath /\ b[1].resource_id = SiteOf(name)
      /\ b[2].type = MaxAmount /\ b[2].currency = ManagedCurrency
      /\ b[2].max_amount_micros = CeilingOf(name) * MicrosPerMinor
      /\ b[3].type = AllowedValues /\ b[4].type = Audience
  BY BoundFields
<1>5. x.currency = ManagedCurrency /\ x.amount_minor \in Nat
  BY WorkFields
<1> HIDE DEF x, b, At, Places
<1>6. Complaint(b[1], x) = IF x.resource # SiteOf(name) THEN "DENY_RESOURCE_MISMATCH" ELSE "none"
  BY <1>4, TypesDiffer DEF Complaint
<1>7. Complaint(b[2], x) = IF x.amount_minor > CeilingOf(name)
                           THEN "DENY_LIMIT_EXCEEDED" ELSE "none"
  <2>1. RequestedMicros(x) > b[2].max_amount_micros <=> x.amount_minor > CeilingOf(name)
    <3>1. /\ RequestedMicros(x) = x.amount_minor * MicrosPerMinor
          /\ CeilingOf(name) \in Nat /\ MicrosPerMinor \in Nat
      BY CeilingInNat, PolicyAssumption DEF RequestedMicros
    <3>2. /\ x.amount_minor * MicrosPerMinor \in Nat
          /\ CeilingOf(name) * MicrosPerMinor \in Nat
      BY <1>5, <3>1
    <3>3. x.amount_minor * MicrosPerMinor <= CeilingOf(name) * MicrosPerMinor
            <=> x.amount_minor <= CeilingOf(name)
      BY <1>5, <3>1, MicrosKeepOrder
    <3> QED BY <1>4, <1>5, <3>1, <3>2, <3>3
  <2> QED BY <1>4, <1>5, <2>1, TypesDiffer DEF Complaint
<1>8. Complaint(b[3], x) = "none" /\ Complaint(b[4], x) = "none"
  BY <1>4, TypesDiffer DEF Complaint
<1>9. \A p : p \in Offending <=>
        \/ p = <<1, 1>> /\ x.resource # SiteOf(name)
        \/ p = <<1, 2>> /\ x.amount_minor > CeilingOf(name)
  <2>1. \A p \in Places : p \in {<<1, 1>>, <<1, 2>>, <<1, 3>>, <<1, 4>>}
    BY <1>2
  <2>2. /\ Complaint(At(<<1, 1>>), x) # "none" <=> x.resource # SiteOf(name)
        /\ Complaint(At(<<1, 2>>), x) # "none" <=> x.amount_minor > CeilingOf(name)
        /\ Complaint(At(<<1, 3>>), x) = "none" /\ Complaint(At(<<1, 4>>), x) = "none"
    BY <1>3, <1>6, <1>7, <1>8
  <2>3. <<1, 1>> \in Places /\ <<1, 2>> \in Places
    BY <1>2
  <2> QED BY <2>1, <2>2, <2>3
<1> HIDE DEF Offending
<1>10. CASE x.resource # SiteOf(name)
  <2>1. <<1, 1>> \in Offending /\ \A q \in Offending : Precedes(<<1, 1>>, q)
    BY <1>9, <1>10
  <2>2. \A p \in Offending : Precedes(p, <<1, 1>>) => p = <<1, 1>>
    BY <1>9
  <2>3. First \in Offending /\ Precedes(First, <<1, 1>>)
    BY <2>1
  <2> HIDE DEF First
  <2>4. First = <<1, 1>>
    BY <2>2, <2>3
  <2> QED BY <1>1, <1>3, <1>6, <1>10, <2>1, <2>4 DEF x
<1>11. CASE x.resource = SiteOf(name) /\ x.amount_minor > CeilingOf(name)
  <2>1. <<1, 2>> \in Offending /\ \A p \in Offending : p = <<1, 2>>
    BY <1>9, <1>11
  <2>2. Precedes(<<1, 2>>, <<1, 2>>)
    OBVIOUS
  <2>3. First = <<1, 2>>
    BY <2>1, <2>2
  <2> HIDE DEF First
  <2> QED BY <1>1, <1>3, <1>7, <1>11, <2>1, <2>3 DEF x
<1>12. CASE x.resource = SiteOf(name) /\ ~ (x.amount_minor > CeilingOf(name))
  <2>1. Offending = {}
    BY <1>9, <1>12
  <2> QED BY <1>1, <1>12, <2>1 DEF x
<1> QED BY <1>10, <1>11, <1>12 DEF x

LEMMA PolicyAllows ==
  ASSUME NEW name, NEW cert, cert.constraints = Bounds(name), NEW s
  PROVE  LocalPolicy(Arguments(s), <<cert>>) = "ALLOW"
<1>1. <<cert>>[1].constraints = Bounds(name)
  OBVIOUS
<1>2. RequiredBounds \subseteq {c.type : c \in Elements(Bounds(name))}
  <2>1. \A i \in 1..4 : Bounds(name)[i] \in Elements(Bounds(name))
    BY BoundFields DEF Elements
  <2> QED BY <2>1, BoundFields DEF RequiredBounds
<1>3. ~ (Arguments(s).amount_minor > CeilingMinor)
  BY WorkFields, PolicyAssumption
<1> QED BY <1>1, <1>2, <1>3, WorkFields DEF LocalPolicy

-----------------------------------------------------------------------------
\* The delegation a scenario presents, and the scenarios that present an unaltered
\* operation under authority of the caller's own.
Presented(r, s) ==
  IF s \in {"expired", "revoked", "wrong_agent"} THEN s
  ELSE IF s \in {"copied_certificate", "isolation_borrowed_subject",
                 "isolation_borrowed_certificate"} THEN "active"
  ELSE Own[r]

Plain == {"allow", "over_limit", "wrong_resource", "expired", "revoked",
          "isolation_own", "isolation_wrong_site"}

LEMMA ScenesOf ==
  /\ Supported["primary"] =
       {"allow", "over_limit", "wrong_resource", "altered_operation", "expired",
        "revoked", "replay", "wrong_agent", "copied_certificate"}
  /\ Supported["secondary"] =
       {"isolation_own", "isolation_wrong_site", "isolation_borrowed_subject",
        "isolation_borrowed_certificate"}
  /\ Own["primary"] = "active" /\ Own["secondary"] = "second"
  /\ CallerAgent["primary"] = "agent" /\ CallerAgent["secondary"] = "second_agent"
BY DEF Supported, Own, CallerAgent

LEMMA HonestHolds ==
  ASSUME NEW agent, NEW name, Holder[name] = agent
  PROVE  /\ Honest(agent, name).agent_id = agent /\ Honest(agent, name).delegation = name
         /\ ProofFaults(Present(Honest(agent, name))) = {}
<1>1. LET proof == Present(Honest(agent, name))
      IN proof.signer = proof.declared /\ proof.subject = proof.agent_id
  BY DEF Present, Honest
<1> QED BY <1>1 DEF Honest, ProofFaults

LEMMA PlainPresent ==
  ASSUME NEW r \in Runtime, NEW s \in Supported[r], s \in Plain
  PROVE  /\ Authority(r, s).agent_id = CallerAgent[r]
         /\ Authority(r, s).delegation = Presented(r, s)
         /\ ProofFaults(Present(Authority(r, s))) = {}
         /\ s # "replay" /\ Dispatched(s) = Arguments(s)
         /\ CeilingOf(Presented(r, s)) = CeilingOf(Own[r])
<1>1. /\ Holder["active"] = "agent" /\ Holder["expired"] = "agent"
      /\ Holder["revoked"] = "agent" /\ Holder["second"] = "second_agent"
  BY DEF Holder
<1>2. s # "replay" /\ Dispatched(s) = Arguments(s)
  BY DEF Plain, Dispatched
<1>3. CASE r = "primary" /\ s \in {"expired", "revoked"}
  <2>1. Authority(r, s) = Honest("agent", s) /\ Presented(r, s) = s
    BY <1>3 DEF Authority, Presented
  <2>2. CeilingOf(s) = CeilingOf(Own[r])
    BY <1>3, ScenesOf DEF CeilingOf
  <2>3. Holder[s] = "agent"
    BY <1>1, <1>3
  <2>4. /\ Honest("agent", s).agent_id = "agent" /\ Honest("agent", s).delegation = s
        /\ ProofFaults(Present(Honest("agent", s))) = {}
    BY <2>3, HonestHolds
  <2> QED BY <1>2, <1>3, <2>1, <2>2, <2>4, ScenesOf
<1>4. CASE r = "primary" /\ s \in {"allow", "over_limit", "wrong_resource"}
  <2>1. Authority(r, s) = Honest("agent", "active") /\ Presented(r, s) = "active"
    BY <1>4, ScenesOf DEF Authority, Presented
  <2>2. LET fixture == Honest("agent", "active")
        IN /\ fixture.agent_id = "agent" /\ fixture.delegation = "active"
           /\ ProofFaults(Present(fixture)) = {}
    BY <1>1, HonestHolds
  <2>3. CallerAgent[r] = "agent" /\ Own[r] = "active"
    BY <1>4, ScenesOf
  <2> QED BY <1>2, <2>1, <2>2, <2>3
<1>5. CASE r = "secondary" /\ s \in {"isolation_own", "isolation_wrong_site"}
  <2>1. Authority(r, s) = Honest("second_agent", "second") /\ Presented(r, s) = "second"
    BY <1>5, ScenesOf DEF Authority, Presented
  <2>2. LET fixture == Honest("second_agent", "second")
        IN /\ fixture.agent_id = "second_agent" /\ fixture.delegation = "second"
           /\ ProofFaults(Present(fixture)) = {}
    BY <1>1, HonestHolds
  <2>3. CallerAgent[r] = "second_agent" /\ Own[r] = "second"
    BY <1>5, ScenesOf
  <2> QED BY <1>2, <2>1, <2>2, <2>3
<1> QED BY <1>3, <1>4, <1>5, ScenesOf DEF Runtime, Plain

\* What a plain scenario asks for, and how long its delegation lasts.
LEMMA PlainWork ==
  ASSUME NEW r \in Runtime, NEW s \in Supported[r], s \in Plain,
         NEW at \in Nat, NEW time \in Nat, at <= time
  PROVE  LET name == Presented(r, s) IN
         /\ Arguments(s).amount_minor > CeilingOf(name) <=> s = "over_limit"
         /\ Arguments(s).resource # SiteOf(name) <=>
              s \in {"wrong_resource", "isolation_wrong_site"}
         /\ s = "expired" => LapseOf(name, at) <= time
         /\ s # "expired" => LapseOf(name, at) = at + Validity
         /\ name = "revoked" <=> s = "revoked"
<1> DEFINE name == Presented(r, s)
<1>1. \/ r = "primary" /\ s \in {"allow", "over_limit", "wrong_resource"} /\ name = "active"
      \/ r = "primary" /\ s \in {"expired", "revoked"} /\ name = s
      \/ r = "secondary" /\ s \in {"isolation_own", "isolation_wrong_site"} /\ name = "second"
  BY ScenesOf DEF Runtime, Plain, Presented
<1>2. /\ s = "over_limit" => Arguments(s).amount_minor = Excess
      /\ s \in {"isolation_own", "isolation_wrong_site"} => Arguments(s).amount_minor = Modest
      /\ s \in {"allow", "wrong_resource", "expired", "revoked"} =>
           Arguments(s).amount_minor = Amount
  BY DEF Arguments
<1>3. /\ s \in {"wrong_resource", "isolation_own"} => Arguments(s).resource = SecondResource
      /\ s \notin {"wrong_resource", "isolation_own"} => Arguments(s).resource = DefaultResource
  BY DEF Arguments
<1>4. /\ name = "second" => SiteOf(name) = SecondResource /\ CeilingOf(name) = SecondMax
      /\ name # "second" => SiteOf(name) = DefaultResource /\ CeilingOf(name) = DefaultMax
  BY DEF SiteOf, CeilingOf
<1>5. /\ name = "expired" => LapseOf(name, at) = at - Validity
      /\ name # "expired" => LapseOf(name, at) = at + Validity
  BY DEF LapseOf
<1> HIDE DEF name
<1>6. Arguments(s).amount_minor > CeilingOf(name) <=> s = "over_limit"
  BY <1>1, <1>2, <1>4, ScenarioAssumption
<1>7. Arguments(s).resource # SiteOf(name) <=> s \in {"wrong_resource", "isolation_wrong_site"}
  BY <1>1, <1>3, <1>4, ScenarioAssumption
<1>8. s = "expired" => LapseOf(name, at) <= time
  BY <1>1, <1>5, ScenarioAssumption
<1>9. s # "expired" => LapseOf(name, at) = at + Validity
  BY <1>1, <1>5
<1>10. name = "revoked" <=> s = "revoked"
  BY <1>1
<1> QED BY <1>6, <1>7, <1>8, <1>9, <1>10 DEF name

\* A plain scenario is answered by its verification alone: the receiver's own policy
\* has nothing to add to what the contracts ask.
LEMMA PlainAnswers ==
  ASSUME NEW r \in Runtime, NEW s \in Supported[r], s \in Plain,
         NEW issue, NEW at, NEW time, NEW status
  PROVE  LET cert == ScenarioDelegation(Presented(r, s), issue, at)
             refused == Refused(cert, Arguments(s), time, status)
         IN Answers(r, s, issue, at, time, status) =
              IF refused # {}
              THEN {Denied(DecisionReason(x, Arguments(s), <<cert>>),
                           "ratify_verification", IdentityStatus[x]) : x \in refused}
              ELSE {Answer("ALLOW", "ALLOW", "ratify_verification", "authorized_agent")}
<1> DEFINE cert == ScenarioDelegation(Presented(r, s), issue, at)
           proof == Present(Authority(r, s))
           x == Arguments(s)
<1>1. /\ cert.issuer = TrustedRoot /\ cert.constraints = Bounds(Presented(r, s))
  BY DelegationFields
<1>2. LocalPolicy(x, <<cert>>) = "ALLOW"
  BY <1>1, PolicyAllows
<1>3. proof.agent_id = CallerAgent[r] /\ ProofFaults(proof) = {}
  BY PlainPresent DEF Present
<1>4. Answers(r, s, issue, at, time, status) =
        FirstDispatch(r, s, proof, cert, time, status)
  BY PlainPresent DEF Answers
<1> HIDE DEF cert, proof, x
<1>5. FirstDispatch(r, s, proof, cert, time, status) = Verified(proof, cert, x, time, status)
  BY <1>1, <1>3, PlainPresent DEF FirstDispatch, x
<1> QED BY <1>2, <1>3, <1>4, <1>5 DEF Verified, cert, x

\* What a plain scenario can be refused for.
LEMMA PlainRefusals ==
  ASSUME NEW name, NEW s, NEW issue, NEW at, NEW time, NEW status
  PROVE  LET cert == ScenarioDelegation(name, issue, at)
             refused == Refused(cert, Arguments(s), time, status)
             x == Arguments(s)
         IN /\ \A k \in refused :
                 k \in {"status_unavailable", "delegation_revoked", "delegation_expired",
                       "constraint_denied"}
            /\ "status_unavailable" \in refused <=> ~ status.usable
            /\ "delegation_revoked" \in refused <=>
                 status.usable /\ <<name, issue>> \in status.revoked
            /\ "delegation_expired" \in refused <=> LapseOf(name, at) <= time
            /\ "constraint_denied" \in refused <=>
                 ~ (x.resource = SiteOf(name) /\ x.amount_minor <= CeilingOf(name))
            /\ DecisionReason("status_unavailable", x, <<cert>>) = "DENY_VERIFIER_UNAVAILABLE"
            /\ DecisionReason("delegation_revoked", x, <<cert>>) = "DENY_REVOKED"
            /\ DecisionReason("delegation_expired", x, <<cert>>) = "DENY_EXPIRED"
            /\ DecisionReason("constraint_denied", x, <<cert>>) =
                 IF x.resource # SiteOf(name) THEN "DENY_RESOURCE_MISMATCH"
                 ELSE IF x.amount_minor > CeilingOf(name) THEN "DENY_LIMIT_EXCEEDED"
                 ELSE "DENY_CONSTRAINT_MISMATCH"
<1> DEFINE cert == ScenarioDelegation(name, issue, at)
           x == Arguments(s)
<1>1. /\ cert.cert_id = <<name, issue>> /\ cert.expires_at = LapseOf(name, at)
      /\ cert.constraints = Bounds(name)
  BY DelegationFields
<1> HIDE DEF cert
<1>2. ConstraintsAllow(<<cert>>, x) <=>
        x.resource = SiteOf(name) /\ x.amount_minor <= CeilingOf(name)
  BY <1>1, BoundsAllow
<1>3. ConstraintReason(x, <<cert>>) =
        IF x.resource # SiteOf(name) THEN "DENY_RESOURCE_MISMATCH"
        ELSE IF x.amount_minor > CeilingOf(name) THEN "DENY_LIMIT_EXCEEDED"
        ELSE "DENY_CONSTRAINT_MISMATCH"
  BY <1>1, BoundsReason
<1> HIDE DEF x
<1>4. DOMAIN IdentityStatus = {"status_unavailable", "delegation_revoked",
                               "delegation_expired", "constraint_denied"}
  BY DEF IdentityStatus
<1>5. /\ \A k \in Refused(cert, x, time, status) : k \in DOMAIN IdentityStatus
      /\ "status_unavailable" \in Refused(cert, x, time, status) <=> ~ status.usable
      /\ "delegation_revoked" \in Refused(cert, x, time, status) <=>
           status.usable /\ <<name, issue>> \in status.revoked
      /\ "delegation_expired" \in Refused(cert, x, time, status) <=> LapseOf(name, at) <= time
      /\ "constraint_denied" \in Refused(cert, x, time, status) <=>
           ~ ConstraintsAllow(<<cert>>, x)
  BY <1>1, <1>4 DEF Refused
<1>6. /\ DecisionReason("status_unavailable", x, <<cert>>) = "DENY_VERIFIER_UNAVAILABLE"
      /\ DecisionReason("delegation_revoked", x, <<cert>>) = "DENY_REVOKED"
      /\ DecisionReason("delegation_expired", x, <<cert>>) = "DENY_EXPIRED"
      /\ DecisionReason("constraint_denied", x, <<cert>>) = ConstraintReason(x, <<cert>>)
  BY DEF DecisionReason
<1> QED BY <1>2, <1>3, <1>4, <1>5, <1>6 DEF cert, x

\* Every other scenario is answered as required whatever the clock and the list say:
\* it is refused before the delegation counts.
LEMMA OthersAnswered ==
  ASSUME NEW r \in Runtime, NEW s \in Supported[r], s \notin Plain,
         NEW issue, NEW at, NEW time, NEW status
  PROVE  Answers(r, s, issue, at, time, status) = {Required[s]}
<1>1. ScenarioDelegation(Authority(r, s).delegation, issue, at).issuer = TrustedRoot
  BY DelegationFields
<1> DEFINE cert == ScenarioDelegation(Authority(r, s).delegation, issue, at)
           proof == Present(Authority(r, s))
<1>2. /\ proof.agent_id = Authority(r, s).agent_id
      /\ Answers(r, s, issue, at, time, status) =
           IF s = "replay" THEN {Denied("DENY_REPLAY", "proof_carrier", "none")}
           ELSE FirstDispatch(r, s, proof, cert, time, status)
  BY DEF Present, Answers
<1> HIDE DEF cert
<1>3. CASE s = "replay"
  BY <1>2, <1>3 DEF Required
<1>4. CASE s = "altered_operation"
  <2>1. Arguments(s).description = "lighting" /\ Dispatched(s).description = "panel"
    BY <1>4 DEF Arguments, Dispatched
  <2> QED BY <1>2, <1>4, <2>1 DEF Required, FirstDispatch
<1>5. CASE s = "wrong_agent" \/ s = "isolation_borrowed_subject"
  <2>1. Dispatched(s) = Arguments(s)
    BY <1>5 DEF Dispatched
  <2>2. Authority(r, s).agent_id # CallerAgent[r]
    <3>1. CASE s = "wrong_agent" /\ r = "primary"
      <4>1. Authority(r, s).agent_id = "wrong_agent"
        BY <3>1 DEF Authority, Honest
      <4> QED BY <3>1, <4>1, ScenesOf
    <3>2. CASE s = "isolation_borrowed_subject" /\ r = "secondary"
      <4>1. Authority(r, s).agent_id = "agent"
        BY <3>2 DEF Authority, Misheld
      <4> QED BY <3>2, <4>1, ScenesOf
    <3> QED BY <1>5, <3>1, <3>2, ScenesOf DEF Runtime
  <2> HIDE DEF proof
  <2> QED BY <1>2, <1>5, <2>1, <2>2 DEF Required, FirstDispatch
<1>6. ASSUME NEW fault, ProofFaults(proof) = {fault}, Dispatched(s) = Arguments(s),
             Authority(r, s).agent_id = CallerAgent[r], s # "replay",
             fault \in {"invalid_signature", "chain_linkage_mismatch"}
      PROVE  Answers(r, s, issue, at, time, status) =
               {Denied("DENY_VERIFICATION_FAILED", "ratify_verification", fault)}
  <2>1. RejectionReason(fault) = "DENY_VERIFICATION_FAILED"
    BY <1>6 DEF RejectionReason
  <2> HIDE DEF proof
  <2>2. Answers(r, s, issue, at, time, status) = Verified(proof, cert, Arguments(s), time, status)
    BY <1>1, <1>2, <1>6 DEF FirstDispatch, cert
  <2> QED BY <1>6, <2>1, <2>2 DEF Verified
<1>7. CASE s = "copied_certificate"
  <2>1. r = "primary" /\ Dispatched(s) = Arguments(s)
    BY <1>7, ScenesOf DEF Runtime, Dispatched
  <2>2. Authority(r, s) = Misheld("agent", "wrong_agent", "active")
    BY <1>7 DEF Authority
  <2>3. /\ proof.signer = "wrong_agent" /\ proof.declared = "agent"
        /\ proof.subject = "agent" /\ proof.agent_id = "agent"
    BY <2>2 DEF Present, Misheld, Holder
  <2> HIDE DEF proof
  <2>4. ProofFaults(proof) = {"invalid_signature"}
    BY <2>3 DEF ProofFaults
  <2> QED BY <1>2, <1>6, <1>7, <2>1, <2>3, <2>4, ScenesOf DEF Required
<1>8. CASE s = "isolation_borrowed_certificate"
  <2>1. r = "secondary" /\ Dispatched(s) = Arguments(s)
    BY <1>8, ScenesOf DEF Runtime, Dispatched
  <2>2. Authority(r, s) = Misheld("second_agent", "second_agent", "active")
    BY <1>8 DEF Authority
  <2>3. /\ proof.signer = "second_agent" /\ proof.declared = "second_agent"
        /\ proof.subject = "agent" /\ proof.agent_id = "second_agent"
    BY <2>2 DEF Present, Misheld, Holder
  <2> HIDE DEF proof
  <2>4. ProofFaults(proof) = {"chain_linkage_mismatch"}
    BY <2>3 DEF ProofFaults
  <2> QED BY <1>2, <1>6, <1>8, <2>1, <2>3, <2>4, ScenesOf DEF Required
<1> QED BY <1>3, <1>4, <1>5, <1>7, <1>8, ScenesOf DEF Runtime, Plain

\* What is shown beside a decision.
LEMMA ShownFacts ==
  ASSUME NEW r \in Runtime, NEW s \in Supported[r], NEW issue, NEW at
  PROVE  LET f == PublicFacts(r, s, issue, at) IN
         /\ f.requested_amount_minor = Arguments(s).amount_minor
         /\ f.requested_resource = Arguments(s).resource
         /\ f.authorized_max_amount_minor = CeilingOf(Own[r])
         /\ f.delegation_resource = SiteOf(Presented(r, s))
         /\ f.delegation_expires_at = LapseOf(Presented(r, s), at)
<1> DEFINE own == ScenarioDelegation(Own[r], issue, at)
           shown == ScenarioDelegation(ShownDelegation(r, s), issue, at)
<1>1. ShownDelegation(r, s) = Presented(r, s)
  BY ScenesOf DEF ShownDelegation, Authority, Presented, Honest, Misheld, Runtime
<1>2. /\ own.constraints = Bounds(Own[r]) /\ shown.constraints = Bounds(Presented(r, s))
      /\ shown.expires_at = LapseOf(Presented(r, s), at)
  BY <1>1, DelegationFields
<1>3. BoundOf(own, MaxAmount) = Bounds(Own[r])[2]
  BY <1>2, BoundFields, TypesDiffer DEF BoundOf
<1>4. BoundOf(shown, ResourcePath) = Bounds(Presented(r, s))[1]
  BY <1>2, BoundFields, TypesDiffer DEF BoundOf
<1>5. BoundOf(own, MaxAmount).max_amount_micros \div MicrosPerMinor = CeilingOf(Own[r])
  BY <1>3, BoundFields, CeilingInNat, MicrosKeepOrder
<1>6. BoundOf(shown, ResourcePath).resource_id = SiteOf(Presented(r, s))
  BY <1>4, BoundFields
<1> HIDE DEF own, shown
<1> QED BY <1>2, <1>5, <1>6, WorkFields DEF PublicFacts, own, shown

-----------------------------------------------------------------------------
(***************************************************************************)
(* What single scenarios can be answered.                                  *)
(***************************************************************************)
LEMMA AnswerFields ==
  ASSUME NEW decision, NEW reason, NEW layer, NEW status
  PROVE  /\ Answer(decision, reason, layer, status).decision = decision
         /\ Answer(decision, reason, layer, status).reason = reason
         /\ Denied(reason, layer, status).decision = "DENY"
         /\ Denied(reason, layer, status).reason = reason
BY DEF Answer, Denied

LEMMA BoundReasons ==
  ASSUME NEW action, NEW certs
  PROVE  /\ ConstraintReason(action, certs) \notin {"DENY_REVOKED", "DENY_EXPIRED"}
         /\ LocalPolicy(action, certs) \notin {"DENY_REVOKED", "DENY_EXPIRED"}
BY DEF ConstraintReason, Complaint, LocalPolicy

\* The reasons a verification gives for revocation and expiry are what was found.
LEMMA VerifiedReasons ==
  ASSUME NEW proof, NEW cert, NEW action, NEW at, NEW status,
         NEW a \in Verified(proof, cert, action, at, status)
  PROVE  /\ a.reason = "DENY_REVOKED" => status.usable /\ cert.cert_id \in status.revoked
         /\ a.reason = "DENY_EXPIRED" => cert.expires_at <= at
         /\ a.decision = "ALLOW" =>
              /\ ProofFaults(proof) = {}
              /\ Refused(cert, action, at, status) = {}
<1> DEFINE refused == Refused(cert, action, at, status)
           policy  == LocalPolicy(action, <<cert>>)
<1>1. CASE ProofFaults(proof) # {}
  <2>1. PICK f \in ProofFaults(proof) :
          a = Denied(RejectionReason(f), "ratify_verification", f)
    BY <1>1 DEF Verified
  <2>2. RejectionReason(f) = "DENY_VERIFICATION_FAILED"
    BY DEF ProofFaults, RejectionReason
  <2> QED BY <2>1, <2>2, AnswerFields
<1>2. CASE ProofFaults(proof) = {} /\ refused # {}
  <2>1. PICK r \in refused :
          a = Denied(DecisionReason(r, action, <<cert>>), "ratify_verification",
                     IdentityStatus[r])
    BY <1>2 DEF Verified
  <2>2. r \in {"status_unavailable", "delegation_revoked", "delegation_expired",
               "constraint_denied"}
    BY DEF Refused, IdentityStatus
  <2>3. /\ DecisionReason(r, action, <<cert>>) = "DENY_REVOKED" => r = "delegation_revoked"
        /\ DecisionReason(r, action, <<cert>>) = "DENY_EXPIRED" => r = "delegation_expired"
    BY <2>2, BoundReasons DEF DecisionReason
  <2>4. /\ r = "delegation_revoked" => status.usable /\ cert.cert_id \in status.revoked
        /\ r = "delegation_expired" => cert.expires_at <= at
    BY DEF Refused
  <2> QED BY <2>1, <2>3, <2>4, AnswerFields
<1>3. CASE ProofFaults(proof) = {} /\ refused = {}
  <2>1. \/ a = Denied(policy, "receiver_policy", "authorized_agent")
        \/ a = Answer("ALLOW", "ALLOW", "ratify_verification", "authorized_agent")
    BY <1>3 DEF Verified
  <2> QED BY <1>3, <2>1, AnswerFields, BoundReasons
<1> QED BY <1>1, <1>2, <1>3

\* So are those of a run of a scenario, and what is allowed was verified.
LEMMA AnswerReasons ==
  ASSUME NEW r \in Runtime, NEW s, NEW issue, NEW at, NEW time, NEW status,
         NEW a \in Answers(r, s, issue, at, time, status)
  PROVE  LET authority == Authority(r, s)
             cert == ScenarioDelegation(authority.delegation, issue, at)
         IN /\ a.reason = "DENY_REVOKED" =>
                 status.usable /\ cert.cert_id \in status.revoked
            /\ a.reason = "DENY_EXPIRED" => cert.expires_at <= time
            /\ a.decision = "ALLOW" =>
                 /\ s # "replay" /\ Dispatched(s) = Arguments(s)
                 /\ authority.agent_id = CallerAgent[r]
                 /\ ProofFaults(Present(authority)) = {}
                 /\ Refused(cert, Arguments(s), time, status) = {}
<1> DEFINE authority == Authority(r, s)
           proof == Present(authority)
           cert == ScenarioDelegation(authority.delegation, issue, at)
<1> HIDE DEF proof, cert
<1>1. proof.agent_id = authority.agent_id
  BY DEF proof, Present
<1>2. CASE \E reason \in {"DENY_REPLAY", "DENY_OPERATION_MISMATCH"} :
             a = Denied(reason, "proof_carrier", "none")
  BY <1>2, AnswerFields
<1>3. CASE \E reason \in {"DENY_SUBJECT_MISMATCH", "DENY_UNTRUSTED_ISSUER"} :
             a = Denied(reason, "receiver_precheck", "none")
  BY <1>3, AnswerFields
<1>4. CASE /\ a \in Verified(proof, cert, Arguments(s), time, status)
           /\ s # "replay" /\ Dispatched(s) = Arguments(s)
           /\ proof.agent_id = CallerAgent[r]
  BY <1>1, <1>4, VerifiedReasons DEF proof, cert
<1> QED BY <1>2, <1>3, <1>4 DEF Answers, FirstDispatch, proof, cert

-----------------------------------------------------------------------------
(***************************************************************************)
(* The inductive invariant: issues and lists are in order, a list leaves   *)
(* out only what was issued after it, and what passed observers saw is     *)
(* remembered in the journal and in the material.                          *)
(***************************************************************************)
IssuesInOrder ==
  /\ Len(issues) > 0 /\ Len(issues) <= MaxIssues
  /\ \A i \in 1..Len(issues) :
       issues[i] <= now /\ \A j \in i..Len(issues) : issues[i] <= issues[j]

ListsInOrder ==
  /\ Len(lists) > 0
  /\ \A k \in 1..Len(lists) :
       /\ lists[k].updated_at <= now
       /\ \A l \in k..Len(lists) : /\ lists[k].revoked \subseteq lists[l].revoked
                                   /\ lists[k].updated_at <= lists[l].updated_at

IssuesNamed ==
  \A i \in 1..Len(issues) :
    /\ <<"revoked", i>> \in lists[Len(lists)].revoked
    /\ \A k \in 1..Len(lists) :
         <<"revoked", i>> \in lists[k].revoked \/ lists[k].updated_at < issues[i]

Ingested(issue) == journal # 0 /\ <<"revoked", issue>> \in lists[journal].revoked

\* The authority of an issue lasts up to an instant; 0 stands for no promise.
LastsTo(issue, time) ==
  time = 0 \/ (issue \in 1..Len(issues) /\ time <= issues[issue] + Validity)

PassesRemembered ==
  /\ gated # 0 => Ingested(gated)
  /\ \A i \in 1..MaxIssues : LastsTo(i, assured[i])
  /\ observer # NoObserver =>
       /\ observer.at <= Len(Asks[observer.kind])
       /\ observer.ok => /\ observer.refused # 0 => Ingested(observer.refused)
                         /\ LastsTo(observer.seen, observer.until)
       /\ observer.refused \in 0..Len(issues)

DInv == TypeOK /\ IssuesInOrder /\ ListsInOrder /\ IssuesNamed /\ PassesRemembered

LEMMA Facts ==
  /\ Validity \in Nat \ {0} /\ StatusLifetime \in Nat /\ Warn \in Nat
  /\ MaxIssues \in Nat \ {0} /\ "primary" \in Runtime
BY ScenarioAssumption, DeploymentAssumption DEF Runtime

LEMMA AsksKnown ==
  \A kind \in DOMAIN Asks :
    /\ Len(Asks[kind]) \in 1..9
    /\ \A i \in 1..Len(Asks[kind]) :
         /\ Asks[kind][i][1] \in Runtime
         /\ Asks[kind][i][2] \in {"allow", "revoked"} => Asks[kind][i][1] = "primary"
<1>1. /\ DOMAIN Asks = {"live_gate", "isolation_gate", "watch"}
      /\ Asks["live_gate"] =
           << <<"primary", "allow">>, <<"primary", "over_limit">>,
              <<"primary", "wrong_resource">>, <<"primary", "altered_operation">>,
              <<"primary", "expired">>, <<"primary", "revoked">>,
              <<"primary", "replay">>, <<"primary", "wrong_agent">>,
              <<"primary", "copied_certificate">> >>
      /\ Asks["isolation_gate"] =
           << <<"primary", "allow">>, <<"secondary", "isolation_own">>,
              <<"secondary", "isolation_wrong_site">>,
              <<"secondary", "isolation_borrowed_subject">>,
              <<"secondary", "isolation_borrowed_certificate">> >>
      /\ Asks["watch"] = << <<"primary", "allow">>, <<"primary", "revoked">> >>
  BY DEF Asks
<1>2. Len(Asks["live_gate"]) = 9 /\ Len(Asks["isolation_gate"]) = 5
        /\ Len(Asks["watch"]) = 2
  BY <1>1
<1> DEFINE Good(p) == /\ p[1] \in Runtime
                      /\ p[2] \in {"allow", "revoked"} => p[1] = "primary"
<1>3. \A scenario : Good(<<"primary", scenario>>)
  BY DEF Runtime
<1>4. \A scenario : scenario \notin {"allow", "revoked"} => Good(<<"secondary", scenario>>)
  BY DEF Runtime
<1> HIDE DEF Good
<1>5. \A i \in 1..9 : Good(Asks["live_gate"][i])
  BY <1>1, <1>3
<1>6. \A i \in 1..5 : Good(Asks["isolation_gate"][i])
  BY <1>1, <1>3, <1>4
<1>7. \A i \in 1..2 : Good(Asks["watch"][i])
  BY <1>1, <1>3
<1>8. DOMAIN Asks = {"live_gate", "isolation_gate", "watch"}
  BY <1>1
<1>9. SUFFICES ASSUME NEW kind \in DOMAIN Asks
               PROVE  /\ Len(Asks[kind]) \in 1..9
                      /\ \A i \in 1..Len(Asks[kind]) : Good(Asks[kind][i])
  BY DEF Good
<1>10. CASE kind = "live_gate"
  BY <1>2, <1>5, <1>10
<1>11. CASE kind = "isolation_gate"
  BY <1>2, <1>6, <1>11
<1>12. CASE kind = "watch"
  BY <1>2, <1>7, <1>12
<1> QED BY <1>8, <1>10, <1>11, <1>12

LEMMA InitDInv == Init => DInv
<1> SUFFICES ASSUME Init PROVE DInv OBVIOUS
<1> USE Facts DEF Init
<1>0. /\ issues = <<0>> /\ lists = <<FirstList(0)>>
      /\ FirstList(0).revoked = {<<"revoked", 1>>} /\ FirstList(0).updated_at = 0
  BY DEF FirstList
<1>1. /\ issues \in Seq(Nat) /\ Len(issues) = 1 /\ issues[1] = 0
      /\ Len(lists) = 1 /\ lists[1] = FirstList(0)
  BY <1>0
<1>2. FirstList(0) \in StatusList
  BY DeploymentAssumption DEF FirstList, StatusList, DelegationName
<1>3. TypeOK
  BY <1>1, <1>2 DEF TypeOK
<1>4. IssuesInOrder /\ ListsInOrder
  BY <1>0, <1>1 DEF IssuesInOrder, ListsInOrder
<1>5. IssuesNamed
  BY <1>0, <1>1 DEF IssuesNamed
<1>6. PassesRemembered
  BY <1>1 DEF PassesRemembered, LastsTo, Runtime
<1> QED BY <1>3, <1>4, <1>5, <1>6 DEF DInv

-----------------------------------------------------------------------------
(***************************************************************************)
(* Every action keeps the invariant.                                       *)
(***************************************************************************)
\* A list that is published is one more, later and cumulative.
LEMMA PublishKeepsOrder ==
  ASSUME TypeOK, ListsInOrder,
         NEW new \in SUBSET (DelegationName \X (1..MaxIssues)), Publish(new), now' = now
  PROVE  /\ lists' \in Seq(StatusList)
         /\ Len(lists') = Len(lists) + 1
         /\ \A k \in 1..Len(lists) : lists'[k] = lists[k] /\ lists[k].updated_at < now
         /\ lists'[Len(lists) + 1].updated_at = now
         /\ lists'[Len(lists) + 1].revoked = lists[Len(lists)].revoked \cup new
         /\ ListsInOrder'
<1> DEFINE last == Len(lists)
           list == [revoked |-> lists[last].revoked \cup new, updated_at |-> now]
<1>0. /\ last \in Nat \ {0} /\ lists \in Seq(StatusList) /\ now \in Nat
      /\ lists[last].updated_at < now
      /\ lists' = Append(lists, list)
  BY DEF TypeOK, ListsInOrder, Publish
<1>1. \A k \in 1..last :
        /\ lists[k] \in StatusList
        /\ lists[k].updated_at \in Nat
        /\ lists[k].revoked \in SUBSET (DelegationName \X (1..MaxIssues))
  <2>1. \A k \in 1..last : lists[k] \in StatusList
    BY <1>0
  <2>2. \A l \in StatusList :
          /\ l.updated_at \in Nat
          /\ l.revoked \in SUBSET (DelegationName \X (1..MaxIssues))
    BY DEF StatusList
  <2> QED BY <2>1, <2>2
<1>2. list \in StatusList /\ list.updated_at = now
        /\ list.revoked = lists[last].revoked \cup new
  <2>1. lists[last].revoked \cup new \in SUBSET (DelegationName \X (1..MaxIssues))
    BY <1>0, <1>1
  <2> HIDE DEF last
  <2> QED BY <1>0, <2>1 DEF StatusList
<1> HIDE DEF list, last
<1>3. /\ lists' \in Seq(StatusList) /\ Len(lists') = last + 1
      /\ \A k \in 1..last : lists'[k] = lists[k]
      /\ lists'[last + 1] = list
  BY <1>0, <1>2 DEF last
<1>4. \A k \in 1..last : /\ lists[k].updated_at <= lists[last].updated_at
                         /\ lists[k].revoked \subseteq lists[last].revoked
  BY <1>0 DEF ListsInOrder, last
<1>5. \A k \in 1..last : lists[k].updated_at < now /\ lists[k].revoked \subseteq list.revoked
  BY <1>0, <1>1, <1>2, <1>4
<1>6. ASSUME NEW k \in 1..(last + 1)
      PROVE  /\ lists'[k].updated_at <= now
             /\ \A l \in k..(last + 1) : /\ lists'[k].revoked \subseteq lists'[l].revoked
                                         /\ lists'[k].updated_at <= lists'[l].updated_at
  <2>0. last \in Nat /\ k \in Nat /\ (k = last + 1 \/ k \in 1..last)
    BY <1>0
  <2>1. CASE k = last + 1
    BY <1>0, <1>2, <1>3, <2>1
  <2>2. CASE k \in 1..last
    <3>1. lists'[k].updated_at <= now
      BY <1>0, <1>1, <1>3, <1>5, <2>2
    <3>2. ASSUME NEW l \in k..last
          PROVE  /\ lists'[k].revoked \subseteq lists'[l].revoked
                 /\ lists'[k].updated_at <= lists'[l].updated_at
      <4>1. l \in 1..last
        BY <1>0, <2>2
      <4>2. /\ lists[k].revoked \subseteq lists[l].revoked
            /\ lists[k].updated_at <= lists[l].updated_at
        BY <2>2 DEF ListsInOrder, last
      <4> QED BY <1>3, <2>2, <4>1, <4>2
    <3>3. /\ lists'[k].revoked \subseteq lists'[last + 1].revoked
          /\ lists'[k].updated_at <= lists'[last + 1].updated_at
      BY <1>0, <1>1, <1>2, <1>3, <1>5, <2>2
    <3>4. \A l \in k..(last + 1) : l \in k..last \/ l = last + 1
      BY <2>0, <2>2
    <3> QED BY <3>1, <3>2, <3>3, <3>4
  <2> QED BY <2>0, <2>1, <2>2
<1>7. ListsInOrder'
  BY <1>0, <1>3, <1>6 DEF ListsInOrder
<1> QED BY <1>0, <1>2, <1>3, <1>5, <1>7 DEF last

LEMMA TickKeepsDInv == DInv /\ Tick => DInv'
<1> SUFFICES ASSUME DInv, Tick PROVE DInv' OBVIOUS
<1> USE DEF Tick
<1>1. TypeOK' /\ now <= now'
  BY DEF DInv, TypeOK
<1>2. \A i \in 1..Len(issues) : issues[i] \in Nat
  BY DEF DInv, TypeOK
<1>3. IssuesInOrder'
  BY <1>1, <1>2 DEF DInv, TypeOK, IssuesInOrder
<1>4. \A k \in 1..Len(lists) : lists[k].updated_at \in Nat
  <2>1. \A k \in 1..Len(lists) : lists[k] \in StatusList
    BY DEF DInv, TypeOK
  <2> QED BY <2>1 DEF StatusList
<1>5. ListsInOrder'
  BY <1>1, <1>4 DEF DInv, TypeOK, ListsInOrder
<1>6. IssuesNamed' /\ PassesRemembered'
  BY DEF DInv, IssuesNamed, PassesRemembered, Ingested, LastsTo
<1> QED BY <1>1, <1>3, <1>5, <1>6 DEF DInv

\* What passed observers saw stays remembered while issues and lists only grow and
\* nothing else changes.
LEMMA GrowthKeepsPasses ==
  ASSUME TypeOK, IssuesInOrder, PassesRemembered,
         UNCHANGED <<running, journal, observer, gated, assured>>,
         Len(issues) <= Len(issues)',
         \A i \in 1..Len(issues) : issues'[i] = issues[i],
         \A k \in 1..Len(lists) : lists'[k] = lists[k]
  PROVE  PassesRemembered'
<1>1. running["primary"] \in 1..Len(issues) /\ journal \in 0..Len(lists)
        /\ Len(issues) \in Nat /\ Len(issues)' \in Nat
  BY Facts DEF TypeOK
<1>2. /\ \A i \in 1..MaxIssues : LastsTo(i, assured[i])
      /\ observer # NoObserver /\ observer.ok => LastsTo(observer.seen, observer.until)
  BY DEF PassesRemembered
<1>3. \A issue : Ingested(issue) => Ingested(issue)'
  BY <1>1 DEF Ingested
<1>4. (\A i \in 1..MaxIssues : LastsTo(i, assured[i]))'
  BY <1>1, <1>2 DEF LastsTo
<1>5. (observer # NoObserver /\ observer.ok => LastsTo(observer.seen, observer.until))'
  BY <1>1, <1>2 DEF LastsTo
<1> QED BY <1>1, <1>3, <1>4, <1>5 DEF PassesRemembered, Ingested

LEMMA RefreshKeepsDInv == DInv /\ Refresh => DInv'
<1> SUFFICES ASSUME DInv, Refresh PROVE DInv' OBVIOUS
<1> DEFINE n == Len(lists)
<1>1. /\ lists' \in Seq(StatusList) /\ Len(lists') = n + 1 /\ n \in Nat \ {0}
      /\ \A k \in 1..n : lists'[k] = lists[k]
      /\ lists'[n + 1].revoked = lists[n].revoked
      /\ ListsInOrder'
  <2>1. Publish({}) /\ now' = now /\ TypeOK /\ ListsInOrder
    BY DEF Refresh, DInv
  <2>2. \A S : {} \in SUBSET S
    OBVIOUS
  <2>3. n \in Nat \ {0}
    BY DEF DInv, TypeOK, ListsInOrder
  <2>4. /\ lists' \in Seq(StatusList) /\ Len(lists') = n + 1
        /\ \A k \in 1..n : lists'[k] = lists[k]
        /\ lists'[n + 1].revoked = lists[n].revoked \cup {}
        /\ ListsInOrder'
    BY <2>1, <2>2, PublishKeepsOrder
  <2> QED BY <2>3, <2>4
<1>2. TypeOK'
  BY <1>1 DEF DInv, TypeOK, Refresh
<1>3. IssuesInOrder'
  BY DEF DInv, IssuesInOrder, Refresh
<1>4. IssuesNamed'
  <2>1. issues' = issues /\ Len(lists') = n + 1
    BY <1>1 DEF Refresh
  <2>2. ASSUME NEW i \in 1..Len(issues)
        PROVE  /\ <<"revoked", i>> \in lists'[n + 1].revoked
               /\ \A k \in 1..(n + 1) :
                    \/ <<"revoked", i>> \in lists'[k].revoked
                    \/ lists'[k].updated_at < issues[i]
    BY <1>1 DEF DInv, IssuesNamed
  <2> HIDE DEF n
  <2> QED BY <2>1, <2>2 DEF IssuesNamed
<1>5. PassesRemembered'
  BY <1>1, GrowthKeepsPasses DEF Refresh, DInv, TypeOK
<1> QED BY <1>1, <1>2, <1>3, <1>4, <1>5 DEF DInv

LEMMA RenewKeepsDInv == DInv /\ Renew => DInv'
<1> SUFFICES ASSUME DInv, Renew PROVE DInv' OBVIOUS
<1> DEFINE n == Len(lists)
           m == Len(issues)
           new == {<<"revoked", m + 1>>}
<1>1. /\ m \in Nat \ {0} /\ m + 1 \in 1..MaxIssues /\ now \in Nat
      /\ issues \in Seq(Nat) /\ issues' = Append(issues, now)
  BY Facts DEF DInv, TypeOK, IssuesInOrder, Renew
<1>2. /\ issues' \in Seq(Nat) /\ Len(issues') = m + 1
      /\ \A i \in 1..m : issues'[i] = issues[i] /\ issues[i] \in Nat
      /\ issues'[m + 1] = now
  BY <1>1
<1>3. /\ lists' \in Seq(StatusList) /\ Len(lists') = n + 1 /\ n \in Nat \ {0}
      /\ \A k \in 1..n : lists'[k] = lists[k] /\ lists[k].updated_at < now
      /\ lists'[n + 1].revoked = lists[n].revoked \cup new
      /\ ListsInOrder'
  <2>1. Publish(new) /\ now' = now /\ TypeOK /\ ListsInOrder
    BY DEF Renew, DInv
  <2>2. new \in SUBSET (DelegationName \X (1..MaxIssues))
    BY <1>1 DEF DelegationName
  <2>3. n \in Nat \ {0}
    BY DEF DInv, TypeOK, ListsInOrder
  <2> HIDE DEF new
  <2> QED BY <2>1, <2>2, <2>3, PublishKeepsOrder
<1> HIDE DEF n
<1>4. TypeOK'
  <2>1. running' \in [Runtime -> 1..Len(issues')] /\ gated' \in 0..Len(issues')
    BY <1>1, <1>2 DEF Renew, DInv, TypeOK
  <2>2. served' \in 0..Len(lists') /\ journal' \in 0..Len(lists')
    BY <1>3 DEF Renew, DInv, TypeOK, n
  <2> QED BY <1>2, <1>3, <2>1, <2>2 DEF Renew, DInv, TypeOK
<1>5. IssuesInOrder'
  <2>1. \A i \in 1..m : issues[i] <= now /\ \A j \in i..m : issues[i] <= issues[j]
    BY DEF DInv, IssuesInOrder
  <2> HIDE DEF m
  <2>2. ASSUME NEW i \in 1..(m + 1)
        PROVE  /\ issues'[i] <= now
               /\ \A j \in i..(m + 1) : issues'[i] <= issues'[j]
    <3>1. \A j \in i..(m + 1) : j \in i..m \/ j = m + 1
      BY <1>1
    <3>2. CASE i = m + 1
      BY <1>1, <1>2, <3>2
    <3>3. CASE i \in 1..m
      <4>1. \A j \in i..m : j \in 1..m
        BY <3>3
      <4> QED BY <1>1, <1>2, <2>1, <3>1, <3>3, <4>1
    <3>4. i = m + 1 \/ i \in 1..m
      BY <1>1
    <3> QED BY <3>2, <3>3, <3>4
  <2>3. now' = now /\ Len(issues') > 0 /\ Len(issues') <= MaxIssues
    BY <1>1, <1>2, Facts DEF Renew
  <2> QED BY <1>2, <2>2, <2>3 DEF IssuesInOrder
<1>6. IssuesNamed'
  <2>1. \A i \in 1..m :
          /\ <<"revoked", i>> \in lists[n].revoked
          /\ \A k \in 1..n :
               <<"revoked", i>> \in lists[k].revoked \/ lists[k].updated_at < issues[i]
    BY DEF DInv, IssuesNamed, n
  <2> HIDE DEF m
  <2>2. ASSUME NEW i \in 1..(m + 1)
        PROVE  <<"revoked", i>> \in lists'[n + 1].revoked
    BY <1>1, <1>3, <2>1
  <2>3. ASSUME NEW i \in 1..(m + 1), NEW k \in 1..(n + 1)
        PROVE  <<"revoked", i>> \in lists'[k].revoked \/ lists'[k].updated_at < issues'[i]
    <3>1. CASE k = n + 1
      BY <2>2, <3>1
    <3>2. CASE k \in 1..n /\ i \in 1..m
      BY <1>2, <1>3, <2>1, <3>2
    <3>3. CASE k \in 1..n /\ i = m + 1
      BY <1>2, <1>3, <3>3
    <3>4. (k = n + 1 \/ k \in 1..n) /\ (i = m + 1 \/ i \in 1..m)
      BY <1>1, <1>3
    <3> QED BY <3>1, <3>2, <3>3, <3>4
  <2> QED BY <1>2, <1>3, <2>2, <2>3 DEF IssuesNamed
<1>7. PassesRemembered'
  BY <1>1, <1>2, <1>3, GrowthKeepsPasses DEF Renew, DInv, n
<1> QED BY <1>3, <1>4, <1>5, <1>6, <1>7 DEF DInv

LEMMA InstallKeepsDInv ==
  ASSUME DInv, NEW r \in Runtime, NEW issue \in 1..Len(issues), Install(r, issue)
  PROVE  DInv'
<1>1. /\ running' = [running EXCEPT ![r] = issue]
      /\ UNCHANGED <<now, issues, lists, served, journal, observer, gated, assured>>
  BY DEF Install
<1>2. TypeOK'
  BY <1>1 DEF DInv, TypeOK
<1>3. IssuesInOrder' /\ ListsInOrder' /\ IssuesNamed'
  BY <1>1 DEF DInv, IssuesInOrder, ListsInOrder, IssuesNamed
<1>4. PassesRemembered'
  BY <1>1 DEF DInv, PassesRemembered, Ingested, LastsTo
<1> QED BY <1>2, <1>3, <1>4 DEF DInv

LEMMA WriteListKeepsDInv ==
  ASSUME DInv, NEW list \in 0..Len(lists), WriteList(list)
  PROVE  DInv'
BY DEF WriteList, DInv, TypeOK, IssuesInOrder, ListsInOrder, IssuesNamed,
       PassesRemembered, Ingested, LastsTo

LEMMA RestartKeepsDInv == DInv /\ RestartReceiver => DInv'
<1> SUFFICES ASSUME DInv, RestartReceiver PROVE DInv' OBVIOUS
<1> USE DEF RestartReceiver
<1>1. observer' \in Observer \cup {NoObserver}
  BY DEF DInv, TypeOK, Observer
<1>2. TypeOK'
  BY <1>1 DEF DInv, TypeOK
<1>3. IssuesInOrder' /\ ListsInOrder' /\ IssuesNamed'
  BY DEF DInv, IssuesInOrder, ListsInOrder, IssuesNamed
<1>4. observer' # NoObserver =>
        /\ observer # NoObserver /\ observer'.kind = observer.kind
        /\ observer'.at = observer.at /\ observer'.ok = observer.ok
        /\ observer'.until = observer.until /\ observer'.seen = observer.seen
        /\ observer'.refused = 0
  BY DEF DInv, TypeOK, Observer
<1>5. PassesRemembered'
  BY <1>2, <1>4 DEF DInv, TypeOK, PassesRemembered, LastsTo
<1> QED BY <1>2, <1>3, <1>5 DEF DInv

\* A verification that ingests the list keeps what was ingested before.
LEMMA JournalKeepsIngested ==
  ASSUME DInv, lists' = lists, journal' = journal \/ (Usable(served) /\ journal' = served),
         NEW issue, Ingested(issue)
  PROVE  Ingested(issue)'
<1>1. /\ journal \in 1..Len(lists) /\ served \in 0..Len(lists)
      /\ <<"revoked", issue>> \in lists[journal].revoked
  BY DEF DInv, TypeOK, Ingested
<1>2. CASE journal' = journal
  BY <1>2 DEF Ingested
<1>3. CASE Usable(served) /\ journal' = served
  <2>1. served \in journal..Len(lists) /\ served # 0
    BY <1>1, <1>3 DEF Usable
  <2>2. lists[journal].revoked \subseteq lists[served].revoked
    BY <1>1, <2>1 DEF DInv, ListsInOrder
  <2> QED BY <1>1, <1>3, <2>1, <2>2 DEF Ingested
<1> QED BY <1>2, <1>3

LEMMA VisitKeepsDInv == DInv /\ Visit => DInv'
<1> SUFFICES ASSUME DInv, Visit PROVE DInv' OBVIOUS
<1> USE DEF Visit
<1>1. TypeOK' /\ IssuesInOrder' /\ ListsInOrder' /\ IssuesNamed'
  BY DEF DInv, TypeOK, IssuesInOrder, ListsInOrder, IssuesNamed
<1>2. \A issue : Ingested(issue) => Ingested(issue)'
  BY JournalKeepsIngested
<1>3. PassesRemembered'
  BY <1>2 DEF DInv, PassesRemembered, LastsTo, Ingested
<1> QED BY <1>1, <1>3 DEF DInv

LEMMA LaunchKeepsDInv ==
  ASSUME DInv, NEW kind \in DOMAIN Asks, Launch(kind)
  PROVE  DInv'
<1> DEFINE new == [kind |-> kind, at |-> 1, tries |-> 0, ok |-> TRUE, refused |-> 0,
                   until |-> 0, seen |-> 0]
<1>1. /\ observer' = new /\ new \in Observer
      /\ UNCHANGED <<now, issues, lists, running, served, journal, gated, assured>>
  BY DEF Launch, Observer
<1>2. TypeOK' /\ IssuesInOrder' /\ ListsInOrder' /\ IssuesNamed'
  BY <1>1 DEF DInv, TypeOK, IssuesInOrder, ListsInOrder, IssuesNamed
<1>3. new.at <= Len(Asks[new.kind]) /\ new.refused = 0 /\ new.until = 0
  <2>1. Len(Asks[kind]) \in 1..9
    BY AsksKnown
  <2>2. new.kind = kind /\ new.at = 1 /\ new.refused = 0 /\ new.until = 0
    OBVIOUS
  <2>3. Asks[new.kind] = Asks[kind]
    BY <2>2
  <2> DEFINE n == Len(Asks[kind])
  <2>4. n \in 1..9
    BY <2>1
  <2> HIDE DEF n
  <2>5. 1 <= n
    BY <2>4
  <2> QED BY <2>2, <2>3, <2>5 DEF n
<1>4. LastsTo(new.seen, new.until)'
  BY DEF LastsTo
<1>5. Len(issues) \in Nat
  BY DEF DInv, TypeOK
<1> HIDE DEF new
<1>6. PassesRemembered'
  BY <1>1, <1>3, <1>4, <1>5 DEF DInv, PassesRemembered, LastsTo, Ingested
<1> QED BY <1>2, <1>6 DEF DInv

LEMMA IngestMoves ==
  ASSUME NEW runtime, NEW scenario, Ingest(runtime, scenario)
  PROVE  journal' = journal \/ (Usable(served) /\ journal' = served)
BY DEF Ingest

LEMMA StallKeepsDInv == DInv /\ (Stall \/ Error) => DInv'
<1> SUFFICES ASSUME DInv, Stall \/ Error PROVE DInv' OBVIOUS
<1>1. /\ UNCHANGED <<now, issues, lists, running, served, gated, assured>>
      /\ journal' = journal \/ (Usable(served) /\ journal' = served)
      /\ observer # NoObserver
      /\ observer' \in {NoObserver, [observer EXCEPT !.tries = @ + 1]}
  BY IngestMoves DEF Stall, Error
<1>2. TypeOK'
  <2>1. observer \in Observer
    BY <1>1 DEF DInv, TypeOK
  <2>2. [observer EXCEPT !.tries = @ + 1] \in Observer
    BY <2>1 DEF Observer
  <2> QED BY <1>1, <2>2 DEF DInv, TypeOK
<1>3. IssuesInOrder' /\ ListsInOrder' /\ IssuesNamed'
  BY <1>1 DEF DInv, IssuesInOrder, ListsInOrder, IssuesNamed
<1>4. \A issue : Ingested(issue) => Ingested(issue)'
  BY <1>1, JournalKeepsIngested
<1>5. observer' # NoObserver =>
        /\ observer'.kind = observer.kind /\ observer'.at = observer.at
        /\ observer'.ok = observer.ok /\ observer'.until = observer.until
        /\ observer'.refused = observer.refused /\ observer'.seen = observer.seen
  BY <1>1 DEF DInv, TypeOK, Observer
<1>6. PassesRemembered'
  BY <1>1, <1>4, <1>5 DEF DInv, PassesRemembered, LastsTo, Ingested
<1> QED BY <1>2, <1>3, <1>6 DEF DInv

-----------------------------------------------------------------------------
(***************************************************************************)
(* One comparison: what an answer that passes tells.                       *)
(***************************************************************************)
LEMMA RevokedPresents ==
  /\ Authority("primary", "revoked") = Honest("agent", "revoked")
  /\ ReachesVerification("primary", "revoked")
  /\ ProofFaults(Present(Authority("primary", "revoked"))) = {}
  /\ Required["revoked"].reason = "DENY_REVOKED"
<1>1. Authority("primary", "revoked") = Honest("agent", "revoked")
  BY DEF Authority
<1>2. Dispatched("revoked") = Arguments("revoked")
  BY DEF Dispatched
<1>3. ReachesVerification("primary", "revoked")
  BY <1>1, <1>2 DEF ReachesVerification, Honest, CallerAgent
<1>4. LET proof == Present(Honest("agent", "revoked"))
      IN proof.signer = proof.declared /\ proof.subject = proof.agent_id
  BY DEF Present, Honest, Holder
<1>5. Required["revoked"].reason = "DENY_REVOKED"
  BY DEF Required, Denied, Answer
<1> QED BY <1>1, <1>3, <1>4, <1>5 DEF ProofFaults

\* The revoked scenario seen refused as revoked: the list it was refused by is
\* ingested and names the issue it was asked of.
LEMMA RevokedIsIngested ==
  ASSUME DInv, UNCHANGED <<lists, running>>, Ingest("primary", "revoked"),
         NEW a \in AnswersNow("primary", "revoked"), a.reason = "DENY_REVOKED"
  PROVE  Ingested(running["primary"])'
<1> DEFINE i == running["primary"]
           cert == ScenarioDelegation("revoked", i, issues[i])
<1>1. Status.usable /\ <<"revoked", i>> \in Status.revoked
  <2>1. a.reason = "DENY_REVOKED" =>
          LET c == ScenarioDelegation(Authority("primary", "revoked").delegation, i, issues[i])
          IN Status.usable /\ c.cert_id \in Status.revoked
    BY AnswerReasons, Facts DEF AnswersNow
  <2>2. Authority("primary", "revoked").delegation = "revoked"
    BY RevokedPresents DEF Honest
  <2>3. cert.cert_id = <<"revoked", i>>
    BY DEF ScenarioDelegation, BoundedDelegation
  <2> QED BY <2>1, <2>2, <2>3
<1>2. Usable(served) /\ served # 0 /\ <<"revoked", i>> \in lists[served].revoked
  BY <1>1 DEF Status, Usable
<1>3. journal' = served
  BY <1>2, RevokedPresents DEF Ingest
<1> QED BY <1>2, <1>3 DEF Ingested

\* The allow scenario found with the watch's margin left.
LEMMA MarginIsLeft ==
  ASSUME TypeOK, NEW a, observer # NoObserver, observer.kind = "watch",
         Asked = <<"primary", "allow">>, Passes(a)
  PROVE  LastsTo(running["primary"], now + Warn)
<1> DEFINE i == running["primary"]
<1>1. ShownExpiry - now >= Warn
  <2>1. Asked[2] = "allow"
    OBVIOUS
  <2> QED BY <2>1 DEF Passes
<1>2. ShownExpiry = issues[i] + Validity
  <2>1. Authority("primary", "allow") = Honest("agent", "active")
    BY DEF Authority, CallerAgent, Own
  <2>2. ShownDelegation("primary", "allow") = "active"
    BY <2>1 DEF ShownDelegation, Honest
  <2>3. ScenarioDelegation("active", i, issues[i]).expires_at = issues[i] + Validity
    BY DEF ScenarioDelegation, BoundedDelegation
  <2>4. PublicFacts("primary", "allow", i, issues[i]).delegation_expires_at
          = issues[i] + Validity
    BY <2>2, <2>3 DEF PublicFacts
  <2>5. Asked[1] = "primary" /\ Asked[2] = "allow"
    OBVIOUS
  <2> QED BY <2>4, <2>5 DEF ShownExpiry
<1>3. issues[i] \in Nat /\ now \in Nat /\ i \in 1..Len(issues)
  BY Facts DEF TypeOK
<1> QED BY <1>1, <1>2, <1>3, Facts DEF LastsTo

LEMMA CompareKeepsDInv == DInv /\ Compare => DInv'
<1> SUFFICES ASSUME DInv, Compare PROVE DInv' OBVIOUS
<1>1. /\ observer # NoObserver /\ observer \in Observer
      /\ UNCHANGED <<now, issues, lists, running, served>>
      /\ Ingest(Asked[1], Asked[2])
  BY DEF Compare, DInv, TypeOK
<1>2. PICK a \in AnswersNow(Asked[1], Asked[2]) :
        LET heard == Heard(a) IN
        IF observer.at < Len(Asks[observer.kind])
        THEN /\ observer' = [heard EXCEPT !.at = @ + 1]
             /\ UNCHANGED <<gated, assured>>
        ELSE /\ observer' = NoObserver
             /\ gated' = IF heard.ok /\ heard.refused # 0 THEN heard.refused ELSE gated
             /\ assured' = [i \in 1..MaxIssues |->
                              IF heard.ok /\ heard.seen = i /\ heard.until > assured[i]
                              THEN heard.until ELSE assured[i]]
  BY DEF Compare
<1> DEFINE heard == Heard(a)
           IngestedNow(issue) == journal' # 0 /\ <<"revoked", issue>> \in lists'[journal'].revoked
<1>3. /\ observer.kind \in DOMAIN Asks /\ observer.at \in 1..Len(Asks[observer.kind])
      /\ Len(Asks[observer.kind]) \in 1..9
      /\ Asked[2] \in {"allow", "revoked"} => Asked[1] = "primary"
  <2>1. observer.kind \in DOMAIN Asks /\ observer.at \in 1..9
    BY <1>1 DEF Observer
  <2>2. observer.at <= Len(Asks[observer.kind])
    BY <1>1 DEF DInv, PassesRemembered
  <2>3. Len(Asks[observer.kind]) \in 1..9
    BY <2>1, AsksKnown
  <2>4. observer.at \in 1..Len(Asks[observer.kind])
    BY <2>1, <2>2, <2>3
  <2> QED BY <2>1, <2>3, <2>4, AsksKnown DEF Asked
<1>4. /\ heard.kind = observer.kind /\ heard.at = observer.at
      /\ heard.ok \in BOOLEAN /\ heard.ok => observer.ok /\ Passes(a)
      /\ heard.refused = IF Asked[2] = "revoked" THEN running["primary"] ELSE observer.refused
      /\ heard.until = IF FindsMargin THEN now + Warn ELSE observer.until
      /\ heard.seen = IF FindsMargin THEN running["primary"] ELSE observer.seen
      /\ heard \in Observer
      /\ heard.refused \in 0..Len(issues)
  <2>1. Passes(a) \in BOOLEAN
    BY DEF Passes
  <2>2. running["primary"] \in 1..Len(issues) /\ now + Warn \in Nat /\ Len(issues) \in Nat
    BY Facts DEF DInv, TypeOK
  <2>3. observer.refused \in 0..Len(issues)
    BY <1>1 DEF DInv, PassesRemembered
  <2>4. heard = [observer EXCEPT
                   !.tries = 0, !.ok = @ /\ Passes(a),
                   !.refused = IF Asked[2] = "revoked" THEN running["primary"] ELSE @,
                   !.until = IF FindsMargin THEN now + Warn ELSE @,
                   !.seen = IF FindsMargin THEN running["primary"] ELSE @]
    BY DEF Heard
  <2> HIDE DEF Passes, heard, Asked, FindsMargin
  <2>5. /\ heard.kind = observer.kind /\ heard.at = observer.at /\ heard.tries = 0
        /\ heard.ok = (observer.ok /\ Passes(a))
        /\ heard.refused = IF Asked[2] = "revoked" THEN running["primary"] ELSE observer.refused
        /\ heard.until = IF FindsMargin THEN now + Warn ELSE observer.until
        /\ heard.seen = IF FindsMargin THEN running["primary"] ELSE observer.seen
    BY <1>1, <2>4 DEF Observer
  <2>6. heard \in Observer
    <3>1. \A p \in BOOLEAN, q \in Nat, u \in Nat, v \in Nat :
            [observer EXCEPT !.tries = 0, !.ok = p, !.refused = q, !.until = u,
                             !.seen = v] \in Observer
      BY <1>1 DEF Observer
    <3>2. heard = [observer EXCEPT !.tries = 0, !.ok = heard.ok, !.refused = heard.refused,
                                   !.until = heard.until, !.seen = heard.seen]
      BY <2>4, <2>5
    <3>3. /\ heard.ok \in BOOLEAN /\ heard.refused \in Nat
          /\ heard.until \in Nat /\ heard.seen \in Nat
      <4>1. /\ observer.ok \in BOOLEAN /\ observer.until \in Nat /\ observer.seen \in Nat
            /\ running["primary"] \in Nat /\ observer.refused \in Nat
        BY <1>1, <2>2 DEF Observer
      <4>2. heard.ok \in BOOLEAN
        BY <2>5
      <4> QED BY <2>2, <2>5, <4>1, <4>2
    <3>4. [observer EXCEPT !.tries = 0, !.ok = heard.ok, !.refused = heard.refused,
                           !.until = heard.until, !.seen = heard.seen] \in Observer
      BY <3>1, <3>3, Zenon
    <3> QED BY <3>2, <3>4, Zenon
  <2>7. heard.refused \in 0..Len(issues)
    BY <2>2, <2>3, <2>5
  <2>8. observer.ok \in BOOLEAN
    BY <1>1 DEF Observer
  <2> QED BY <2>1, <2>5, <2>6, <2>7, <2>8
<1>5. \A issue : Ingested(issue) => IngestedNow(issue)
  <2>1. \A issue : Ingested(issue) => Ingested(issue)'
    BY <1>1, IngestMoves, JournalKeepsIngested
  <2> QED BY <2>1 DEF Ingested
<1>6. heard.ok /\ heard.refused # 0 => IngestedNow(heard.refused)
  <2> SUFFICES ASSUME heard.ok, heard.refused # 0 PROVE IngestedNow(heard.refused) OBVIOUS
  <2>1. CASE Asked[2] = "revoked"
    <3>1. Asked[1] = "primary" /\ Passes(a)
      BY <1>3, <1>4, <2>1
    <3>2. a.reason = "DENY_REVOKED"
      BY <2>1, <3>1, RevokedPresents DEF Passes
    <3>3. a \in AnswersNow("primary", "revoked") /\ Ingest("primary", "revoked")
      BY <1>1, <1>2, <2>1, <3>1
    <3>4. Ingested(running["primary"])'
      BY <1>1, <3>2, <3>3, RevokedIsIngested
    <3>5. IngestedNow(running["primary"])
      BY <1>1, <3>4 DEF Ingested
    <3> HIDE DEF IngestedNow, heard
    <3> QED BY <1>4, <2>1, <3>5
  <2>2. CASE Asked[2] # "revoked"
    <3>1. heard.refused = observer.refused /\ observer.ok
      BY <1>4, <2>2
    <3> HIDE DEF IngestedNow, heard
    <3> QED BY <1>1, <1>5, <3>1 DEF DInv, PassesRemembered
  <2> QED BY <2>1, <2>2
<1>7. heard.ok => LastsTo(heard.seen, heard.until)
  <2> SUFFICES ASSUME heard.ok PROVE LastsTo(heard.seen, heard.until) OBVIOUS
  <2>1. CASE FindsMargin
    <3>1. Asked = <<"primary", "allow">> /\ observer.kind = "watch"
      BY <1>3, <2>1 DEF FindsMargin, Asked, Asks
    <3>2. LastsTo(running["primary"], now + Warn)
      BY <1>1, <1>4, <3>1, MarginIsLeft DEF DInv
    <3> QED BY <1>4, <2>1, <3>2
  <2>2. CASE ~ FindsMargin
    <3>1. heard.until = observer.until /\ heard.seen = observer.seen /\ observer.ok
      BY <1>4, <2>2
    <3> QED BY <1>1, <3>1 DEF DInv, PassesRemembered
  <2> QED BY <2>1, <2>2
<1> HIDE DEF heard
<1>8. CASE observer.at < Len(Asks[observer.kind])
  <2>1. observer' = [heard EXCEPT !.at = @ + 1] /\ UNCHANGED <<gated, assured>>
    BY <1>2, <1>8 DEF heard
  <2>2. /\ observer' \in Observer /\ observer'.kind = observer.kind
        /\ observer'.at = observer.at + 1 /\ observer'.ok = heard.ok
        /\ observer'.refused = heard.refused /\ observer'.until = heard.until
        /\ observer'.seen = heard.seen
    <3> DEFINE n == Len(Asks[observer.kind])
    <3>0. observer.at \in 1..n /\ n \in 1..9 /\ observer.at < n
      BY <1>3, <1>8
    <3> HIDE DEF n
    <3>1. observer.at + 1 \in 1..9
      BY <3>0
    <3> QED BY <1>4, <2>1, <3>1 DEF Observer
  <2>3. TypeOK'
    BY <1>1, <2>1, <2>2, IngestMoves DEF DInv, TypeOK
  <2>4. PassesRemembered'
    <3>1. observer'.at <= Len(Asks[observer'.kind])
      BY <1>3, <1>8, <2>2
    <3>2. (observer.ok /\ observer.refused # 0 => Ingested(observer.refused))'
      BY <1>6, <2>2 DEF Ingested
    <3>3. (observer.ok => LastsTo(observer.seen, observer.until))'
      BY <1>1, <1>7, <2>2 DEF LastsTo
    <3>4. /\ (gated # 0 => Ingested(gated))'
          /\ (\A i \in 1..MaxIssues : LastsTo(i, assured[i]))'
      BY <1>1, <1>5, <2>1 DEF DInv, PassesRemembered, Ingested, LastsTo
    <3> QED BY <1>1, <1>4, <2>2, <3>1, <3>2, <3>3, <3>4 DEF PassesRemembered
  <2> QED BY <1>1, <2>3, <2>4 DEF DInv, IssuesInOrder, ListsInOrder, IssuesNamed
<1>9. CASE ~ (observer.at < Len(Asks[observer.kind]))
  <2>1. /\ observer' = NoObserver
        /\ gated' = IF heard.ok /\ heard.refused # 0 THEN heard.refused ELSE gated
        /\ assured' = [i \in 1..MaxIssues |->
                              IF heard.ok /\ heard.seen = i /\ heard.until > assured[i]
                              THEN heard.until ELSE assured[i]]
    BY <1>2, <1>9 DEF heard
  <2>2. assured' \in [1..MaxIssues -> Nat]
    <3>1. heard.until \in Nat /\ assured \in [1..MaxIssues -> Nat]
      BY <1>4 DEF Observer, DInv, TypeOK
    <3> QED BY <2>1, <3>1
  <2>3. TypeOK'
    BY <1>1, <1>4, <2>1, <2>2, IngestMoves DEF DInv, TypeOK
  <2>4. (gated # 0 => Ingested(gated))'
    BY <1>5, <1>6, <2>1 DEF DInv, PassesRemembered, Ingested
  <2>5. (\A i \in 1..MaxIssues : LastsTo(i, assured[i]))'
    BY <1>1, <1>7, <2>1 DEF DInv, PassesRemembered, LastsTo
  <2>6. PassesRemembered'
    BY <2>1, <2>4, <2>5 DEF PassesRemembered
  <2> QED BY <1>1, <2>3, <2>6 DEF DInv, IssuesInOrder, ListsInOrder, IssuesNamed
<1> QED BY <1>8, <1>9

LEMMA DInvInductive == DInv /\ [Next]_vars => DInv'
<1> SUFFICES ASSUME DInv, [Next]_vars PROVE DInv' OBVIOUS
<1>1. CASE UNCHANGED vars
  BY <1>1 DEF vars, DInv, TypeOK, IssuesInOrder, ListsInOrder, IssuesNamed,
              PassesRemembered, Ingested, LastsTo
<1>2. CASE Operate
  BY <1>2, TickKeepsDInv, RenewKeepsDInv, RefreshKeepsDInv, RestartKeepsDInv,
     InstallKeepsDInv, WriteListKeepsDInv DEF Operate
<1>3. CASE Visit \/ \E kind \in DOMAIN Asks : Launch(kind)
  BY <1>3, VisitKeepsDInv, LaunchKeepsDInv
<1>4. CASE Observe
  BY <1>4, StallKeepsDInv, CompareKeepsDInv DEF Observe
<1> QED BY <1>1, <1>2, <1>3, <1>4 DEF Next

\* The inductive invariant holds, for any validities, lifetimes, margins and numbers
\* of issues and lists.
THEOREM DInvCorrect == Spec => []DInv
BY InitDInv, DInvInductive, PTL DEF Spec

-----------------------------------------------------------------------------
(***************************************************************************)
(* What a passed gate and a passed watch promise.                          *)
(***************************************************************************)
LEMMA AnswerDecisions ==
  ASSUME NEW r, NEW s, NEW issue, NEW at, NEW time, NEW status,
         NEW a \in Answers(r, s, issue, at, time, status)
  PROVE  a.decision \in {"ALLOW", "DENY"}
<1> DEFINE authority == Authority(r, s)
           proof == Present(authority)
           cert == ScenarioDelegation(authority.delegation, issue, at)
<1>1. \A p, q, x, y, z :
        \A v \in Verified(p, q, x, y, z) : v.decision \in {"ALLOW", "DENY"}
  <2>1. SUFFICES ASSUME NEW p, NEW q, NEW x, NEW y, NEW z, NEW v \in Verified(p, q, x, y, z)
                 PROVE  v.decision \in {"ALLOW", "DENY"}
    OBVIOUS
  <2>2. \/ \E reason, layer, status2 : v = Denied(reason, layer, status2)
        \/ v = Answer("ALLOW", "ALLOW", "ratify_verification", "authorized_agent")
    BY <2>1 DEF Verified
  <2> QED BY <2>2, AnswerFields
<1>2. \/ \E reason, layer, status2 : a = Denied(reason, layer, status2)
      \/ a \in Verified(proof, cert, Arguments(s), time, status)
  <2> HIDE DEF proof, cert
  <2> QED BY DEF Answers, FirstDispatch, proof, cert
<1> QED BY <1>1, <1>2, AnswerFields

\* "The live gates catch the silent case": in every reachable state, the receiver
\* process that answered a passed gate or watch denies the revoked fixture it was
\* asked about, whatever list is on the volume (GatedIssueStaysDenied).
THEOREM GatesStayTrue == Spec => []GatedIssueStaysDenied
<1>1. DInv => GatedIssueStaysDenied
  <2> SUFFICES ASSUME DInv, gated = running["primary"],
                      NEW a \in AnswersNow("primary", "revoked")
               PROVE  a.decision = "DENY"
    BY DEF GatedIssueStaysDenied
  <2> DEFINE i == running["primary"]
             cert == ScenarioDelegation("revoked", i, issues[i])
  <2>1. i \in 1..Len(issues) /\ Ingested(i)
    BY Facts DEF DInv, TypeOK, PassesRemembered
  <2>2. a.decision = "ALLOW" => Refused(cert, Arguments("revoked"), now, Status) = {}
    <3>1. Authority("primary", "revoked").delegation = "revoked"
      BY RevokedPresents DEF Honest
    <3> QED BY <3>1, AnswerReasons, Facts DEF AnswersNow
  <2>3. cert.cert_id = <<"revoked", i>>
    BY DEF ScenarioDelegation, BoundedDelegation
  <2>4. ASSUME Refused(cert, Arguments("revoked"), now, Status) = {} PROVE FALSE
    <3>1. Status.usable /\ <<"revoked", i>> \notin Status.revoked
      BY <2>3, <2>4 DEF Refused, IdentityStatus
    <3>2. Usable(served) /\ <<"revoked", i>> \notin lists[served].revoked
      BY <3>1 DEF Status, Usable
    <3>3. journal \in 1..Len(lists) /\ served \in journal..Len(lists)
      BY <2>1, <3>2 DEF DInv, TypeOK, Ingested, Usable
    <3>4. lists[journal].revoked \subseteq lists[served].revoked
      BY <3>3 DEF DInv, ListsInOrder
    <3> QED BY <2>1, <3>2, <3>4 DEF Ingested
  <2>5. a.decision \in {"ALLOW", "DENY"}
    BY AnswerDecisions DEF AnswersNow
  <2> QED BY <2>2, <2>4, <2>5
<1> QED BY <1>1, DInvCorrect, PTL

\* The watch "fails while there is still time to rotate": after one passed, the
\* primary is not told that its authority has expired before the margin is over,
\* whatever is renewed, rotated back and forth or restarted since, as long as it holds
\* the issue the watch was answered from or a later one (WatchedAuthorityLasts).
THEOREM WatchesStayTrue == Spec => []WatchedAuthorityLasts
<1>1. DInv => WatchedAuthorityLasts
  <2> SUFFICES ASSUME DInv, NEW a \in AnswersNow("primary", "allow"),
                      a.reason = "DENY_EXPIRED", NEW w \in 1..running["primary"]
               PROVE  now >= assured[w]
    BY DEF WatchedAuthorityLasts
  <2> DEFINE i == running["primary"]
             cert == ScenarioDelegation("active", i, issues[i])
  <2>1. cert.expires_at <= now
    <3>1. Authority("primary", "allow").delegation = "active"
      BY DEF Authority, CallerAgent, Own, Honest
    <3> QED BY <3>1, AnswerReasons, Facts DEF AnswersNow
  <2>2. cert.expires_at = issues[i] + Validity
    BY DEF ScenarioDelegation, BoundedDelegation
  <2>3. /\ i \in 1..Len(issues) /\ Len(issues) <= MaxIssues
        /\ w \in 1..Len(issues) /\ w \in 1..MaxIssues /\ i \in w..Len(issues)
        /\ issues[i] \in Nat /\ issues[w] \in Nat /\ now \in Nat
        /\ assured[w] \in Nat
    <3>1. i \in 1..Len(issues) /\ now \in Nat /\ Len(issues) \in Nat
      BY Facts DEF DInv, TypeOK
    <3>2. Len(issues) <= MaxIssues
      BY DEF DInv, IssuesInOrder
    <3>3. w \in 1..Len(issues) /\ w \in 1..MaxIssues /\ i \in w..Len(issues)
      BY <3>1, <3>2, Facts
    <3>4. issues[i] \in Nat /\ issues[w] \in Nat
      BY <3>1, <3>3 DEF DInv, TypeOK
    <3>5. assured[w] \in Nat
      BY <3>3 DEF DInv, TypeOK
    <3> QED BY <3>1, <3>2, <3>3, <3>4, <3>5
  <2>4. assured[w] = 0 \/ assured[w] <= issues[w] + Validity
    BY <2>3 DEF DInv, PassesRemembered, LastsTo
  <2>5. issues[w] <= issues[i]
    BY <2>3 DEF DInv, IssuesInOrder
  <2> QED BY <2>1, <2>2, <2>3, <2>4, <2>5, Facts
<1> QED BY <1>1, DInvCorrect, PTL

-----------------------------------------------------------------------------
(***************************************************************************)
(* Which scenarios can be allowed at all.                                  *)
(***************************************************************************)
LEMMA OnlyTheseAreAllowed ==
  ASSUME NEW r \in Runtime, NEW s \in Supported[r], NEW issue, NEW at \in Nat,
         NEW time \in Nat, at <= time, NEW status,
         NEW a \in Answers(r, s, issue, at, time, status), a.decision = "ALLOW"
  PROVE  \/ Required[s].decision = "ALLOW"
         \/ s = "revoked" /\ status.usable /\ <<"revoked", issue>> \notin status.revoked
<1> DEFINE name == Presented(r, s)
           refused == Refused(ScenarioDelegation(name, issue, at), Arguments(s), time, status)
<1>1. CASE s \notin Plain
  BY <1>1, OthersAnswered
<1>2. CASE s \in Plain
  <2>1. refused = {}
    <3>1. \A reason, layer, identity : a # Denied(reason, layer, identity)
      BY AnswerFields
    <3>2. Answers(r, s, issue, at, time, status) =
            IF refused # {}
            THEN {Denied(DecisionReason(x, Arguments(s), <<ScenarioDelegation(name, issue, at)>>),
                         "ratify_verification", IdentityStatus[x]) : x \in refused}
            ELSE {Answer("ALLOW", "ALLOW", "ratify_verification", "authorized_agent")}
      BY <1>2, PlainAnswers
    <3> HIDE DEF refused, name
    <3> QED BY <3>1, <3>2
  <2>2. /\ status.usable /\ <<name, issue>> \notin status.revoked
        /\ ~ (LapseOf(name, at) <= time)
        /\ Arguments(s).resource = SiteOf(name)
        /\ Arguments(s).amount_minor <= CeilingOf(name)
    BY <2>1, PlainRefusals
  <2>3. s \notin {"over_limit", "wrong_resource", "isolation_wrong_site", "expired"}
    <3>1. /\ Arguments(s).amount_minor > CeilingOf(name) <=> s = "over_limit"
          /\ Arguments(s).resource # SiteOf(name) <=>
               s \in {"wrong_resource", "isolation_wrong_site"}
          /\ s = "expired" => LapseOf(name, at) <= time
      BY <1>2, PlainWork
    <3>2. Arguments(s).amount_minor \in Nat /\ CeilingOf(name) \in Nat
      BY WorkFields, CeilingInNat
    <3> HIDE DEF name
    <3> QED BY <2>2, <3>1, <3>2
  <2>4. s \in {"allow", "isolation_own"} => Required[s].decision = "ALLOW"
    BY AnswerFields DEF Required
  <2>5. s = "revoked" => name = "revoked"
    BY DEF Presented
  <2> QED BY <1>2, <2>2, <2>3, <2>4, <2>5 DEF Plain
<1> QED BY <1>1, <1>2

\* Skipping the status write "is still a silent failure for up to a day": whatever
\* lists are written in whatever order, across restarts, only the revoked fixture can
\* slip through, and only within a list's lifetime of the renewal (OnlyRevokedSlips).
THEOREM OnlyTheRevokedSlips == Spec => []OnlyRevokedSlips
<1>1. DInv => OnlyRevokedSlips
  <2> SUFFICES ASSUME DInv, NEW r \in Runtime, NEW s \in Supported[r],
                      NEW a \in AnswersNow(r, s), a.decision = "ALLOW",
                      Required[s].decision # "ALLOW"
               PROVE  s = "revoked" /\ now < issues[running[r]] + StatusLifetime
    BY DEF OnlyRevokedSlips
  <2> DEFINE i == running[r]
  <2>1. i \in 1..Len(issues) /\ issues[i] \in Nat /\ now \in Nat /\ issues[i] <= now
    BY DEF DInv, TypeOK, IssuesInOrder
  <2>2. s = "revoked" /\ Status.usable /\ <<"revoked", i>> \notin Status.revoked
    BY <2>1, OnlyTheseAreAllowed DEF AnswersNow
  <2>3. /\ served # 0 /\ served \in 1..Len(lists)
        /\ <<"revoked", i>> \notin lists[served].revoked
        /\ now - lists[served].updated_at <= StatusLifetime
    BY <2>2 DEF Status, Usable, DInv, TypeOK
  <2>4. lists[served].updated_at < issues[i]
    BY <2>1, <2>3 DEF DInv, IssuesNamed
  <2>5. lists[served].updated_at \in Nat
    <3>1. lists[served] \in StatusList
      BY <2>3 DEF DInv, TypeOK
    <3> QED BY <3>1 DEF StatusList
  <2> QED BY <2>1, <2>2, <2>3, <2>4, <2>5, Facts
<1> QED BY <1>1, DInvCorrect, PTL

-----------------------------------------------------------------------------
(***************************************************************************)
(* What runtimes in force are answered.                                    *)
(***************************************************************************)
\* With material that has not lapsed and a list that names its revoked fixture, and
\* fixtures only, every scenario is answered as required.
LEMMA InForceAnswers ==
  ASSUME NEW r \in Runtime, NEW s \in Supported[r], NEW issue,
         NEW at \in Nat, NEW time \in Nat, at <= time, time < at + Validity,
         NEW status, status.usable, <<"revoked", issue>> \in status.revoked,
         \A cert \in status.revoked : cert[1] = "revoked"
  PROVE  Answers(r, s, issue, at, time, status) = {Required[s]}
<1> DEFINE name == Presented(r, s)
           cert == ScenarioDelegation(name, issue, at)
           x == Arguments(s)
           refused == Refused(cert, x, time, status)
           Why(k) == DecisionReason(k, x, <<cert>>)
<1>1. CASE s \notin Plain
  BY <1>1, OthersAnswered
<1>2. CASE s \in Plain
  <2>1. Answers(r, s, issue, at, time, status) =
          IF refused # {}
          THEN {Denied(Why(k), "ratify_verification", IdentityStatus[k]) : k \in refused}
          ELSE {Answer("ALLOW", "ALLOW", "ratify_verification", "authorized_agent")}
    BY <1>2, PlainAnswers
  <2>2. /\ x.amount_minor > CeilingOf(name) <=> s = "over_limit"
        /\ x.resource # SiteOf(name) <=> s \in {"wrong_resource", "isolation_wrong_site"}
        /\ LapseOf(name, at) <= time <=> s = "expired"
        /\ <<name, issue>> \in status.revoked <=> s = "revoked"
    <3>1. /\ x.amount_minor > CeilingOf(name) <=> s = "over_limit"
          /\ x.resource # SiteOf(name) <=> s \in {"wrong_resource", "isolation_wrong_site"}
          /\ s = "expired" => LapseOf(name, at) <= time
          /\ s # "expired" => LapseOf(name, at) = at + Validity
          /\ name = "revoked" <=> s = "revoked"
      BY <1>2, PlainWork
    <3> HIDE DEF name, x
    <3>2. <<name, issue>> \in status.revoked => name = "revoked"
      <4>1. <<name, issue>>[1] = name
        OBVIOUS
      <4> QED BY <4>1
    <3> QED BY <3>1, <3>2, Facts
  <2>3. /\ \A k \in refused :
             k \in {"status_unavailable", "delegation_revoked", "delegation_expired",
                    "constraint_denied"}
        /\ "status_unavailable" \in refused <=> ~ status.usable
        /\ "delegation_revoked" \in refused <=>
             status.usable /\ <<name, issue>> \in status.revoked
        /\ "delegation_expired" \in refused <=> LapseOf(name, at) <= time
        /\ "constraint_denied" \in refused <=>
             ~ (x.resource = SiteOf(name) /\ x.amount_minor <= CeilingOf(name))
        /\ Why("delegation_revoked") = "DENY_REVOKED"
        /\ Why("delegation_expired") = "DENY_EXPIRED"
        /\ Why("constraint_denied") =
             IF x.resource # SiteOf(name) THEN "DENY_RESOURCE_MISMATCH"
             ELSE IF x.amount_minor > CeilingOf(name) THEN "DENY_LIMIT_EXCEEDED"
             ELSE "DENY_CONSTRAINT_MISMATCH"
    BY PlainRefusals
  <2>4. x.amount_minor \in Nat /\ CeilingOf(name) \in Nat
    BY WorkFields, CeilingInNat
  <2>5. /\ IdentityStatus["delegation_revoked"] = "revoked"
        /\ IdentityStatus["delegation_expired"] = "expired"
        /\ IdentityStatus["constraint_denied"] = "constraint_denied"
    BY DEF IdentityStatus
  <2> HIDE DEF name, x, refused, Why
  <2>6. CASE s \in {"allow", "isolation_own"}
    <3>1. refused = {}
      BY <2>2, <2>3, <2>4, <2>6
    <3> QED BY <2>1, <2>6, <3>1 DEF Required
  <2>7. CASE s = "expired"
    <3>1. refused = {"delegation_expired"}
      BY <2>2, <2>3, <2>4, <2>7
    <3> QED BY <2>1, <2>3, <2>5, <2>7, <3>1 DEF Required
  <2>8. CASE s = "revoked"
    <3>1. refused = {"delegation_revoked"}
      BY <2>2, <2>3, <2>4, <2>8
    <3> QED BY <2>1, <2>3, <2>5, <2>8, <3>1 DEF Required
  <2>9. CASE s \in {"over_limit", "wrong_resource", "isolation_wrong_site"}
    <3>1. refused = {"constraint_denied"}
      BY <2>2, <2>3, <2>4, <2>9
    <3>2. Why("constraint_denied") =
            IF s = "over_limit" THEN "DENY_LIMIT_EXCEEDED" ELSE "DENY_RESOURCE_MISMATCH"
      BY <2>2, <2>3, <2>9
    <3> QED BY <2>1, <2>5, <2>9, <3>1, <3>2 DEF Required
  <2> QED BY <1>2, <2>6, <2>7, <2>8, <2>9 DEF Plain
<1> QED BY <1>1, <1>2

\* The lists name revoked fixtures only, so none of them ever takes back the authority a
\* runtime works with.
OnlyFixturesNamed ==
  \A k \in 1..Len(lists) : \A cert \in lists[k].revoked : cert[1] = "revoked"

LEMMA FixturesInductive ==
  /\ Init => OnlyFixturesNamed
  /\ DInv /\ OnlyFixturesNamed /\ [Next]_vars => OnlyFixturesNamed'
<1>1. ASSUME Init PROVE OnlyFixturesNamed
  <2>1. Len(lists) = 1 /\ lists[1] = FirstList(0)
    BY <1>1 DEF Init
  <2>2. \A cert \in FirstList(0).revoked : cert = <<"revoked", 1>>
    BY DEF FirstList
  <2> QED BY <2>1, <2>2 DEF OnlyFixturesNamed
<1>2. ASSUME OnlyFixturesNamed, UNCHANGED lists PROVE OnlyFixturesNamed'
  BY <1>2 DEF OnlyFixturesNamed
<1>3. ASSUME DInv, OnlyFixturesNamed, now' = now,
             NEW new \in SUBSET (DelegationName \X (1..MaxIssues)), Publish(new),
             \A cert \in new : cert[1] = "revoked"
      PROVE  OnlyFixturesNamed'
  <2>1. /\ Len(lists) \in Nat \ {0} /\ Len(lists') = Len(lists) + 1
        /\ \A k \in 1..Len(lists) : lists'[k] = lists[k]
        /\ lists'[Len(lists) + 1].revoked = lists[Len(lists)].revoked \cup new
    BY <1>3, PublishKeepsOrder DEF DInv, TypeOK, ListsInOrder
  <2>2. \A k \in 1..Len(lists') : k \in 1..Len(lists) \/ k = Len(lists) + 1
    BY <2>1
  <2> QED BY <1>3, <2>1, <2>2 DEF OnlyFixturesNamed
<1>4. ASSUME DInv, OnlyFixturesNamed, Renew PROVE OnlyFixturesNamed'
  <2>1. Len(issues) + 1 \in 1..MaxIssues
    BY <1>4, Facts DEF DInv, TypeOK, Renew
  <2>2. {<<"revoked", Len(issues) + 1>>} \in SUBSET (DelegationName \X (1..MaxIssues))
    BY <2>1 DEF DelegationName
  <2>3. \A cert \in {<<"revoked", Len(issues) + 1>>} : cert[1] = "revoked"
    OBVIOUS
  <2> QED BY <1>3, <1>4, <2>2, <2>3 DEF Renew
<1>5. ASSUME DInv, OnlyFixturesNamed, Refresh PROVE OnlyFixturesNamed'
  BY <1>3, <1>5 DEF Refresh
<1>6. ASSUME [Next]_vars, ~ Renew, ~ Refresh PROVE UNCHANGED lists
  BY <1>6 DEF Next, Operate, Observe, vars, Tick, RestartReceiver, Install, WriteList,
              Visit, Launch, Stall, Compare, Error
<1> QED BY <1>1, <1>2, <1>4, <1>5, <1>6

THEOREM OnlyFixturesAreNamed == Spec => []OnlyFixturesNamed
BY FixturesInductive, DInvCorrect, PTL DEF Spec

\* "In force" says of the state what InForceAnswers asks of the material and the list.
LEMMA InForceFacts ==
  ASSUME DInv, OnlyFixturesNamed, NEW r \in Runtime, InForce(r)
  PROVE  LET i == running[r] IN
         /\ issues[i] \in Nat /\ now \in Nat /\ issues[i] <= now
         /\ now < issues[i] + Validity
         /\ Status.usable /\ <<"revoked", i>> \in Status.revoked
         /\ \A cert \in Status.revoked : cert[1] = "revoked"
<1> DEFINE i == running[r]
<1>1. i \in 1..Len(issues) /\ issues[i] \in Nat /\ now \in Nat /\ issues[i] <= now
  BY DEF DInv, TypeOK, IssuesInOrder
<1>2. served # 0 /\ served \in 1..Len(lists)
  BY DEF InForce, Usable, DInv, TypeOK
<1>3. Status.usable /\ Status.revoked = lists[served].revoked
  BY <1>2 DEF InForce, Status
<1> QED BY <1>1, <1>2, <1>3 DEF InForce, OnlyFixturesNamed

\* While a runtime's material is in force, however it and the list came there, each of
\* its scenarios can only be answered as the contracts require, layer and status
\* included (MeetsContract).
THEOREM ContractIsMet == Spec => []MeetsContract
<1>1. DInv /\ OnlyFixturesNamed => MeetsContract
  <2> SUFFICES ASSUME DInv, OnlyFixturesNamed, NEW r \in Runtime, InForce(r),
                      NEW s \in Supported[r]
               PROVE  AnswersNow(r, s) = {Required[s]}
    BY DEF MeetsContract
  <2> DEFINE i == running[r]
  <2>1. /\ issues[i] \in Nat /\ now \in Nat /\ issues[i] <= now
        /\ now < issues[i] + Validity
        /\ Status.usable /\ <<"revoked", i>> \in Status.revoked
        /\ \A cert \in Status.revoked : cert[1] = "revoked"
    BY InForceFacts
  <2> QED BY <2>1, InForceAnswers DEF AnswersNow
<1> QED BY <1>1, DInvCorrect, OnlyFixturesAreNamed, PTL

\* The facts shown beside an answer contradict neither an ALLOW nor the bound a denial
\* names.
LEMMA AnswersExplained ==
  ASSUME NEW r \in Runtime, NEW s \in Supported[r], NEW issue, NEW at, NEW time,
         NEW status, NEW a \in Answers(r, s, issue, at, time, status)
  PROVE  LET f == PublicFacts(r, s, issue, at)
             exceeds == f.requested_amount_minor > f.authorized_max_amount_minor
             astray  == f.requested_resource # f.delegation_resource
             lapsed  == f.delegation_expires_at <= time
         IN /\ a.reason = "DENY_LIMIT_EXCEEDED" => exceeds
            /\ a.reason = "DENY_RESOURCE_MISMATCH" => astray
            /\ a.reason = "DENY_EXPIRED" => lapsed
            /\ a.decision = "ALLOW" => ~ exceeds /\ ~ astray /\ ~ lapsed
<1> DEFINE name == Presented(r, s)
           f == PublicFacts(r, s, issue, at)
           x == Arguments(s)
           cert == ScenarioDelegation(name, issue, at)
           refused == Refused(cert, x, time, status)
           Why(k) == DecisionReason(k, x, <<cert>>)
<1>1. /\ f.requested_amount_minor = x.amount_minor /\ f.requested_resource = x.resource
      /\ f.authorized_max_amount_minor = CeilingOf(Own[r])
      /\ f.delegation_resource = SiteOf(name)
      /\ f.delegation_expires_at = LapseOf(name, at)
  BY ShownFacts
<1>2. CASE s \notin Plain
  <2>1. a = Required[s]
    BY <1>2, OthersAnswered
  <2>2. s \in {"altered_operation", "replay", "wrong_agent", "copied_certificate",
               "isolation_borrowed_subject", "isolation_borrowed_certificate"}
    BY <1>2, ScenesOf DEF Runtime, Plain
  <2>3. /\ Required[s].decision = "DENY"
        /\ Required[s].reason \in {"DENY_OPERATION_MISMATCH", "DENY_REPLAY",
                                   "DENY_SUBJECT_MISMATCH", "DENY_VERIFICATION_FAILED"}
    <3>1. \A reason, layer, identity :
            /\ Denied(reason, layer, identity).decision = "DENY"
            /\ Denied(reason, layer, identity).reason = reason
      BY AnswerFields
    <3> QED BY <2>2, <3>1 DEF Required
  <2> QED BY <2>1, <2>3
<1>3. CASE s \in Plain
  <2>1. Answers(r, s, issue, at, time, status) =
          IF refused # {}
          THEN {Denied(Why(k), "ratify_verification", IdentityStatus[k]) : k \in refused}
          ELSE {Answer("ALLOW", "ALLOW", "ratify_verification", "authorized_agent")}
    BY <1>3, PlainAnswers
  <2>2. /\ \A k \in refused :
             k \in {"status_unavailable", "delegation_revoked", "delegation_expired",
                    "constraint_denied"}
        /\ "delegation_expired" \in refused <=> LapseOf(name, at) <= time
        /\ "constraint_denied" \in refused <=>
             ~ (x.resource = SiteOf(name) /\ x.amount_minor <= CeilingOf(name))
        /\ Why("status_unavailable") = "DENY_VERIFIER_UNAVAILABLE"
        /\ Why("delegation_revoked") = "DENY_REVOKED"
        /\ Why("delegation_expired") = "DENY_EXPIRED"
        /\ Why("constraint_denied") =
             IF x.resource # SiteOf(name) THEN "DENY_RESOURCE_MISMATCH"
             ELSE IF x.amount_minor > CeilingOf(name) THEN "DENY_LIMIT_EXCEEDED"
             ELSE "DENY_CONSTRAINT_MISMATCH"
    <3>1. /\ \A k \in refused :
               k \in {"status_unavailable", "delegation_revoked", "delegation_expired",
                      "constraint_denied"}
          /\ "delegation_expired" \in refused <=> LapseOf(name, at) <= time
          /\ "constraint_denied" \in refused <=>
               ~ (x.resource = SiteOf(name) /\ x.amount_minor <= CeilingOf(name))
      BY PlainRefusals
    <3>2. /\ Why("status_unavailable") = "DENY_VERIFIER_UNAVAILABLE"
          /\ Why("delegation_revoked") = "DENY_REVOKED"
          /\ Why("delegation_expired") = "DENY_EXPIRED"
      BY DEF DecisionReason
    <3>3. Why("constraint_denied") =
            IF x.resource # SiteOf(name) THEN "DENY_RESOURCE_MISMATCH"
            ELSE IF x.amount_minor > CeilingOf(name) THEN "DENY_LIMIT_EXCEEDED"
            ELSE "DENY_CONSTRAINT_MISMATCH"
      <4>1. cert.constraints = Bounds(name)
        BY DelegationFields
      <4>2. Why("constraint_denied") = ConstraintReason(x, <<cert>>)
        BY DEF DecisionReason
      <4> HIDE DEF cert
      <4> QED BY <4>1, <4>2, BoundsReason
    <3> QED BY <3>1, <3>2, <3>3
  <2>3. CeilingOf(name) = CeilingOf(Own[r])
    BY <1>3, PlainPresent
  <2>4. x.amount_minor \in Nat /\ CeilingOf(name) \in Nat
    BY WorkFields, CeilingInNat
  <2> HIDE DEF name, x, f, refused, Why
  <2>5. ASSUME NEW k \in refused,
               a = Denied(Why(k), "ratify_verification", IdentityStatus[k])
        PROVE  /\ a.decision = "DENY" /\ a.reason = Why(k)
               /\ a.reason = "DENY_LIMIT_EXCEEDED" => x.amount_minor > CeilingOf(name)
               /\ a.reason = "DENY_RESOURCE_MISMATCH" => x.resource # SiteOf(name)
               /\ a.reason = "DENY_EXPIRED" => LapseOf(name, at) <= time
    <3>1. a.decision = "DENY" /\ a.reason = Why(k)
      BY <2>5, AnswerFields
    <3>2. /\ Why(k) = "DENY_LIMIT_EXCEEDED" => x.amount_minor > CeilingOf(name)
          /\ Why(k) = "DENY_RESOURCE_MISMATCH" => x.resource # SiteOf(name)
      BY <2>2, <2>5
    <3>3. Why(k) = "DENY_EXPIRED" => k = "delegation_expired"
      BY <2>2, <2>5
    <3> QED BY <2>2, <2>5, <3>1, <3>2, <3>3
  <2>6. ASSUME refused = {}
        PROVE  /\ a.decision = "ALLOW" /\ a.reason = "ALLOW"
               /\ ~ (x.amount_minor > CeilingOf(name)) /\ x.resource = SiteOf(name)
               /\ ~ (LapseOf(name, at) <= time)
    <3>1. a = Answer("ALLOW", "ALLOW", "ratify_verification", "authorized_agent")
      BY <2>1, <2>6
    <3> QED BY <2>2, <2>4, <2>6, <3>1, AnswerFields
  <2>7. CASE refused = {}
    BY <1>1, <2>3, <2>6, <2>7 DEF f
  <2>8. CASE refused # {}
    <3>1. PICK k \in refused :
            a = Denied(Why(k), "ratify_verification", IdentityStatus[k])
      BY <2>1, <2>8
    <3> QED BY <1>1, <2>3, <2>5, <3>1 DEF f
  <2> QED BY <2>7, <2>8
<1> QED BY <1>2, <1>3

\* What a visitor is shown beside a decision explains it, for every answer a scenario
\* can be given and not only the required one (FactsExplainAnswers).
THEOREM AnswersAreExplained == Spec => []FactsExplainAnswers
<1>1. FactsExplainAnswers
  BY AnswersExplained DEF FactsExplainAnswers, AnswersNow
<1> QED BY <1>1, PTL

-----------------------------------------------------------------------------
(***************************************************************************)
(* The hosted walkthrough, whose amounts are written out in the proxy, is  *)
(* right for the amounts the runtime and the issuance have in the code.    *)
(***************************************************************************)
CodeAmounts ==
  /\ Amount = 42000 /\ Excess = 50100 /\ Modest = 15000
  /\ DefaultMax = 50000 /\ SecondMax = 20000

LEMMA WalkthroughReasons ==
  ASSUME NEW r \in Runtime, NEW s \in Supported[r]
  PROVE  LET w == WalkthroughAnswer(s) IN
         /\ w.reason = Required[s].reason /\ w.decided_by = Required[s].decided_by
         /\ w.handler_invoked = Required[s].handler_invoked
<1>1. CASE s \in {"copied_certificate", "isolation_borrowed_certificate"}
  <2>1. WalkthroughAnswer(s) =
          Denied("DENY_VERIFICATION_FAILED", "ratify_verification", "invalid")
    BY <1>1 DEF WalkthroughAnswer
  <2>2. \/ Required[s] = Denied("DENY_VERIFICATION_FAILED", "ratify_verification",
                               "invalid_signature")
        \/ Required[s] = Denied("DENY_VERIFICATION_FAILED", "ratify_verification",
                               "chain_linkage_mismatch")
    BY <1>1 DEF Required
  <2> QED BY <2>1, <2>2 DEF Answer, Denied
<1>2. CASE s \notin {"copied_certificate", "isolation_borrowed_certificate"}
  <2>1. s \in {"allow", "over_limit", "wrong_resource", "altered_operation", "expired",
               "revoked", "replay", "wrong_agent", "isolation_own",
               "isolation_wrong_site", "isolation_borrowed_subject"}
    BY <1>2, ScenesOf DEF Runtime
  <2>2. WalkthroughAnswer(s) = Required[s]
    BY <2>1 DEF WalkthroughAnswer, Required
  <2> QED BY <2>2
<1> QED BY <1>1, <1>2

LEMMA WalkthroughShows ==
  ASSUME CodeAmounts, NEW r \in Runtime, NEW s \in Supported[r]
  PROVE  LET w == WalkthroughFacts(s) IN
         /\ w.requested_amount_minor = Arguments(s).amount_minor
         /\ w.requested_resource = Arguments(s).resource
         /\ w.authorized_max_amount_minor = CeilingOf(Own[r])
         /\ w.delegation_resource = SiteOf(Presented(r, s))
<1>1. Portland = {"isolation_own", "isolation_wrong_site", "isolation_borrowed_subject",
                  "isolation_borrowed_certificate"}
  BY ScenesOf DEF Portland
<1>2. \/ r = "primary" /\ s \in Supported["primary"] /\ s \notin Portland
      \/ r = "secondary" /\ s \in Portland
  BY <1>1, ScenesOf DEF Runtime
<1>3. WalkthroughFacts(s).requested_amount_minor = Arguments(s).amount_minor
  BY DEF WalkthroughFacts, Arguments, CodeAmounts
<1>4. WalkthroughFacts(s).requested_resource = Arguments(s).resource
  BY <1>1 DEF WalkthroughFacts, Arguments, Borrowed
<1>5. WalkthroughFacts(s).authorized_max_amount_minor = CeilingOf(Own[r])
  BY <1>2, ScenesOf DEF WalkthroughFacts, CeilingOf, CodeAmounts
<1>6. WalkthroughFacts(s).delegation_resource = SiteOf(Presented(r, s))
  <2>1. CASE r = "primary"
    <3>1. Presented(r, s) # "second"
      BY <1>1, <1>2, <2>1, ScenesOf DEF Presented
    <3> QED BY <1>2, <2>1, <3>1 DEF WalkthroughFacts, SiteOf
  <2>2. CASE r = "secondary" /\ s \in Borrowed
    BY <2>2 DEF WalkthroughFacts, SiteOf, Presented, Borrowed
  <2>3. CASE r = "secondary" /\ s \notin Borrowed
    <3>1. s \in {"isolation_own", "isolation_wrong_site"}
      BY <1>1, <1>2, <2>3 DEF Borrowed
    <3>2. Presented(r, s) = "second"
      BY <2>3, <3>1, ScenesOf DEF Presented
    <3> QED BY <1>1, <2>3, <3>1, <3>2 DEF WalkthroughFacts, SiteOf
  <2> QED BY <1>2, <2>1, <2>2, <2>3
<1> QED BY <1>3, <1>4, <1>5, <1>6

\* Only the expired fixture has lapsed when the material is in force.
LEMMA ShownLapse ==
  ASSUME NEW r \in Runtime, NEW s \in Supported[r],
         NEW at \in Nat, NEW time \in Nat, at <= time, time < at + Validity
  PROVE  LapseOf(Presented(r, s), at) <= time <=> WalkthroughLapsed(s)
<1>1. Presented(r, s) = "expired" <=> s = "expired"
  BY ScenesOf DEF Presented, Runtime
<1>2. Presented(r, s) = "expired" => LapseOf(Presented(r, s), at) = at - Validity
  BY DEF LapseOf
<1>3. Presented(r, s) # "expired" => LapseOf(Presented(r, s), at) = at + Validity
  BY DEF LapseOf
<1> QED BY <1>1, <1>2, <1>3, Facts DEF WalkthroughLapsed

\* The walkthrough shows what a runtime in force would have been answered, by which
\* layer, and the facts beside it (WalkthroughIllustrates).
THEOREM WalkthroughIsTrue ==
  ASSUME CodeAmounts
  PROVE  Spec => []WalkthroughIllustrates
<1>1. DInv /\ OnlyFixturesNamed => WalkthroughIllustrates
  <2> SUFFICES ASSUME DInv, OnlyFixturesNamed, NEW r \in Runtime, InForce(r),
                      NEW s \in Supported[r], NEW a \in AnswersNow(r, s)
               PROVE  LET w == WalkthroughAnswer(s)
                          f == PublicFacts(r, s, running[r], issues[running[r]])
                      IN /\ w.reason = a.reason /\ w.decided_by = a.decided_by
                         /\ w.handler_invoked = a.handler_invoked
                         /\ \A field \in DOMAIN WalkthroughFacts(s) :
                              f[field] = WalkthroughFacts(s)[field]
                         /\ WalkthroughLapsed(s) <=> f.delegation_expires_at <= now
    BY DEF WalkthroughIllustrates
  <2> DEFINE i == running[r]
             f == PublicFacts(r, s, i, issues[i])
  <2>1. /\ issues[i] \in Nat /\ now \in Nat /\ issues[i] <= now
        /\ now < issues[i] + Validity
        /\ Status.usable /\ <<"revoked", i>> \in Status.revoked
        /\ \A cert \in Status.revoked : cert[1] = "revoked"
    BY InForceFacts
  <2>2. a = Required[s]
    <3>1. AnswersNow(r, s) = {Required[s]}
      BY <2>1, InForceAnswers DEF AnswersNow
    <3> QED BY <3>1
  <2>3. /\ f.requested_amount_minor = Arguments(s).amount_minor
        /\ f.requested_resource = Arguments(s).resource
        /\ f.authorized_max_amount_minor = CeilingOf(Own[r])
        /\ f.delegation_resource = SiteOf(Presented(r, s))
        /\ f.delegation_expires_at = LapseOf(Presented(r, s), issues[i])
    BY ShownFacts
  <2>4. \A field \in DOMAIN WalkthroughFacts(s) : f[field] = WalkthroughFacts(s)[field]
    <3>1. DOMAIN WalkthroughFacts(s) =
            {"requested_amount_minor", "requested_resource", "authorized_max_amount_minor",
             "delegation_resource"}
      BY DEF WalkthroughFacts
    <3> HIDE DEF f
    <3> QED BY <2>3, <3>1, WalkthroughShows
  <2>5. WalkthroughLapsed(s) <=> f.delegation_expires_at <= now
    BY <2>1, <2>3, ShownLapse
  <2> QED BY <2>2, <2>4, <2>5, WalkthroughReasons
<1> QED BY <1>1, DInvCorrect, OnlyFixturesAreNamed, PTL

\* Every variable keeps its type.
THEOREM DeploymentTypeCorrect == Spec => []TypeOK
BY DInvCorrect, PTL DEF DInv

=============================================================================

# Ratify Maritime reference: TLA+ models and proofs

An AI agent asks a separately deployed receiver to create a maintenance work
order; the receiver acts only on authority that the principal signed, for one
exact action, once. This directory holds TLA+ modules of that system, TLC runs
over small instances and TLAPS proofs for every instance. Definitions follow the
Python and TypeScript sources; `PROJECT.json` gives the lines behind each one.
Paths below are relative to the repository; `maritime_ratify/` is
`src/maritime_ratify/`.

## The system

| Component | Source | State | Operations |
|---|---|---|---|
| Work-order policy and reason tables | `maritime_ratify/action.py`, `authority.py`, tables of `receiver.py` | none | schema, signed bounds, local policy, public reasons |
| WorkOrderReceiver | `maritime_ratify/receiver.py` | pending challenges, claim store and security journal of the SDK, handler counter, one reentrant lock | `issue_challenge`, `execute` |
| Presentation registry | `maritime_ratify/transport.py` | live references and their proofs, a lock | `register`, `consume`, reaping |
| Receiver service | `maritime_ratify/service.py` | the two above | tools `issue_work_order_challenge`, `create_work_order`, the upload route |
| Authority interceptor | `maritime_ratify/agent.py` | one tool call's progress | challenge, sign, upload, dispatch (altered or replayed on request) |
| Agent runtime | `maritime_ratify/agent_runtime.py` | material read at startup, a rate limit | `/chat`, verified reads |
| Scenario proxy and limiter | `apps/demo-console/worker/src/index.ts` | the limiter's hits, a request's retries | `handleRequest`, the limiter's transaction |
| Status publisher and feeds | `maritime_ratify/status.py` | publisher state, the served list | `publish`, `FileStatusFeed` |
| Deployment issuance | `maritime_ratify/deployment_issuance.py` | publisher state file, output directories | `issue`, `renew`, `refresh` |
| Rotation script | `scripts/rotate_deployment_authority.py` | volumes, digests, processes | write, read back, set, restart, wait |
| Authority fixtures and scenarios | `maritime_ratify/authority.py`, `agent_runtime.py`, `deployment_issuance.py` | none | which authority a scenario presents, what is answered, what is shown beside it |
| Live gates and credential watch | `scripts/run_live_adversarial_gate.py`, `run_runtime_isolation_gate.py`, `watch_demo_credential.py` | one run's progress | ask, compare, retry, pass or fail |
| Receiver start | `apps/receiver/start.py` | none (configuration) | not modelled |
| Console front-end | `apps/demo-console/site/` | display | not modelled |
| Other gate and measurement scripts | `scripts/` | evidence files | not modelled |
| Protocol SDK | external package | claim store, journal, publisher | modelled as the code above uses it |

How they meet. A browser click goes to the proxy, which has the limiter count it
and posts it to `/chat` of a runtime, up to five times. The runtime's agent makes
a tool call, which the interceptor turns into four messages to the receiver
service: a challenge for the exact action, an upload of the signed proof under a
random reference, the call with that reference, and its answer. The service
consumes the reference under the registry's lock and then enters the receiver's
lock, where the SDK verifies the proof against the pinned root and the signed
list on the receiver's volume. The principal issues that list off-line with the
issuance commands, and the rotation script brings new material to the runtimes,
which read it when they start. The live gates and the watch are clients of the
runtimes: they run scenarios, one after the other, and compare each answer with what
`docs/gate-expectations.json` and `docs/runtime-isolation-expectations.json` require.

What is hard about it:

- *Interleavings.* Threads of several callers share one receiver and one
  registry; between consuming a reference and entering the receiver anything may
  happen. The status file changes while a verification with a frozen clock is in
  progress.
- *Failures.* Answers are lost after the handler ran; a restart forgets pending
  challenges, claims, journal and registry; issuance and rotation can die between
  any two writes; writes are acknowledged and garbled.
- *Order.* An older signed list can be put back; limiter stamps arrive late; a
  retry overlaps with the attempt it replaces. Renewing, rotating and replacing the
  list are three manual steps, and gates ask between any two of them.
- *Limits and boundaries.* A registry at its limit, a grant or a reference used
  in the instant it expires, amounts at their bound.

What makes each component correct: the receiver runs the handler at most once per
challenge, for exactly what was granted, only on current authority, and nobody
else's call costs a caller its grant; the registry hands a proof out once, to its
uploader, within its limit; the service tells an agent what happened and ends
every call; the publisher never forgets a revocation; the limiter admits no more
than its budget and refuses nobody who has one; the console shows as live only
what was decided; a runtime never mixes material of two renewals; a deployment whose
material and list fit answers every scenario as its contract requires, and a gate
that passed stays true as far as it promises.

## The modules

Each module's actions are the operations of the code; where an operation is split,
it is split where another actor can come in between. Definitions marked `Fault:`
are plausible bugs: each property below is violated when one of them takes the
place of the definition that follows it.

- **`WorkOrderPolicy`** (`action.py`, `authority.py`, `receiver.py`): the closed
  schema's amount range, the signed constraints, local policy and the reason
  tables as pure operators. An action is a record, equal or not; identifier
  patterns and canonical bytes are abstracted.
- **`Receiver`** (`receiver.py`, `status.py`): `IssueChallenge` is the whole of
  `issue_challenge`, reaping included. `execute` is `Enter` (lock, one clock
  reading, reaping, snapshots), `Refuse` or `Admit` (prechecks; the pop),
  `Verify` (the SDK's verification, reading the status file), `Deny` or
  `InvokeHandler`. `SignList`, `WriteFile`, `Tick` and `Restart` are the world. The
  variables `grant`, `attempts`, `runs`, `orders` and `known` are histories.
  Python threads are modelled as running the synchronous tools concurrently, which
  the lock exists for; a server that runs them on one event loop has fewer
  behaviours. The SDK may report any of several faults that are true at once.
- **`WorkOrders`**: the abstract promise. A grant is issued for one work order,
  may lapse, and is performed at most once, exactly as granted. `Receiver`
  implements it (`Promise == INSTANCE WorkOrders WITH ...`): a grant is open while
  it is pending or its verification is inside the lock.
- **`PresentationRegistry`** (`transport.py`): `Register`, `RefuseFull`, `Consume`,
  `RefuseUse`, each under the registry's lock with its reaping, and `Forget`.
- **`ReceiverService`** (`service.py`, `agent.py`): extends `Receiver` and
  instantiates `PresentationRegistry`. A flow is one intercepted tool call;
  `CreateWorkOrder` consumes the reference, `EnterReceiver` comes later.
  `LoseAnswer`, `RestartService` and `Stray` (strangers naming references) are its
  environment.
- **`StatusIssuance`** (`deployment_issuance.py`, `status.py`): `Begin` loads the
  state and signs in memory, `Prepare` makes the output directory, `WriteList` and
  `ReplaceState` write. `issue` writes the state first and the list last; `renew`
  and `refresh` the list first and the state last. `Crash` is a kill or a failure
  between any two writes.
- **`ScenarioLimiter`** (`index.ts`): one transaction, `Admit` or `Refuse`, with
  the stamp its Worker read before. The arrays of hits are the set of the calls they
  came from, each with its client, stamp and number: the arrays' lengths are
  cardinalities.
- **`ScenarioProxy`** (`index.ts`, `/chat` of `agent_runtime.py`): a click from its
  stamp to its reply, with retries, timeouts, the fallback walkthrough, and
  attempts that go on in the runtime after their connection broke. A response comes
  in two steps: its headers (`Hear`) end the attempts and set `heard`, which is
  `upstreamResponseReceived`; its body is shown (`Show`) or cut off, aborted or
  malformed (`Spoil`). Clicks in `Replaying` run the replay scenario, which dispatches
  its call twice and answers with the second decision: it is denied after its first
  dispatch created a work order. It instantiates `ScenarioLimiter`.
- **`Rotation`** (`rotate_deployment_authority.py`, the startup reads of
  `agent_runtime.py`): the script's writes, read-backs, digests, restarts and
  waits, and the runtimes' reads. The script takes the material directory it is given:
  newer material (`Launch`), or, counted among the faults, older material or the same
  again (`LaunchAny`). The platform is external: a deploy stops the old
  process before it returns, one `env set` is atomic, and reading a file back needs
  no process.
- **`Scenarios`** (`agent_runtime.py`, `authority.py`, `deployment_issuance.py`,
  `index.ts`): pure operators. `ScenarioDelegation` is what issuance signs under each
  name, `Authority` what a runtime presents in a scenario, `Answers` what can come
  back for given material, clock and revocation knowledge, `PublicFacts` what is shown
  beside it, `Required` the two expectation files, `WalkthroughAnswer` and
  `WalkthroughFacts` the table of the hosted walkthrough in the proxy. It uses the
  policy operators of `WorkOrderPolicy` that the receiver uses.
- **`Deployment`** (`deployment_issuance.py`, the gate and watch scripts, the status
  replacement of `docs/CREDENTIAL-ROTATION.md`): the composition over days. What has a
  module of its own is one step here: an issuance command (`Renew`, `Refresh`), the
  installation of any issue, older ones too, on one runtime (`Install`, licensed by
  `MaterialIsOfOneIssue` of `Rotation`), a run of a scenario (an element of `Answers`). A gate or watch is the
  variable `observer`, which asks (`Compare`, `Stall`, `Error`) while `WriteList`,
  `RestartReceiver`, `Visit` and `Tick` come in between. `gated` and `assured` are
  histories of what a pass promised, the latter for each issue by itself. Unlike `StatusIssuance`, it takes commands to
  finish and not to overlap.
- **`MC...`** modules give constants their values; `...Proofs` modules hold theorems.

## The runs

| Run | What it asks | Bounds |
|---|---|---|
| `receiver_concurrency` | at most one verification and order per challenge, exactly as granted; grants end their own way; the receiver implements `WorkOrders` | 2 threads, 2 callers, 2 challenges, 1 restart, clock 0..1 |
| `receiver_authority` | types and public reasons; only authorised orders; a revocation once ingested is final | 1 thread, 2 challenges, 8 kinds of chain, 2 signed lists, clock 0..2 |
| `registry` | handed out once as filed; within the limit; entries end their own way | 3 references, limit 2, 2 callers, clock 0..3 |
| `service` | answers agree with orders; honest flows are not refused; every flow ends | an honest flow beside one that borrows a certificate and replays, 2 challenges, 2 references, 1 restart, clock 0..1 |
| `issuance` | finished commands are remembered; lists continue in order; outputs are written once | 2 processes, 3 directories, 3 certificates, 2 crashes, clock 1..4 |
| `limiter` | limits hold up to the skew; refused only when spent | 2 clients, limits 3 and 2, window 3, skew 1, stamps 0..6 |
| `proxy` | live decisions happened; hosted clicks run once; responses below 500 stand; runs are budgeted; clicks end | 3 clicks, 2 clients, 2 attempts, clock 0..2 |
| `rotation` | material of one issue; done means rotated; digests follow volumes; rotation recovers | 2 runtimes, 2 renewals, 3 faults, older material put back among them |
| `deployment` | what is in force meets the contracts; only the revoked fixture slips; gates and watches stay true; facts explain answers; the walkthrough illustrates; observers end | 2 issues, 3 lists, 13 scenarios of 2 runtimes, 2 attempts of the watch and 1 of a gate, clock 0..2 |
| `request_held` | *refuted*, see findings | 1 thread, 2 challenges |
| `issuance_killed_finding` | *refuted*, see findings | 1 process, 1 crash |
| `proxy_retry_finding` | *refuted*, see findings | 2 clicks, 2 attempts |

Why the bounds are enough. The receiver's hazards need two calls that meet on one
challenge (two threads), a second challenge for the same or the other request, a
clock that passes a lifetime (lifetimes are 1, so the boundary and the instant
after it both occur), and a restart in between. `receiver_authority` needs one
thread, since the lock admits one call at a time, but two challenges: a revocation
is ingested by the first attempt and must bind the second. Its clock exceeds the
lifetime of a list and of one certificate. A registry needs one reference more
than its limit; the limiter, stamps over two windows. Two renewals after the
first material are enough for a volume that holds any two of three. Two attempts
show every overlap of a retry with its predecessor; the code's five add only
repetitions, because an attempt depends on none but the last. Of the three clicks one
is live and two are hosted, one of these on the replay scenario; the global budget is
two, so that it binds, and not the clients' own. In `service` a second
flow that both borrows and replays is every way in which another can disturb an
honest one, since a flow meets others only in the registry and under the receiver's
lock. In `deployment` a delegation lasts 2 instants, a list 1, the watch warns at 2:
a list goes stale while its delegation is good, the first issue lapses at the last
instant, and one renewed in between outlives it; either can be put back. Two issues and three lists suffice for a list
of one issue with material of the other, and for an older list put back after a
newer. A gate has one attempt: asked again after a stall, it finds what a `Visit` in
between would have left, and the watch shows the retry itself. Amounts and ceilings
are those of the code.

Every bound is a constant: `MaxTime`, `MaxClock`, `MaxStamp`, `MaxLists`,
`MaxRestarts`, `MaxCrashes`, `MaxIssue`, `MaxIssues`, `MaxFaults`, and the sizes of
`Challenge`, `Reference`, `Certificate` and `Output`, which bound what is ever drawn.
`Revocable` bounds which certificates are revoked. Symmetry is used for
interchangeable names only, and never in a run with a liveness property.
`ScenarioLimiter`'s guard on late stamps is its assumption: no stamp is later than
`Skew` behind the latest one. `ScenarioProxy` keeps it by clicks that fail or are
counted at once; a click whose count is overdue is one whose limiter call failed.

Four configurations do not check deadlock, because their system stops: issuance
when the clock and the directories are used up, the proxy when every click has its
reply, the rotation when the last renewal is installed and the faults are spent, the
deployment when clock, issues and lists are used up.

## Fairness

- `FairServiceSpec`: every flow's own steps are weakly fair. Nothing inside the
  lock waits for another call, verification reads one file, and the server's
  threads keep running. A flow is not made to begin: `FlowsEnd` speaks of those that
  did. The lock is free infinitely often because the thread inside it goes on, and
  with it every flow waiting for it can continue.
- `ScenarioProxy!FairSpec`: the Worker goes on, and the abort signal of a fetch
  fires, before the headers (`TimeOut`) or in the body (`Read`). Nothing is asked of the runtime, which may never answer.
- `Rotation!FairSpec`: the operator runs a failed script again and goes on to the
  newest material, the script goes on, and the platform starts a process that is
  down. Faults are finite in number (`MaxFaults`): a rotation cannot recover from
  failing, or from older material being put back, forever.
- `Deployment!FairSpec`: a gate or watch that was started goes on until it ends.
  Nothing is asked of operators, visitors or the deployment, which may stall every
  attempt; the scripts count their attempts.

## Proofs

For all values of the constants that satisfy the modules' assumptions.

**`ReceiverProofs`** proves `TypeCorrect`, `HandlerRunsOnce`
(`HandledAtMostOnce`), `HandlerRunsAsGranted` (`OrdersMatchGrants`) and
`ClaimIsFresh` (`NeverClaimedTwice`). None of these is inductive: that the handler
runs once for a challenge follows only from where that challenge can be. `IInv`
adds it:

- `LockHeld`: a thread has a call in progress only if it holds the lock;
- `PendingFresh`: a pending challenge was issued for the request it is filed
  under, and was neither attempted nor claimed nor run;
- `Counted`: runs are at most attempts, attempts at most one, and a claimed
  challenge was attempted;
- `InFlightFaithful`: a call past the prechecks carries what its challenge was
  granted for, live at the clock it read, and one past the verification is signed
  over that very action and challenge;
- `OrdersMatchGrants` itself.

There is a lemma for each action (`IssueKeepsIInv`, `EnterKeepsIInv`,
`AdmitKeepsIInv`, `CommitKeepsIInv`, `InvokeKeepsIInv`, ...), `IInvInductive`
combines them, and the theorems follow with `IInvCorrect`. The only assumptions are
those in `ReceiverAssumption` and `PolicyAssumption`: the null values are not
members of their sets, lifetimes are positive, expiry times are numbers, callers
have subjects.

Its second half rests on that. `HandlerIsAuthorised`
(`OrdersAreAuthorised`) and `RevocationsStay` (`RevocationIsFinal`) follow from `AInv`:
signed lists are cumulative, what the process knows to be revoked is in the list its
journal points at, and a call carries from step to step what the prechecks (`Rooted`),
a committed verification (`Chained`) and one without refusal (`Allowed`) established.
`GrantsAreSafe` (`GrantsEndTheirOwnWay`) and `KeepsThePromise` need `IInv` only. The
latter is the refinement `Spec => Promise!Spec`: issuing maps to `Issue`, the handler's
invocation to `Perform`, and every other step to a lapse or a stutter.

**`RegistryProofs`** proves `RegistryTypeCorrect`, `HandedOutOnceAsFiled`
(`UsedOnceAsFiled`), `NeverOverLimit` (`Bounded`) and `NoForeignEviction` (the action
property `EntriesEndTheirOwnWay`). `UseInv` strengthens the second by
`EntriesAsFiled`: an entry is what was filed under its reference, and was not handed
out yet. The limit rests on the finiteness of `Reference` and the library's facts
about cardinality.

**`ServiceProofs`** speaks of any number of flows, callers, references and restarts. It
has three parts.

- *What an agent is told.* `AgentsAreToldTheTruth` (`AnswersAgreeWithOrders`) and
  `ServiceHandlesOnce`. The receiver's steps keep `IInv` inside the service
  (`ServiceKeepsIInv`); `FInv` adds whose challenge travels where: no two flows hold
  one challenge (`ChallengesOwned`), the bundle filed, handed over or inside the
  receiver for a flow is over that flow's challenge (`BundlesOwned`), at most one of
  these is in transit (`StepsInOrder`), and a flow that dispatches once has no order
  before its answer (`RunsSoFar`).
- *Who is refused.* `HonestAreServed` (`HonestFlowsAreNotRefused`): no other flow,
  stranger or restart makes the service refuse a flow that does what it is authorised
  to do, other than for the reasons the property allows. `HInv` follows an honest flow
  from its challenge to its answer: its request ID stays its own, its grant stays
  pending until its own call pops it or its time is up, its reference is filed for it
  and unused likewise, and its call inside the receiver meets no refusal but that of
  an unavailable status.
- *What the parts prove alone holds in the whole.* `ReceiverInsideService`
  (`ServiceSpec => Spec`) and `RegistryInsideService` (`ServiceSpec => Registry!Spec`):
  every step of the service is a step of the receiver, or leaves it alone, and so for
  the registry. What a service submits is a presentation the receiver's model allows
  (`BundlesPresentable`: signed by the flow's agent over its own action and a challenge
  that was issued). So the theorems of `ReceiverProofs` and `RegistryProofs` hold of the
  composition: `ServiceKeepsThePromise` (the refinement of `WorkOrders`),
  `ServiceActsWithAuthority`, `ServiceProtectsGrants`, `ServiceHandsOutOnce` and
  `ServiceKeepsEntries`. The runs check these properties on the parts only.

`ServiceAssumption` adds that references are finitely many, the registry's limit is
positive, and what a flow's script says it presents is signed for that flow's action, as
`Signed` signs it. `ServiceTypeCorrect` is the type invariant.

**`IssuanceProofs`** proves `DirectoriesNeverShared` (`OutputsAreWrittenOnce`) for
commands that overlap and die anywhere, and `StateNeverForgets`
(`FinishedIsRemembered`) and `ListsStayCumulative` (`ListsContinueInOrder`) for those
that do not overlap. `OInv` says whose a directory is; `SInv` that a command at work
signed on top of the state on disk, and that the state covers every finished list.

**`LimiterProofs`** proves `LimitsHoldUpToSkew` (`LimitedUpToSkew`) and
`NobodyIsRefusedEarly` (`RefusedOnlyWhenSpent`) for any limits, window and skew. The
first is not inductive, since a late stamp is compared with hits a later one has
trimmed. `LInv` says what survives the trimming: every admitted call in the window of
the latest stamp is still kept, what is kept was admitted (`KeptWhileTheyCount`), and
calls of one client and stamp are numbered on, so that a new one is never taken for an
old one (`NumberedOn`, and `EveryCallCounts`). The rest is arithmetic about cardinalities
of finite sets of calls.

**`ProxyProofs`** proves `ShownDecisionsHappened` (`LiveDecisionsHappened`),
`ReceivedAnswersStand` (`AnswersStand`) and `HostedRunsAreBounded`
(`HostedClicksRunOnce`) from `PInv`: attempts are numbered as they are made, none runs
after it worked, the body a click holds is the decision of the attempt it waits for
(`BodiesHappened`) and the only decision it shows (`ShowsItsBody`), and a response that
was received is one of the current attempt of a click that marked it
(`ReceivedAreHeard`). A denied replay is the one denial that may have a work order. `LimiterInsideProxy` is
the composition's other half: a run of the proxy is a run of the limiter, so that
what `LimiterProofs` proves holds inside it. `RunsStayBudgeted` (`RunsAreBudgeted`)
follows from both with `BInv`, which gives every click that got past the limiter an
admitted call of its own (`OwnHits`).

**`RotationProofs`** proves `MaterialIsWhole`, `DigestsAreLast` and `ReportIsTrue` from
`RInv`: digests are set in pairs, a process holds what it expects, and every artifact
the script has passed is confirmed on its volume (`ScriptFaithful`). It holds for any
non-empty sequence of distinct runtimes, any number of renewals and faults, and
whatever material the script is run with.

**`DeploymentProofs`** proves `GatesStayTrue` (`GatedIssueStaysDenied`),
`WatchesStayTrue` (`WatchedAuthorityLasts`) and `OnlyTheRevokedSlips`
(`OnlyRevokedSlips`) for all validities, lifetimes, margins, attempts, issues and lists.
`DInv` says that issues and lists are in order, that a list leaves out only what was
issued after it (`IssuesNamed`), and that what a passed observer saw is in the journal
since, and was true of the issue it was seen in (`PassesRemembered`). A watch found
the margin in one issue; that every later issue has it too follows from the order of
issues, and is why the promise lasts through any rotation but one to older material.

It also proves the three properties that compare the tables of `Scenarios` with each
other, the first two for all amounts and ceilings that `ScenarioAssumption` admits. `ContractIsMet` (`MeetsContract`) goes scenario by
scenario: which delegation is presented (`Authority`), which faults the SDK then has to
choose from, and why their answer is the one `Required` has; what the material in force
contributes is one lemma, `InForceAnswers`, and that no list revokes it is an invariant
of its own, `OnlyFixturesAreNamed`. `AnswersAreExplained`
(`FactsExplainAnswers`) is the converse view, from an answer back to the facts shown
beside it. `WalkthroughIsTrue` (`WalkthroughIllustrates`) has the hypothesis `CodeAmounts`,
that the amounts are those of the code: the proxy's table spells its figures out by
hand, so that for other amounts it would be wrong, and so it would be in the code.

Every stateful module's type invariant is a theorem of its own (`TypeCorrect`,
`RegistryTypeCorrect`, `ServiceTypeCorrect`, `IssuanceTypeCorrect`, `LimiterTypeCorrect`,
`ProxyTypeCorrect`, `RotationTypeCorrect`, `DeploymentTypeCorrect`).

Only model-checked is what these provers cannot do: liveness under fairness, which
needs `ENABLED` (`FlowsEnd`, `ClicksEnd`, `RotationRecovers`, `ObserversEnd`). Every
other property of a passing run is a theorem.

## Findings

Three statements of the documentation are refuted by a run.

- `request_held`: `docs/THREAT-MODEL.md` says that a request ID cannot be challenged
  again until its grant succeeds or its TTL expires. `execute` pops the challenge
  before it verifies, so a denied attempt frees the request ID as well.
- `proxy_retry_finding`: a comment of the proxy says that a 5xx upstream did not run
  the scenario, so that replaying it cannot double an authorization. `/chat`
  answers 503 to any exception, also to one after the receiver ran the handler,
  and a connection can break while the scenario runs; every attempt has a fresh
  request ID.
- `issuance_killed_finding`: the docstring of `renew_deployment` promises a
  cumulative list whose sequence the next signing continues. A renewal that dies
  after writing its list and before replacing the state is not remembered: the next
  one reuses its sequence number for a list without its revocation.

Further divergences, seen while modelling and not made into runs:

- The rotation script ends with the advice to update the receiver's
  `RATIFY_REVOKED_CERT_IDS` and restart it, and the watch's failure text repeats it;
  `build_receiver` refuses to start with that setting, as `docs/CREDENTIAL-ROTATION.md`
  says.
- `README.md` calls the limiter exact; since a late stamp is compared with hits a later
  one has trimmed, `LimitedUpToSkew` holds and the same bound for the full window does
  not.
- `docs/CREDENTIAL-ROTATION.md` says that with a stale list every scenario is refused
  with `DENY_VERIFIER_UNAVAILABLE`. A replay, an altered operation, another subject
  and a copied certificate are refused before the status counts, with their own reason.
- The watch looks at the credential of the primary runtime only; the secondary's
  lapses unnoticed by it. `WatchedAuthorityLasts` is stated for the primary. The
  rotation script does not compare the material it is given with what is installed:
  put back older material than the watch was answered from, and the authority may
  lapse inside the margin. The property excepts this, and nothing else.
- The proxy covers a failure with the walkthrough for a hosted click unless a response
  below 500 came. A 503 of the runtime after its work order is covered too;
  `AnswersStand` promises nothing of it.
- The walkthrough shows `verification_status` `invalid` for copied certificates, where
  the contract has `invalid_signature` and `chain_linkage_mismatch`.
  `WalkthroughIllustrates` therefore compares layer, reason and facts.
- `_resolved_delegations` says that it prefers what the runtime uses, and prefers the
  local cache; `_v2_record_problems` looks only at the fields the observed record has;
  with `--live-gates` the reproduction returns before the checks of the live gates, and
  it awaits the health of the agents and not of the receiver. These scripts are not
  modelled.

## Plan

Written so far, in this order: the receiver with its promise and proofs, the
registry with its proofs, the service that composes both, issuance, the proxy with
its limiter, rotation; then the scenarios and the deployment that composes issuance,
rotation and the gates, and the proofs of the receiver's refinement and authority,
of the service, issuance, the proxy, rotation and the deployment.

Left, models:

1. compose `StatusIssuance` with the receiver's journal: which lists of killed or
   overlapping commands a receiver refuses, and what it then reports;
2. the scenario suite of `/chat` above `ReceiverService`, so that the retries of
   `ScenarioProxy` meet the real flows;
3. an abstract specification of the service (a call is answered once, with what
   happened) and `ReceiverService` as its implementation.

Left, proofs: the refinement of the abstract service, once it is stated; what a killed
or overlapping issuance still guarantees.

## Not modelled

The console front-end, the measurement scripts, the acceptance gate, the local
reproduction and the receiver's configuration parsing keep no state the rest depends
on: they start processes, time them, write evidence and compare it. The live gates and
the watch are modelled in what they ask, retry and compare, and not in the evidence
they write. The runtime's own `_RateLimiter` is one process on one event loop with a
monotonic clock, the in-order case of `ScenarioLimiter`; its 429 is one of the
answers the proxy gets. Signatures, canonical encodings, keys and the hybrid
verification are the SDK's: a signer signs as itself and nothing else. The bearer-token
comparison and header counting of `transport.py`, the host rewriting and health route
of `service.py`, LangChain, the deterministic model and message parsing of the agent
runtime, and the redaction of evidence are left out as parsing or wording. Clocks do
not go backwards. Two issuance commands that overlap can lose one another's
revocations, since nothing locks the publisher state; no property is stated of them
but that they share no directory. A request ID belongs to whoever challenges it
first, so a caller can be refused with `DENY_AMBIGUOUS_INPUT` for an ID that another
caller holds; the honest flows of `HonestFlowsAreNotRefused` have IDs of their own.

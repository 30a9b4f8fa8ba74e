----------------------------- MODULE Deployment -----------------------------
(***************************************************************************)
(* A deployment over days: the principal renews the delegations and signs  *)
(* status lists (deployment_issuance.py), the operator rotates the two     *)
(* runtimes and replaces the list on the receiver's volume                 *)
(* (docs/CREDENTIAL-ROTATION.md), visitors run scenarios, and the live     *)
(* gates and the credential watch (scripts/) ask the deployment, scenario  *)
(* by scenario, whether it still answers as required.                      *)
(*                                                                         *)
(* What has a module of its own is one step here: one issuance command     *)
(* (StatusIssuance), the installation on one runtime, whose material is of *)
(* one renewal (Rotation!MaterialIsOfOneIssue), and one run of a scenario  *)
(* (ReceiverService, ScenarioProxy), of which a client sees a decision, a  *)
(* stall (502 or a timeout) or another error.  An instant is the time the  *)
(* signed validities are compared at, a few of them to a day.              *)
(***************************************************************************)
EXTENDS Scenarios

CONSTANTS
  StatusLifetime,  \* STATUS_LIST_LIFETIME_SECONDS
  Warn,            \* --warn-days
  GateAttempts,    \* attempts of _execute
  WatchAttempts,   \* ATTEMPTS
  MaxTime,         \* bound: the last instant
  MaxIssues,       \* bound: issues, the first included
  MaxLists         \* bound: status lists ever signed

ASSUME DeploymentAssumption ==
  /\ StatusLifetime \in Nat \ {0} /\ Warn \in Nat
  /\ GateAttempts \in Nat \ {0} /\ WatchAttempts \in Nat \ {0}
  /\ {MaxTime, MaxIssues, MaxLists} \subseteq Nat \ {0}

VARIABLES
  now,
  issues,      \* when each issue was signed; the first by issue_deployment
  lists,       \* the status lists signed so far
  running,     \* the issue each runtime holds
  served,      \* the list on the receiver's volume; 0: missing
  journal,     \* the newest list the receiver process has ingested
  observer,    \* the gate or watch that is being run
  gated,       \* history: the issue a passed observer saw refused when revoked,
               \* by the receiver process of now; 0: none
  assured      \* history: the instant up to which passed watches found authority, for
               \* each issue the primary held when they asked; 0: none

vars == <<now, issues, lists, running, served, journal, observer, gated, assured>>

StatusList == [revoked : SUBSET (DelegationName \X (1..MaxIssues)), updated_at : Nat]

\* What a run of an observer asks, in order.  The isolation contract asks the
\* primary runtime for its own authority first.
Asks ==
  [live_gate |-> << <<"primary", "allow">>, <<"primary", "over_limit">>,
                    <<"primary", "wrong_resource">>, <<"primary", "altered_operation">>,
                    <<"primary", "expired">>, <<"primary", "revoked">>,
                    <<"primary", "replay">>, <<"primary", "wrong_agent">>,
                    <<"primary", "copied_certificate">> >>,
   isolation_gate |-> << <<"primary", "allow">>, <<"secondary", "isolation_own">>,
                         <<"secondary", "isolation_wrong_site">>,
                         <<"secondary", "isolation_borrowed_subject">>,
                         <<"secondary", "isolation_borrowed_certificate">> >>,
   watch |-> << <<"primary", "allow">>, <<"primary", "revoked">> >>]

\* at is the position in Asks, tries the attempts spent on it, ok whether nothing
\* differed so far, refused the issue seen refused when revoked, until the end of
\* the margin a watch found authority for, and seen the issue it was found in.
Observer ==
  [kind : DOMAIN Asks, at : 1..9, tries : Nat, ok : BOOLEAN, refused : Nat,
   until : Nat, seen : Nat]

NoObserver == [kind |-> "none"]

TypeOK ==
  /\ now \in Nat
  /\ issues \in Seq(Nat)
  /\ lists \in Seq(StatusList)
  /\ running \in [Runtime -> 1..Len(issues)]
  /\ served \in 0..Len(lists)
  /\ journal \in 0..Len(lists)
  /\ observer \in Observer \cup {NoObserver}
  /\ gated \in 0..Len(issues)
  /\ assured \in [1..MaxIssues -> Nat]

FirstList(at) == [revoked |-> {<<"revoked", 1>>}, updated_at |-> at]

\* issue_deployment, deployed: material, list, receiver configuration.
Init ==
  /\ now = 0
  /\ issues = <<0>>
  /\ lists = <<FirstList(0)>>
  /\ running = [r \in Runtime |-> 1]
  /\ served = 1
  /\ journal = 0
  /\ observer = NoObserver
  /\ gated = 0
  /\ assured = [i \in 1..MaxIssues |-> 0]

-----------------------------------------------------------------------------
(***************************************************************************)
(* The principal and the operator.                                         *)
(***************************************************************************)
Tick ==
  /\ now < MaxTime
  /\ now' = now + 1
  /\ UNCHANGED <<issues, lists, running, served, journal, observer, gated, assured>>

\* Fault: a list names what is newly revoked only.
PublishOnlyNew(new) ==
  /\ Len(lists) < MaxLists
  /\ lists[Len(lists)].updated_at < now
  /\ lists' = Append(lists, [revoked |-> new, updated_at |-> now])

\* publish: cumulative, and later than the last list.
Publish(new) ==
  /\ Len(lists) < MaxLists
  /\ lists[Len(lists)].updated_at < now
  /\ lists' = Append(lists, [revoked |-> lists[Len(lists)].revoked \cup new,
                             updated_at |-> now])

\* renew_deployment
Renew ==
  /\ Len(issues) < MaxIssues
  /\ issues' = Append(issues, now)
  /\ Publish({<<"revoked", Len(issues) + 1>>})
  /\ UNCHANGED <<now, running, served, journal, observer, gated, assured>>

\* refresh_status
Refresh ==
  /\ Publish({})
  /\ UNCHANGED <<now, issues, running, served, journal, observer, gated, assured>>

\* The rotation script on one runtime, with whatever material directory it is given,
\* that of an older issue too: the primary first; the secondary, with the issue the
\* primary has by then.
Install(runtime, issue) ==
  /\ runtime = "secondary" => issue = running["primary"]
  /\ running' = [running EXCEPT ![runtime] = issue]
  /\ UNCHANGED <<now, issues, lists, served, journal, observer, gated, assured>>

\* The list on the receiver's volume is written by hand: any list, or none.
WriteList(list) ==
  /\ served' = list
  /\ UNCHANGED <<now, issues, lists, running, journal, observer, gated, assured>>

\* The receiver's stores are in memory.
RestartReceiver ==
  /\ journal' = 0
  /\ gated' = 0
  /\ observer' = IF observer = NoObserver THEN observer
                 ELSE [observer EXCEPT !.refused = 0]
  /\ UNCHANGED <<now, issues, lists, running, served, assured>>

-----------------------------------------------------------------------------
(***************************************************************************)
(* Running a scenario.                                                     *)
(***************************************************************************)
\* Signed, current, and not older than the newest list ingested.
Usable(list) ==
  /\ list # 0 /\ journal <= list
  /\ now - lists[list].updated_at <= StatusLifetime

Status == [usable |-> Usable(served),
           revoked |-> IF served = 0 THEN {} ELSE lists[served].revoked]

AnswersNow(runtime, scenario) ==
  Answers(runtime, scenario, running[runtime], issues[running[runtime]], now, Status)

\* Fault: a verification leaves the journal as it was.
IngestNothing(runtime, scenario) == UNCHANGED journal

\* The verification of a run ingests the list it reads; one that is rejected for
\* its proof may or may not get that far.
Ingest(runtime, scenario) ==
  LET reads == ReachesVerification(runtime, scenario) /\ Usable(served)
  IN \/ reads /\ journal' = served
     \/ /\ reads => ProofFaults(Present(Authority(runtime, scenario))) # {}
        /\ UNCHANGED journal

\* A visitor runs a scenario that reaches the verification; other runs leave no trace.
Visit ==
  /\ Usable(served)
  /\ journal' = served
  /\ UNCHANGED <<now, issues, lists, running, served, observer, gated, assured>>

-----------------------------------------------------------------------------
(***************************************************************************)
(* The gates and the watch.                                                *)
(***************************************************************************)
Launch(kind) ==
  /\ observer = NoObserver
  /\ observer' = [kind |-> kind, at |-> 1, tries |-> 0, ok |-> TRUE, refused |-> 0,
                  until |-> 0, seen |-> 0]
  /\ UNCHANGED <<now, issues, lists, running, served, journal, gated, assured>>

Attempts == IF observer.kind = "watch" THEN WatchAttempts ELSE GateAttempts

Asked == Asks[observer.kind][observer.at]

ShownExpiry ==
  LET issue == running[Asked[1]] IN
  PublicFacts(Asked[1], Asked[2], issue, issues[issue]).delegation_expires_at

\* Fault: authority that has not lapsed is enough.
PassesLapsing(answer) ==
  IF observer.kind # "watch" THEN answer = Required[Asked[2]]
  ELSE IF Asked[2] = "allow" THEN answer.decision = "ALLOW"
  ELSE answer.reason = "DENY_REVOKED" /\ ~ answer.handler_invoked

\* A gate compares the five fields of the contract; the watch wants the allow
\* case allowed with its margin of authority left, and the revoked one refused.
Passes(answer) ==
  IF observer.kind # "watch" THEN answer = Required[Asked[2]]
  ELSE IF Asked[2] = "allow"
  THEN answer.decision = "ALLOW" /\ ShownExpiry - now >= Warn
  ELSE answer.reason = "DENY_REVOKED" /\ ~ answer.handler_invoked

\* A watch asks for the margin of the primary's authority.
FindsMargin == observer.kind = "watch" /\ Asked[2] = "allow"

\* The observer with one more answer compared.
Heard(answer) ==
  [observer EXCEPT
     !.tries = 0, !.ok = @ /\ Passes(answer),
     !.refused = IF Asked[2] = "revoked" THEN running["primary"] ELSE @,
     !.until = IF FindsMargin THEN now + Warn ELSE @,
     !.seen = IF FindsMargin THEN running["primary"] ELSE @]

\* A decision is final: it is compared and the next scenario asked, or the run ends.
\* Passing takes every scenario asked and none differing.
Compare ==
  /\ observer # NoObserver
  /\ UNCHANGED <<now, issues, lists, running, served>>
  /\ Ingest(Asked[1], Asked[2])
  /\ \E answer \in AnswersNow(Asked[1], Asked[2]) :
       LET heard == Heard(answer) IN
       IF observer.at < Len(Asks[observer.kind])
       THEN /\ observer' = [heard EXCEPT !.at = @ + 1]
            /\ UNCHANGED <<gated, assured>>
       ELSE /\ observer' = NoObserver
            /\ gated' = IF heard.ok /\ heard.refused # 0 THEN heard.refused ELSE gated
            /\ assured' = [i \in 1..MaxIssues |->
                             IF heard.ok /\ heard.seen = i /\ heard.until > assured[i]
                             THEN heard.until ELSE assured[i]]

\* Fault: an attempt that stalls is not counted.
StallUncounted ==
  /\ observer # NoObserver
  /\ Ingest(Asked[1], Asked[2]) \/ UNCHANGED journal
  /\ UNCHANGED <<observer, now, issues, lists, running, served, gated, assured>>

\* No decision: a timeout or a 502, whatever the deployment did.  It is asked again
\* after a pause, or the run ends without a verdict.
Stall ==
  /\ observer # NoObserver
  /\ UNCHANGED <<now, issues, lists, running, served, gated, assured>>
  /\ Ingest(Asked[1], Asked[2]) \/ UNCHANGED journal
  /\ observer' = IF observer.tries + 1 < Attempts
                 THEN [observer EXCEPT !.tries = @ + 1] ELSE NoObserver

\* Any other status, such as the proxy's 429: a gate ends at once; the watch takes
\* it for a stall.
Error ==
  /\ observer # NoObserver /\ observer.kind # "watch"
  /\ observer' = NoObserver
  /\ UNCHANGED <<now, issues, lists, running, served, journal, gated, assured>>

Observe == Stall \/ Compare \/ Error

Operate ==
  \/ Tick \/ Renew \/ Refresh \/ RestartReceiver
  \/ \E r \in Runtime, issue \in 1..Len(issues) : Install(r, issue)
  \/ \E list \in 0..Len(lists) : WriteList(list)

Next ==
  \/ Operate \/ Visit
  \/ \E kind \in DOMAIN Asks : Launch(kind)
  \/ Observe

Spec == Init /\ [][Next]_vars

\* A gate or watch goes on until it ends; nothing is asked of anybody else.
FairSpec == Spec /\ WF_vars(Observe)

-----------------------------------------------------------------------------
(***************************************************************************)
(* Properties.                                                             *)
(***************************************************************************)
\* The runtime's material and the list on the receiver's volume fit: the list is
\* usable and names the revoked fixture of the material, which has not lapsed.
InForce(r) ==
  /\ Usable(served)
  /\ <<"revoked", running[r]>> \in lists[served].revoked
  /\ now < issues[running[r]] + Validity

\* While a runtime's material is in force, each of its scenarios can only be answered
\* as the contracts require, layer and status included: a deployment issued afresh
\* reproduces them, and so does one that was renewed, rotated and served its new list.
MeetsContract ==
  \A r \in Runtime : InForce(r) =>
    \A s \in Supported[r] : AnswersNow(r, s) = {Required[s]}

\* docs/CREDENTIAL-ROTATION.md: skipping the status write "is still a silent failure
\* for up to a day".  Whatever lists are written in whatever order, across restarts,
\* the revoked scenario is the only adversarial one that can ever be allowed, and not
\* once a list's lifetime has passed since the material was renewed.
OnlyRevokedSlips ==
  \A r \in Runtime : \A s \in Supported[r] :
    (\E a \in AnswersNow(r, s) : a.decision = "ALLOW") =>
      \/ Required[s].decision = "ALLOW"
      \/ s = "revoked" /\ now < issues[running[r]] + StatusLifetime

\* The live gates "are what catch the silent case": once a gate or watch passed, the
\* receiver process that answered it never allows the revoked fixture of the issue it
\* was asked about, even if an older list is put back on the volume.
GatedIssueStaysDenied ==
  gated = running["primary"] =>
    \A a \in AnswersNow("primary", "revoked") : a.decision = "DENY"

\* scripts/watch_demo_credential.py: it "fails while there is still time to rotate".
\* After a watch passed, the primary's own authority does not lapse within the margin,
\* whatever is renewed, rotated (back and forth) or restarted since, unless the primary
\* then holds material older than what the watch was answered from.
WatchedAuthorityLasts ==
  (\E a \in AnswersNow("primary", "allow") : a.reason = "DENY_EXPIRED") =>
    \A i \in 1..running["primary"] : now >= assured[i]

\* What a response shows beside the decision explains it: amounts, sites and expiry
\* contradict neither an ALLOW nor the bound a denial names, for misheld and expired
\* certificates as well.
FactsExplainAnswers ==
  \A r \in Runtime : \A s \in Supported[r] : \A a \in AnswersNow(r, s) :
    LET f == PublicFacts(r, s, running[r], issues[running[r]])
        exceeds == f.requested_amount_minor > f.authorized_max_amount_minor
        astray  == f.requested_resource # f.delegation_resource
        lapsed  == f.delegation_expires_at <= now
    IN /\ a.reason = "DENY_LIMIT_EXCEEDED" => exceeds
       /\ a.reason = "DENY_RESOURCE_MISMATCH" => astray
       /\ a.reason = "DENY_EXPIRED" => lapsed
       /\ a.decision = "ALLOW" => ~ exceeds /\ ~ astray /\ ~ lapsed

\* The walkthrough illustrates what the deployment would have done: for a runtime
\* in force its layer, reason, amounts, sites and lapse are those of a live answer.
\* (It says "invalid" where a live answer names the error class of the proof.)
WalkthroughIllustrates ==
  \A r \in Runtime : InForce(r) =>
    \A s \in Supported[r] : \A a \in AnswersNow(r, s) :
      LET w == WalkthroughAnswer(s)
          f == PublicFacts(r, s, running[r], issues[running[r]])
      IN /\ w.reason = a.reason /\ w.decided_by = a.decided_by
         /\ w.handler_invoked = a.handler_invoked
         /\ \A field \in DOMAIN WalkthroughFacts(s) : f[field] = WalkthroughFacts(s)[field]
         /\ WalkthroughLapsed(s) <=> f.delegation_expires_at <= now

\* A gate or watch ends, even if the deployment only stalls.
ObserversEnd == observer # NoObserver ~> observer = NoObserver
=============================================================================

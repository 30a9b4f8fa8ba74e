------------------------------ MODULE Rotation ------------------------------
(***************************************************************************)
(* Rotation of deployment authority: the operator's script                 *)
(* (scripts/rotate_deployment_authority.py) and the agent runtimes that    *)
(* read their material on startup (AgentSettings in agent_runtime.py).     *)
(*                                                                         *)
(* A runtime's two artifacts are on its volume, their expected digests in  *)
(* its environment.  The script writes and reads back every artifact, then *)
(* for each runtime sets both digests and redeploys, then waits for        *)
(* health.  The platform may stop and start a runtime at any time, and the *)
(* script may fail anywhere and be run again, with the same, newer or      *)
(* older material.  An artifact or digest is named by its issue: the       *)
(* number of the renewal it is from.                                       *)
(*                                                                         *)
(* The platform is external: a deploy stops the old process before it      *)
(* returns, one "env set" is atomic, and reading back needs no process.    *)
(***************************************************************************)
EXTENDS Integers, Sequences

CONSTANTS
  Runtimes,   \* RUNTIMES, a sequence
  MaxIssue,   \* bound: renewals
  MaxFaults,  \* bound: failures of the script, its writes and the processes, and
              \* runs with material that is not newer
  Garbled     \* an artifact that was not written whole

Runtime  == {Runtimes[i] : i \in DOMAIN Runtimes}
Artifact == {"delegation", "authorities"}
Issue    == 0..MaxIssue

ASSUME RotationAssumption ==
  /\ MaxIssue \in Nat \ {0} /\ MaxFaults \in Nat
  /\ Garbled \notin Issue
  /\ Runtimes \in Seq(Runtime) /\ Runtimes # << >>
  /\ \A i, j \in DOMAIN Runtimes : Runtimes[i] = Runtimes[j] => i = j

\* planned: every artifact of every runtime, in the order they are written.
Planned ==
  [i \in 1..(2 * Len(Runtimes)) |->
     [runtime |-> Runtimes[(i + 1) \div 2],
      artifact |-> IF i % 2 = 1 THEN "delegation" ELSE "authorities"]]

VARIABLES
  volume,    \* what is on each runtime's volume
  expected,  \* the digests in each runtime's environment
  process,   \* each runtime's process, with the environment it started in
  script,    \* the operator's run: stage, the issue it installs, its position
  faults

vars == <<volume, expected, process, script, faults>>

Script == [stage : {"idle", "writing", "confirming", "setting", "restarting",
                    "waiting", "done", "failed"},
           issue : Issue, at : 1..(2 * Len(Runtimes))]

Process == [stage : {"down", "starting", "up"}, expects : [Artifact -> Issue],
            held : [Artifact -> Issue]]

TypeOK ==
  /\ volume \in [Runtime -> [Artifact -> Issue \cup {Garbled}]]
  /\ expected \in [Runtime -> [Artifact -> Issue]]
  /\ process \in [Runtime -> Process]
  /\ script \in Script
  /\ faults \in 0..MaxFaults

Pair(issue) == [a \in Artifact |-> issue]

Init ==
  /\ volume = [r \in Runtime |-> Pair(0)]
  /\ expected = [r \in Runtime |-> Pair(0)]
  /\ process = [r \in Runtime |->
                  [stage |-> "up", expects |-> Pair(0), held |-> Pair(0)]]
  /\ script = [stage |-> "idle", issue |-> 0, at |-> 1]
  /\ faults = 0

-----------------------------------------------------------------------------
(***************************************************************************)
(* The script.                                                             *)
(***************************************************************************)
Fault == faults < MaxFaults /\ faults' = faults + 1

Stage(stage, at) == script' = [script EXCEPT !.stage = stage, !.at = at]

\* The operator runs it on the material of a renewal.
Start(issue) ==
  /\ script.stage \in {"idle", "failed", "done"}
  /\ script' = [stage |-> "writing", issue |-> issue, at |-> 1]
  /\ UNCHANGED <<volume, expected, process>>

\* With newer material, or again what failed: the rotation that is meant to be run.
Launch(issue) ==
  /\ issue >= script.issue /\ issue > 0
  /\ script.stage = "done" => issue > script.issue
  /\ Start(issue)
  /\ UNCHANGED faults

\* The script does not compare the material with what runs: an older renewal's, or
\* the same once more.
LaunchAny(issue) == Start(issue) /\ Fault

\* _write: acknowledged, and yet possibly not what was sent.
Write ==
  LET p == Planned[script.at] IN
  /\ script.stage = "writing"
  /\ \/ /\ volume' = [volume EXCEPT ![p.runtime][p.artifact] = script.issue]
        /\ UNCHANGED faults
     \/ /\ volume' = [volume EXCEPT ![p.runtime][p.artifact] = Garbled]
        /\ Fault
  /\ Stage("confirming", script.at)
  /\ UNCHANGED <<expected, process>>

\* Fault: whatever is read back is confirmed.
ConfirmAnything ==
  /\ script.stage = "confirming"
  /\ IF script.at < Len(Planned) THEN Stage("writing", script.at + 1)
     ELSE Stage("setting", 1)
  /\ UNCHANGED <<volume, expected, process, faults>>

\* _observed_digest against the digest of what was to be written.
Confirm ==
  LET p == Planned[script.at] IN
  /\ script.stage = "confirming"
  /\ IF volume[p.runtime][p.artifact] # script.issue THEN Stage("failed", 1)
     ELSE IF script.at < Len(Planned) THEN Stage("writing", script.at + 1)
     ELSE Stage("setting", 1)
  /\ UNCHANGED <<volume, expected, process, faults>>

\* Fault: only the delegation's digest is set.
SetDelegationDigest ==
  /\ script.stage = "setting"
  /\ expected' = [expected EXCEPT ![Runtimes[script.at]]["delegation"] = script.issue]
  /\ Stage("restarting", script.at)
  /\ UNCHANGED <<volume, process, faults>>

\* _set_environment: both digests at once.
SetEnvironment ==
  /\ script.stage = "setting"
  /\ expected' = [expected EXCEPT ![Runtimes[script.at]] = Pair(script.issue)]
  /\ Stage("restarting", script.at)
  /\ UNCHANGED <<volume, process, faults>>

AfterRestart ==
  IF script.at < Len(Runtimes) THEN Stage("setting", script.at + 1)
  ELSE Stage("waiting", 1)

\* Fault: the process keeps running in its old environment.
RestartNothing ==
  /\ script.stage = "restarting"
  /\ AfterRestart
  /\ UNCHANGED <<volume, expected, process, faults>>

\* _restart
Restart ==
  /\ script.stage = "restarting"
  /\ process' = [process EXCEPT ![Runtimes[script.at]].stage = "down"]
  /\ AfterRestart
  /\ UNCHANGED <<volume, expected, faults>>

\* _await_health: the next runtime answers; after the last the script is done.
AwaitHealth ==
  /\ script.stage = "waiting"
  /\ process[Runtimes[script.at]].stage = "up"
  /\ IF script.at < Len(Runtimes) THEN Stage("waiting", script.at + 1)
     ELSE Stage("done", 1)
  /\ UNCHANGED <<volume, expected, process, faults>>

\* No health in time, an error of the file API or the platform's command, or a
\* script that is killed.
Fail ==
  /\ script.stage \notin {"idle", "failed", "done"}
  /\ Stage("failed", 1)
  /\ Fault
  /\ UNCHANGED <<volume, expected, process>>

-----------------------------------------------------------------------------
(***************************************************************************)
(* A runtime reads and verifies one artifact after the other, against the  *)
(* environment it was started in.                                          *)
(***************************************************************************)
\* Fault: the bytes are used whatever their digest.
Unverified(r, artifact, expects) == volume[r][artifact] # Garbled

\* _read_verified
Verified(r, artifact, expects) == volume[r][artifact] = expects[artifact]

ReadDelegation(r) ==
  /\ process[r].stage = "down"
  /\ Verified(r, "delegation", expected[r])
  /\ process' = [process EXCEPT ![r] =
       [stage |-> "starting", expects |-> expected[r],
        held |-> [@.held EXCEPT !["delegation"] = volume[r]["delegation"]]]]
  /\ UNCHANGED <<volume, expected, script, faults>>

\* A mismatch ends the process.
ReadAuthorities(r) ==
  /\ process[r].stage = "starting"
  /\ process' = [process EXCEPT ![r] =
       IF Verified(r, "authorities", @.expects)
       THEN [@ EXCEPT !.stage = "up",
                      !.held["authorities"] = volume[r]["authorities"]]
       ELSE [@ EXCEPT !.stage = "down"]]
  /\ UNCHANGED <<volume, expected, script, faults>>

\* The platform puts a runtime to sleep, or its process dies.
Stop(r) ==
  /\ process[r].stage # "down"
  /\ process' = [process EXCEPT ![r].stage = "down"]
  /\ Fault
  /\ UNCHANGED <<volume, expected, script>>

ScriptStep ==
  Write \/ Confirm \/ SetEnvironment \/ Restart \/ AwaitHealth

RuntimeStep(r) == ReadDelegation(r) \/ ReadAuthorities(r)

Next ==
  \/ \E issue \in Issue : Launch(issue) \/ LaunchAny(issue)
  \/ ScriptStep \/ Fail
  \/ \E r \in Runtime : RuntimeStep(r) \/ Stop(r)

Spec == Init /\ [][Next]_vars

\* The operator runs a failed script again and, in the end, one with the newest
\* material; the script goes on, and the platform starts a process that is down.
FairSpec ==
  /\ Spec
  /\ WF_vars(\E issue \in Issue : Launch(issue))
  /\ WF_vars(ScriptStep)
  /\ \A r \in Runtime : WF_vars(RuntimeStep(r))

-----------------------------------------------------------------------------
(***************************************************************************)
(* Properties.                                                             *)
(***************************************************************************)

\* A running agent never combines a delegation and a fixture of two renewals, even
\* if it started while the script was writing, failed half-way or was run again
\* with newer or older material.
MaterialIsOfOneIssue ==
  \A r \in Runtime :
    process[r].stage = "up" =>
      process[r].held["delegation"] = process[r].held["authorities"]

\* "Only once every artifact is confirmed on its volume is it safe to move the
\* expected digests": a digest moves only when all volumes hold what it names.
DigestsFollowVolumes ==
  [][\A r \in Runtime :
       expected'[r] # expected[r] =>
         \A q \in Runtime : volume[q] = expected'[r]]_vars

\* When the script reports that it rotated, every runtime that is up runs on the
\* new material, and one that is restarted later comes up with it.
DoneMeansRotated ==
  script.stage = "done" =>
    \A r \in Runtime :
      /\ volume[r] = Pair(script.issue) /\ expected[r] = Pair(script.issue)
      /\ process[r].stage = "up" => process[r].held = Pair(script.issue)

\* Running the script again repairs whatever a failure left behind: in the end
\* every runtime is up on the material of the last issue.
RotationRecovers ==
  <>[](\A r \in Runtime :
         process[r].stage = "up" /\ process[r].held = Pair(MaxIssue))
=============================================================================

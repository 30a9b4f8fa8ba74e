--------------------------- MODULE RotationProofs ---------------------------
(***************************************************************************)
(* Proofs about Rotation, for any runtimes, renewals and faults.           *)
(***************************************************************************)
EXTENDS Rotation, TLAPS

Last == Len(Runtimes)

\* The artifacts confirmed so far: those planned before the current one, and all of
\* them once digests are being set.
Confirmed(i) ==
  \/ script.stage \in {"writing", "confirming"} /\ i < script.at
  \/ script.stage \in {"setting", "restarting", "waiting", "done"}

\* The runtimes whose digests are set, and those restarted since.
DigestsSet(i) ==
  \/ script.stage = "setting" /\ i < script.at
  \/ script.stage = "restarting" /\ i <= script.at
  \/ script.stage \in {"waiting", "done"}

Restarted(i) ==
  \/ script.stage \in {"setting", "restarting"} /\ i < script.at
  \/ script.stage \in {"waiting", "done"}

RType ==
  /\ volume \in [Runtime -> [Artifact -> Issue \cup {Garbled}]]
  /\ expected \in [Runtime -> [Artifact -> Issue]]
  /\ process \in [Runtime -> Process]
  /\ script \in Script
  /\ script.stage \in {"setting", "restarting", "waiting"} => script.at <= Last

\* Digests are set in pairs, so what a process expects is of one issue; it holds
\* what it expects.
ProcessesConsistent ==
  \A r \in Runtime :
    LET p == process[r] IN
    /\ expected[r]["delegation"] = expected[r]["authorities"]
    /\ p.stage # "down" =>
         /\ p.expects["delegation"] = p.expects["authorities"]
         /\ p.held["delegation"] = p.expects["delegation"]
    /\ p.stage = "up" => p.held["authorities"] = p.expects["authorities"]

\* How far the script got.
ScriptFaithful ==
  /\ \A i \in 1..(2 * Last) :
       Confirmed(i) =>
         volume[Planned[i].runtime][Planned[i].artifact] = script.issue
  /\ \A i \in 1..Last :
       /\ DigestsSet(i) => expected[Runtimes[i]] = Pair(script.issue)
       /\ Restarted(i) /\ process[Runtimes[i]].stage # "down" =>
            process[Runtimes[i]].expects = Pair(script.issue)

RInv == RType /\ ProcessesConsistent /\ ScriptFaithful

-----------------------------------------------------------------------------
LEMMA RuntimesListed ==
  /\ Last \in Nat \ {0}
  /\ DOMAIN Runtimes = 1..Last
  /\ \A i \in 1..Last : Runtimes[i] \in Runtime
  /\ \A r \in Runtime : \E i \in 1..Last : r = Runtimes[i]
  /\ \A i, j \in 1..Last : Runtimes[i] = Runtimes[j] => i = j
BY RotationAssumption DEF Last, Runtime

\* Every artifact of every runtime is planned, and planned once.
LEMMA PlannedTwice ==
  /\ \A i \in 1..(2 * Last) :
       Planned[i].runtime \in Runtime /\ Planned[i].artifact \in Artifact
  /\ \A i, j \in 1..(2 * Last) : Planned[i] = Planned[j] => i = j
  /\ \A r \in Runtime, a \in Artifact :
       \E i \in 1..(2 * Last) : Planned[i].runtime = r /\ Planned[i].artifact = a
<1>1. Last \in Nat \ {0} /\ Planned =
        [i \in 1..(2 * Last) |->
           [runtime |-> Runtimes[(i + 1) \div 2],
            artifact |-> IF i % 2 = 1 THEN "delegation" ELSE "authorities"]]
  BY RuntimesListed DEF Planned, Last
<1>2. \A i \in 1..(2 * Last) : (i + 1) \div 2 \in 1..Last
  BY <1>1
<1>3. \A i, j \in 1..(2 * Last) :
        (i + 1) \div 2 = (j + 1) \div 2 /\ (i % 2 = 1 <=> j % 2 = 1) => i = j
  <2>1. \A i \in Nat : i = 2 * ((i + 1) \div 2) - (i % 2) /\ i % 2 \in {0, 1}
    OBVIOUS
  <2> QED BY <1>1, <2>1
<1>4. \A i \in 1..(2 * Last) :
        Planned[i].runtime \in Runtime /\ Planned[i].artifact \in Artifact
  BY <1>1, <1>2, RuntimesListed DEF Artifact
<1>5. ASSUME NEW i \in 1..(2 * Last), NEW j \in 1..(2 * Last), Planned[i] = Planned[j]
      PROVE  i = j
  <2>1. Runtimes[(i + 1) \div 2] = Runtimes[(j + 1) \div 2]
    BY <1>1, <1>5
  <2>2. i % 2 = 1 <=> j % 2 = 1
    BY <1>1, <1>5
  <2> QED BY <1>2, <1>3, <2>1, <2>2, RuntimesListed
<1>6. ASSUME NEW r \in Runtime, NEW a \in Artifact
      PROVE  \E i \in 1..(2 * Last) : Planned[i].runtime = r /\ Planned[i].artifact = a
  <2>1. PICK k \in 1..Last : r = Runtimes[k]
    BY RuntimesListed
  <2>2. /\ 2 * k - 1 \in 1..(2 * Last) /\ ((2 * k - 1) + 1) \div 2 = k /\ (2 * k - 1) % 2 = 1
        /\ 2 * k \in 1..(2 * Last) /\ (2 * k + 1) \div 2 = k /\ (2 * k) % 2 # 1
    BY <1>1
  <2>3. CASE a = "delegation"
    <3>1. Planned[2 * k - 1].runtime = r /\ Planned[2 * k - 1].artifact = a
      BY <1>1, <2>1, <2>2, <2>3
    <3> QED BY <2>2, <3>1
  <2>4. CASE a = "authorities"
    <3>1. Planned[2 * k].runtime = r /\ Planned[2 * k].artifact = a
      BY <1>1, <2>1, <2>2, <2>4
    <3> QED BY <2>2, <3>1
  <2> QED BY <2>3, <2>4 DEF Artifact
<1> QED BY <1>4, <1>5, <1>6

\* Once every artifact is confirmed, all volumes hold the issue.
LEMMA AllConfirmed ==
  ASSUME RInv, \A i \in 1..(2 * Last) : Confirmed(i)
  PROVE  \A r \in Runtime : volume[r] = Pair(script.issue)
<1> SUFFICES ASSUME NEW r \in Runtime PROVE volume[r] = Pair(script.issue)
  OBVIOUS
<1>1. \A a \in Artifact : volume[r][a] = script.issue
  BY PlannedTwice DEF RInv, ScriptFaithful
<1>2. volume[r] = [a \in Artifact |-> volume[r][a]]
  BY DEF RInv, RType
<1> QED BY <1>1, <1>2 DEF Pair

LEMMA RInvInit == Init => RInv
<1> SUFFICES ASSUME Init PROVE RInv
  OBVIOUS
<1>1. 0 \in Issue /\ 1 \in 1..(2 * Last)
  BY RuntimesListed, RotationAssumption DEF Issue
<1>2. RType
  BY <1>1 DEF Init, RType, Pair, Process, Script, Last
<1>3. ProcessesConsistent
  BY DEF Init, ProcessesConsistent, Pair, Artifact
<1>4. ScriptFaithful
  BY DEF Init, ScriptFaithful, Confirmed, DigestsSet, Restarted
<1> QED BY <1>2, <1>3, <1>4 DEF RInv

\* The script moves on: a stage is left with what it had to do done.
LEMMA StageStep ==
  ASSUME RInv, NEW stage, NEW at \in 1..(2 * Last), Stage(stage, at),
         UNCHANGED <<volume, expected, process>>,
         stage \in {"idle", "writing", "confirming", "setting", "restarting",
                    "waiting", "done", "failed"},
         stage \in {"setting", "restarting", "waiting"} => at <= Last,
         \A i \in 1..(2 * Last) :
           Confirmed(i)' =>
             volume[Planned[i].runtime][Planned[i].artifact] = script.issue,
         \A i \in 1..Last :
           /\ DigestsSet(i)' => expected[Runtimes[i]] = Pair(script.issue)
           /\ Restarted(i)' => Restarted(i) \/ process[Runtimes[i]].stage = "down"
  PROVE  RInv'
<1>1. script' = [script EXCEPT !.stage = stage, !.at = at] /\ script \in Script
  BY DEF Stage, RInv, RType
<1>2. script' \in Script /\ script'.stage = stage /\ script'.at = at
      /\ script'.issue = script.issue
  BY <1>1 DEF Script, Last
<1>3. RType'
  BY <1>2 DEF RInv, RType
<1>4. ProcessesConsistent'
  BY DEF RInv, ProcessesConsistent
<1>5. ScriptFaithful'
  BY <1>2 DEF RInv, ScriptFaithful
<1> QED BY <1>3, <1>4, <1>5 DEF RInv

LEMMA WriteStep == ASSUME RInv, Write PROVE RInv'
<1> DEFINE p == Planned[script.at]
<1>1. script \in Script /\ script.at \in 1..(2 * Last) /\ script.stage = "writing"
  BY DEF RInv, RType, Script, Write, Last
<1>2. p.runtime \in Runtime /\ p.artifact \in Artifact
  BY <1>1, PlannedTwice
<1>3. /\ script' = [script EXCEPT !.stage = "confirming"]
      /\ UNCHANGED <<expected, process>>
  BY <1>1 DEF Write, Stage, Script
<1>4. PICK x \in Issue \cup {Garbled} :
        volume' = [volume EXCEPT ![p.runtime][p.artifact] = x]
  BY <1>1 DEF Write, Script
<1>5. /\ script' \in Script /\ script'.stage = "confirming"
      /\ script'.at = script.at /\ script'.issue = script.issue
  BY <1>1, <1>3 DEF Script
<1>6. RType'
  <2>1. volume' \in [Runtime -> [Artifact -> Issue \cup {Garbled}]]
    BY <1>2, <1>4 DEF RInv, RType
  <2> QED BY <1>3, <1>5, <2>1 DEF RInv, RType
<1>7. ProcessesConsistent'
  BY <1>3 DEF RInv, ProcessesConsistent
<1>8. ScriptFaithful'
  <2>1. ASSUME NEW i \in 1..(2 * Last), Confirmed(i)'
        PROVE  volume'[Planned[i].runtime][Planned[i].artifact] = script'.issue
    <3>1. Confirmed(i) /\ i # script.at
      BY <1>1, <1>5, <2>1 DEF Confirmed
    <3>2. volume[Planned[i].runtime][Planned[i].artifact] = script.issue
      BY <3>1 DEF RInv, ScriptFaithful
    <3>3. Planned[i].runtime # p.runtime \/ Planned[i].artifact # p.artifact
      <4>1. Planned[i] # p
        BY <1>1, <3>1, PlannedTwice
      <4>2. \A j \in 1..(2 * Last) :
              Planned[j] = [runtime |-> Planned[j].runtime,
                            artifact |-> Planned[j].artifact]
        BY DEF Planned, Last
      <4> QED BY <1>1, <4>1, <4>2
    <3>4. Planned[i].runtime \in Runtime /\ Planned[i].artifact \in Artifact
      BY PlannedTwice
    <3>5. volume'[Planned[i].runtime][Planned[i].artifact]
            = volume[Planned[i].runtime][Planned[i].artifact]
      BY <1>2, <1>4, <3>3, <3>4 DEF RInv, RType
    <3> QED BY <1>5, <3>2, <3>5
  <2>2. \A i \in 1..Last : ~ DigestsSet(i)' /\ ~ Restarted(i)'
    BY <1>5 DEF DigestsSet, Restarted
  <2> QED BY <2>1, <2>2 DEF ScriptFaithful
<1> QED BY <1>6, <1>7, <1>8 DEF RInv

LEMMA ConfirmStep == ASSUME RInv, Confirm PROVE RInv'
<1> DEFINE p == Planned[script.at]
<1>1. script.at \in 1..(2 * Last) /\ script.stage = "confirming" /\ Len(Planned) = 2 * Last
  BY RuntimesListed DEF RInv, RType, Script, Confirm, Last, Planned
<1>2. Last \in Nat \ {0} /\ 1 \in 1..(2 * Last) /\ 1 <= Last
  BY RuntimesListed
<1>3. CASE Stage("failed", 1)
  <2>1. script'.stage = "failed"
    BY <1>3 DEF Stage, RInv, RType, Script
  <2> QED
    BY <1>2, <1>3, <2>1, StageStep DEF Confirm, Confirmed, DigestsSet, Restarted
<1>4. CASE volume[p.runtime][p.artifact] = script.issue
  <2>1. \A i \in 1..(2 * Last) :
          i <= script.at => volume[Planned[i].runtime][Planned[i].artifact] = script.issue
    BY <1>1, <1>4 DEF RInv, ScriptFaithful, Confirmed
  <2>2. CASE script.at < 2 * Last /\ Stage("writing", script.at + 1)
    <3>1. script'.stage = "writing" /\ script'.at = script.at + 1
      BY <2>2 DEF Stage, RInv, RType, Script
    <3>2. script.at + 1 \in 1..(2 * Last)
      BY <1>1, <2>2, RuntimesListed
    <3>3. \A i \in 1..(2 * Last) : Confirmed(i)' => i <= script.at
      BY <1>1, <3>1 DEF Confirmed
    <3>4. \A i \in 1..Last : ~ DigestsSet(i)' /\ ~ Restarted(i)'
      BY <3>1 DEF DigestsSet, Restarted
    <3> QED BY <2>1, <2>2, <3>2, <3>3, <3>4, StageStep DEF Confirm
  <2>3. CASE ~ (script.at < 2 * Last) /\ Stage("setting", 1)
    <3>1. script'.stage = "setting" /\ script'.at = 1
      BY <2>3 DEF Stage, RInv, RType, Script
    <3>2. \A i \in 1..(2 * Last) : i <= script.at
      BY <1>1, <1>2, <2>3
    <3>3. \A i \in 1..Last : ~ DigestsSet(i)' /\ ~ Restarted(i)'
      BY <3>1 DEF DigestsSet, Restarted
    <3> QED BY <1>2, <2>1, <2>3, <3>2, <3>3, StageStep DEF Confirm
  <2> QED BY <1>1, <1>4, <2>2, <2>3 DEF Confirm
<1> QED BY <1>3, <1>4 DEF Confirm

LEMMA SetEnvironmentStep == ASSUME RInv, SetEnvironment PROVE RInv'
<1> DEFINE n == script.at
           r0 == Runtimes[n]
<1>1. /\ script \in Script /\ script.stage = "setting" /\ n \in 1..Last
      /\ script.issue \in Issue /\ r0 \in Runtime
  BY RuntimesListed DEF RInv, RType, Script, SetEnvironment
<1>2. /\ script' \in Script /\ script'.stage = "restarting"
      /\ script'.at = n /\ script'.issue = script.issue
  BY <1>1 DEF SetEnvironment, Stage, Script
<1>3. /\ expected' = [expected EXCEPT ![r0] = Pair(script.issue)]
      /\ UNCHANGED <<volume, process>>
  BY DEF SetEnvironment
<1>4. Pair(script.issue) \in [Artifact -> Issue]
  BY <1>1 DEF Pair
<1>5. RType'
  BY <1>1, <1>2, <1>3, <1>4 DEF RInv, RType
<1>6. /\ expected'[r0] = Pair(script.issue)
      /\ \A r \in Runtime : r # r0 => expected'[r] = expected[r]
  BY <1>1, <1>3 DEF RInv, RType
<1>7. ProcessesConsistent'
  BY <1>3, <1>6 DEF RInv, ProcessesConsistent, Pair, Artifact
<1>8. ScriptFaithful'
  <2>1. \A i \in 1..(2 * Last) : Confirmed(i)' => Confirmed(i)
    BY <1>1 DEF Confirmed
  <2>2. \A i \in 1..Last : Restarted(i)' => Restarted(i)
    BY <1>1, <1>2 DEF Restarted
  <2>3. ASSUME NEW i \in 1..Last, DigestsSet(i)'
        PROVE  expected'[Runtimes[i]] = Pair(script'.issue)
    <3>1. i = n \/ DigestsSet(i)
      BY <1>1, <1>2, <2>3 DEF DigestsSet
    <3>2. Runtimes[i] \in Runtime
      BY RuntimesListed
    <3> QED BY <1>2, <1>6, <3>1, <3>2 DEF RInv, ScriptFaithful
  <2> QED BY <1>2, <1>3, <2>1, <2>2, <2>3 DEF RInv, ScriptFaithful
<1> QED BY <1>5, <1>7, <1>8 DEF RInv

LEMMA RestartStep == ASSUME RInv, Restart PROVE RInv'
<1> DEFINE n == script.at
           r0 == Runtimes[n]
<1>1. /\ script \in Script /\ script.stage = "restarting" /\ n \in 1..Last
      /\ r0 \in Runtime /\ Last \in Nat
  BY RuntimesListed DEF RInv, RType, Script, Restart
<1>2. /\ process' = [process EXCEPT ![r0].stage = "down"]
      /\ UNCHANGED <<volume, expected>>
      /\ AfterRestart
  BY DEF Restart
<1>3. /\ process'[r0] = [process[r0] EXCEPT !.stage = "down"]
      /\ process'[r0].stage = "down"
      /\ \A r \in Runtime : r # r0 => process'[r] = process[r]
      /\ process' \in [Runtime -> Process]
  BY <1>1, <1>2 DEF RInv, RType, Process
<1>4. /\ script' \in Script /\ script'.issue = script.issue
      /\ \/ script'.stage = "setting" /\ script'.at = n + 1 /\ n + 1 <= Last
         \/ script'.stage = "waiting" /\ script'.at = 1 /\ n = Last
  <2>1. ASSUME NEW stage \in {"setting", "waiting"}, NEW at \in 1..Last, Stage(stage, at)
        PROVE  /\ script' \in Script /\ script'.issue = script.issue
               /\ script'.stage = stage /\ script'.at = at
    <3>1. at \in 1..(2 * Last)
      BY <1>1
    <3> QED BY <1>1, <2>1, <3>1 DEF Stage, Script, Last
  <2>2. CASE n < Last /\ Stage("setting", n + 1)
    <3>1. n + 1 \in 1..Last /\ n + 1 <= Last
      BY <1>1, <2>2
    <3> QED BY <2>1, <2>2, <3>1
  <2>3. CASE ~ (n < Last) /\ Stage("waiting", 1)
    <3>1. 1 \in 1..Last /\ n = Last
      BY <1>1, <2>3
    <3> QED BY <2>1, <2>3, <3>1
  <2> QED BY <1>2, <2>2, <2>3 DEF AfterRestart, Last
<1>5. RType'
  BY <1>1, <1>2, <1>3, <1>4 DEF RInv, RType
<1>6. ProcessesConsistent'
  BY <1>2, <1>3 DEF RInv, ProcessesConsistent
<1>7. ScriptFaithful'
  <2>1. \A i \in 1..(2 * Last) : Confirmed(i)
    BY <1>1 DEF Confirmed
  <2>2. \A i \in 1..Last : DigestsSet(i)' => DigestsSet(i)
    BY <1>1, <1>4 DEF DigestsSet
  <2>3. ASSUME NEW i \in 1..Last, Restarted(i)', process'[Runtimes[i]].stage # "down"
        PROVE  process'[Runtimes[i]].expects = Pair(script'.issue)
    <3>1. Runtimes[i] # r0 /\ Runtimes[i] \in Runtime
      BY <1>3, <2>3, RuntimesListed
    <3>2. Restarted(i)
      BY <1>1, <1>4, <2>3, <3>1 DEF Restarted
    <3> QED BY <1>3, <1>4, <2>3, <3>1, <3>2 DEF RInv, ScriptFaithful
  <2> QED BY <1>2, <1>4, <2>1, <2>2, <2>3 DEF RInv, ScriptFaithful
<1> QED BY <1>5, <1>6, <1>7 DEF RInv

LEMMA AwaitHealthStep == ASSUME RInv, AwaitHealth PROVE RInv'
<1>1. /\ script \in Script /\ script.stage = "waiting" /\ script.at \in 1..Last
      /\ Last \in Nat \ {0}
      /\ UNCHANGED <<volume, expected, process>>
  BY RuntimesListed DEF RInv, RType, Script, AwaitHealth
<1>2. \A i \in 1..(2 * Last) : volume[Planned[i].runtime][Planned[i].artifact] = script.issue
  BY <1>1 DEF RInv, ScriptFaithful, Confirmed
<1>3. \A i \in 1..Last :
        /\ DigestsSet(i)' => expected[Runtimes[i]] = Pair(script.issue)
        /\ Restarted(i)' => Restarted(i) \/ process[Runtimes[i]].stage = "down"
  BY <1>1 DEF RInv, ScriptFaithful, DigestsSet, Restarted
<1>4. CASE script.at < Last /\ Stage("waiting", script.at + 1)
  <2>1. script.at + 1 \in 1..(2 * Last) /\ script.at + 1 <= Last
    BY <1>1, <1>4
  <2> QED BY <1>1, <1>2, <1>3, <1>4, <2>1, StageStep
<1>5. CASE Stage("done", 1)
  <2>1. 1 \in 1..(2 * Last)
    BY <1>1
  <2> QED BY <1>1, <1>2, <1>3, <1>5, <2>1, StageStep
<1> QED BY <1>4, <1>5 DEF AwaitHealth, Last

LEMMA LaunchStep ==
  ASSUME RInv, NEW issue \in Issue, Launch(issue) \/ LaunchAny(issue)
  PROVE  RInv'
<1>1. /\ script' = [stage |-> "writing", issue |-> issue, at |-> 1]
      /\ UNCHANGED <<volume, expected, process>>
      /\ 1 \in 1..(2 * Last)
  BY RuntimesListed DEF Launch, LaunchAny, Start
<1>2. RType'
  BY <1>1 DEF RInv, RType, Script, Last
<1>3. ProcessesConsistent'
  BY <1>1 DEF RInv, ProcessesConsistent
<1>4. ScriptFaithful'
  BY <1>1 DEF ScriptFaithful, Confirmed, DigestsSet, Restarted
<1> QED BY <1>2, <1>3, <1>4 DEF RInv

LEMMA FailStep == ASSUME RInv, Fail PROVE RInv'
<1>1. script'.stage = "failed" /\ 1 \in 1..(2 * Last)
  BY RuntimesListed DEF Fail, Stage, RInv, RType, Script
<1> QED BY <1>1, StageStep DEF Fail, Confirmed, DigestsSet, Restarted

\* A runtime's process changes; it stays consistent, and does not come to expect
\* anything but what its environment says.
LEMMA ProcessStep ==
  ASSUME RInv, NEW r \in Runtime, NEW p \in Process,
         process' = [process EXCEPT ![r] = p],
         UNCHANGED <<volume, expected, script>>,
         p.stage # "down" =>
           /\ p.expects \in {process[r].expects, expected[r]}
           /\ p.expects = process[r].expects =>
                process[r].stage # "down" \/ p.expects = expected[r]
           /\ p.expects["delegation"] = p.expects["authorities"]
           /\ p.held["delegation"] = p.expects["delegation"],
         p.stage = "up" => p.held["authorities"] = p.expects["authorities"]
  PROVE  RInv'
<1>1. process'[r] = p /\ \A q \in Runtime : q # r => process'[q] = process[q]
  BY DEF RInv, RType
<1>2. RType'
  BY DEF RInv, RType
<1>3. ProcessesConsistent'
  BY <1>1 DEF RInv, ProcessesConsistent
<1>4. ScriptFaithful'
  <2>1. \A i \in 1..(2 * Last) : Confirmed(i)' <=> Confirmed(i)
    BY DEF Confirmed
  <2>2. \A i \in 1..Last : (DigestsSet(i)' <=> DigestsSet(i)) /\ (Restarted(i)' <=> Restarted(i))
    BY DEF DigestsSet, Restarted
  <2>3. \A i \in 1..Last : Restarted(i) => DigestsSet(i)
    BY RuntimesListed DEF Restarted, DigestsSet, RInv, RType, Script
  <2>4. ASSUME NEW i \in 1..Last, Restarted(i), process'[Runtimes[i]].stage # "down"
        PROVE  process'[Runtimes[i]].expects = Pair(script.issue)
    <3>1. expected[Runtimes[i]] = Pair(script.issue) /\ Runtimes[i] \in Runtime
      BY <2>3, <2>4, RuntimesListed DEF RInv, ScriptFaithful
    <3>2. process[Runtimes[i]].stage # "down" =>
            process[Runtimes[i]].expects = Pair(script.issue)
      BY <2>4 DEF RInv, ScriptFaithful
    <3> QED BY <1>1, <2>4, <3>1, <3>2
  <2> QED BY <2>1, <2>2, <2>4 DEF RInv, ScriptFaithful
<1> QED BY <1>2, <1>3, <1>4 DEF RInv

LEMMA RuntimeStepStep ==
  ASSUME RInv, NEW r \in Runtime, RuntimeStep(r) \/ Stop(r)
  PROVE  RInv'
<1>1. /\ process[r] \in Process /\ expected[r] \in [Artifact -> Issue]
      /\ volume[r] \in [Artifact -> Issue \cup {Garbled}]
      /\ "delegation" \in Artifact /\ "authorities" \in Artifact
  BY DEF RInv, RType, Artifact
<1>2. CASE ReadDelegation(r)
  <2> DEFINE p == [stage |-> "starting", expects |-> expected[r],
                   held |-> [process[r].held EXCEPT
                               !["delegation"] = volume[r]["delegation"]]]
  <2>1. process' = [process EXCEPT ![r] = p] /\ UNCHANGED <<volume, expected, script>>
    BY <1>2 DEF ReadDelegation
  <2>2. volume[r]["delegation"] = expected[r]["delegation"]
    BY <1>2 DEF ReadDelegation, Verified
  <2>3. p \in Process
    BY <1>1, <2>2 DEF Process
  <2>4. /\ p.stage = "starting" /\ p.expects = expected[r]
        /\ p.held["delegation"] = p.expects["delegation"]
        /\ p.expects["delegation"] = p.expects["authorities"]
    BY <1>1, <2>2 DEF Process, RInv, ProcessesConsistent
  <2> HIDE DEF p
  <2> QED BY <2>1, <2>3, <2>4, ProcessStep
<1>3. CASE ReadAuthorities(r) /\ Verified(r, "authorities", process[r].expects)
  <2> DEFINE p == [process[r] EXCEPT
                     !.stage = "up",
                     !.held = [@ EXCEPT !["authorities"] = volume[r]["authorities"]]]
  <2>1. process' = [process EXCEPT ![r] = p] /\ UNCHANGED <<volume, expected, script>>
    BY <1>3 DEF ReadAuthorities, RInv, RType
  <2>2. /\ volume[r]["authorities"] = process[r].expects["authorities"]
        /\ process[r].stage # "down"
    BY <1>3 DEF ReadAuthorities, Verified
  <2>3. p \in Process
    BY <1>1, <2>2 DEF Process
  <2>4. /\ p.expects = process[r].expects
        /\ p.held["delegation"] = p.expects["delegation"]
        /\ p.held["authorities"] = p.expects["authorities"]
        /\ p.expects["delegation"] = p.expects["authorities"]
    BY <1>1, <2>2 DEF Process, RInv, ProcessesConsistent
  <2> HIDE DEF p
  <2> QED BY <2>1, <2>2, <2>3, <2>4, ProcessStep
<1>4. CASE Stop(r) \/ (ReadAuthorities(r) /\ ~ Verified(r, "authorities", process[r].expects))
  <2> DEFINE p == [process[r] EXCEPT !.stage = "down"]
  <2>1. process' = [process EXCEPT ![r] = p] /\ UNCHANGED <<volume, expected, script>>
    BY <1>4 DEF ReadAuthorities, Stop, RInv, RType
  <2>2. p \in Process /\ p.stage = "down"
    BY <1>1 DEF Process
  <2> HIDE DEF p
  <2> QED BY <2>1, <2>2, ProcessStep
<1> QED BY <1>2, <1>3, <1>4 DEF RuntimeStep

LEMMA RInvStep == RInv /\ [Next]_vars => RInv'
<1> SUFFICES ASSUME RInv, [Next]_vars PROVE RInv'
  OBVIOUS
<1>1. CASE Next
  BY <1>1, LaunchStep, WriteStep, ConfirmStep, SetEnvironmentStep, RestartStep,
     AwaitHealthStep, FailStep, RuntimeStepStep DEF Next, ScriptStep
<1>2. CASE UNCHANGED vars
  BY <1>2 DEF vars, RInv, RType, ProcessesConsistent, ScriptFaithful,
     Confirmed, DigestsSet, Restarted
<1> QED BY <1>1, <1>2

\* The inductive invariant of a rotation: what the script has confirmed is on the
\* volumes, what it has set is in the environments, and a process holds what the
\* environment it was started in names.
THEOREM RInvCorrect == Spec => []RInv
BY RInvInit, RInvStep, PTL DEF Spec

\* Faults are counted up to their bound.
LEMMA FaultsBounded == faults \in 0..MaxFaults /\ [Next]_vars => (faults \in 0..MaxFaults)'
<1> SUFFICES ASSUME faults \in 0..MaxFaults, [Next]_vars PROVE faults' \in 0..MaxFaults
  OBVIOUS
<1>1. CASE UNCHANGED faults
  BY <1>1
<1>2. CASE Fault
  BY <1>2, RotationAssumption DEF Fault
<1> QED
  BY <1>1, <1>2 DEF Next, Launch, LaunchAny, ScriptStep, Write, Confirm, SetEnvironment,
     Restart, AwaitHealth, Fail, RuntimeStep, ReadDelegation, ReadAuthorities, Stop, vars

\* The types of a rotation, the number of its faults included.
THEOREM RotationTypeCorrect == Spec => []TypeOK
<1>1. Init => faults \in 0..MaxFaults
  BY RotationAssumption DEF Init
<1>2. RInv /\ faults \in 0..MaxFaults => TypeOK
  BY DEF RInv, RType, TypeOK
<1> QED BY RInvCorrect, <1>1, <1>2, FaultsBounded, PTL DEF Spec

\* A running agent never combines material of two renewals, wherever the script was
\* when it started, failed or was run again.
THEOREM MaterialIsWhole == Spec => []MaterialIsOfOneIssue
<1>1. RInv => MaterialIsOfOneIssue
  BY DEF RInv, ProcessesConsistent, MaterialIsOfOneIssue
<1> QED BY RInvCorrect, <1>1, PTL

\* A digest moves only when every volume holds what it names.
THEOREM DigestsAreLast == Spec => DigestsFollowVolumes
<1> DEFINE A == \A r \in Runtime :
                  expected'[r] # expected[r] =>
                    \A q \in Runtime : volume[q] = expected'[r]
<1>1. ASSUME RInv, [Next]_vars PROVE [A]_vars
  <2>1. CASE SetEnvironment
    <3>1. \A i \in 1..(2 * Last) : Confirmed(i)
      BY <2>1 DEF SetEnvironment, Confirmed
    <3>2. \A q \in Runtime : volume[q] = Pair(script.issue)
      BY <1>1, <3>1, AllConfirmed
    <3>3. expected \in [Runtime -> [Artifact -> Issue]]
          /\ expected' = [expected EXCEPT ![Runtimes[script.at]] = Pair(script.issue)]
      BY <1>1, <2>1 DEF RInv, RType, SetEnvironment
    <3>4. \A r \in Runtime : expected'[r] \in {expected[r], Pair(script.issue)}
      BY <3>3
    <3> QED BY <3>2, <3>4
  <2>2. CASE UNCHANGED expected
    BY <2>2
  <2>3. SetEnvironment \/ UNCHANGED expected
    BY <1>1 DEF Next, ScriptStep, RuntimeStep, Launch, LaunchAny, Start, Write, Confirm,
       Restart, AwaitHealth, Fail, ReadDelegation, ReadAuthorities, Stop, vars
  <2> QED BY <2>1, <2>2, <2>3
<1>2. Spec => [][A]_vars
  BY RInvCorrect, <1>1, PTL DEF Spec
<1> QED BY <1>2 DEF DigestsFollowVolumes

\* When the script reports that it rotated, every runtime that is up runs on the new
\* material, and a later restart comes up with it.
THEOREM ReportIsTrue == Spec => []DoneMeansRotated
<1>1. ASSUME RInv PROVE DoneMeansRotated
  <2> SUFFICES ASSUME script.stage = "done", NEW r \in Runtime
               PROVE  /\ volume[r] = Pair(script.issue)
                      /\ expected[r] = Pair(script.issue)
                      /\ process[r].stage = "up" => process[r].held = Pair(script.issue)
    BY DEF DoneMeansRotated
  <2>1. volume[r] = Pair(script.issue)
    BY <1>1, AllConfirmed DEF Confirmed
  <2>2. PICK i \in 1..Last : r = Runtimes[i]
    BY RuntimesListed
  <2>3. /\ expected[r] = Pair(script.issue)
        /\ process[r].stage # "down" => process[r].expects = Pair(script.issue)
    BY <1>1, <2>2 DEF RInv, ScriptFaithful, DigestsSet, Restarted
  <2>4. ASSUME process[r].stage = "up" PROVE process[r].held = Pair(script.issue)
    <3>1. \A a \in Artifact : process[r].held[a] = script.issue
      BY <1>1, <2>3, <2>4 DEF RInv, ProcessesConsistent, Pair, Artifact
    <3>2. process[r].held = [a \in Artifact |-> process[r].held[a]]
      BY <1>1 DEF RInv, RType, Process
    <3> QED BY <3>1, <3>2 DEF Pair
  <2> QED BY <2>1, <2>3, <2>4
<1> QED BY RInvCorrect, <1>1, PTL
=============================================================================

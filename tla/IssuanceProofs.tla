--------------------------- MODULE IssuanceProofs ---------------------------
(***************************************************************************)
(* Proofs about StatusIssuance, for any commands, directories and          *)
(* certificates, and any number of crashes.                                *)
(***************************************************************************)
EXTENDS StatusIssuance, SequenceTheorems, TLAPS

Busy(p) == command[p].stage # "idle"

\* A command that is at work has a list and a directory; an idle one has neither.
IType ==
  /\ now \in Int
  /\ state \in StatusList \cup {NoList}
  /\ command \in [Process -> Command]
  /\ \A p \in Process :
       IF Busy(p)
       THEN /\ command[p].list \in StatusList /\ command[p].output \in Output
            /\ command[p].kind \in {"issue", "renew", "refresh"}
       ELSE command[p] = Idle
  /\ output \in [Output -> [by : Process \cup {NoProcess},
                            list : StatusList \cup {NoList}]]
  /\ written \in Seq(StatusList)
  /\ finished \subseteq StatusList

\* The directory a command has made stays its own.
DirectoriesOwned ==
  \A p \in Process :
    command[p].stage \in {"made", "listed", "stated"} => output[command[p].output].by = p

OInv == IType /\ DirectoriesOwned

-----------------------------------------------------------------------------
LEMMA IdleCommand == Idle \in Command /\ Idle.stage = "idle"
BY DEF Idle, Command

\* Whatever is published is a list.
LEMMA PublishType ==
  ASSUME NEW last \in StatusList \cup {NoList}, NEW new \in SUBSET Certificate,
         NEW at \in Int
  PROVE  Publish(last, new, at) \in StatusList
<1> DEFINE base == IF last # NoList THEN last
                   ELSE Genesis(IF new # {} THEN at - 1 ELSE at)
<1>1. base \in StatusList
  BY DEF Genesis, StatusList
<1>2. Revoke(base, new \ base.revoked, at) \in StatusList
      /\ Heartbeat(base, at) \in StatusList
  BY <1>1 DEF Revoke, Heartbeat, StatusList
<1> QED BY <1>1, <1>2 DEF Publish

LEMMA OInvInit == Init => OInv
BY IdleCommand DEF Init, OInv, IType, DirectoriesOwned, Busy, Idle

\* A step gives command p new progress k: the type and the ownership that remain
\* to be shown are p's own.
LEMMA CommandStep ==
  ASSUME OInv, NEW p \in Process, NEW k \in Command,
         command' = [command EXCEPT ![p] = k],
         IF k.stage # "idle"
         THEN /\ k.list \in StatusList /\ k.output \in Output
              /\ k.kind \in {"issue", "renew", "refresh"}
         ELSE k = Idle,
         k.stage \in {"made", "listed", "stated"} => output'[k.output].by = p,
         \A o \in Output : output[o].by # NoProcess => output'[o].by = output[o].by,
         now' \in Int, state' \in StatusList \cup {NoList},
         output' \in [Output -> [by : Process \cup {NoProcess},
                                 list : StatusList \cup {NoList}]],
         written' \in Seq(StatusList),
         finished' \subseteq StatusList
  PROVE  OInv'
<1>1. command'[p] = k /\ \A q \in Process : q # p => command'[q] = command[q]
  BY DEF OInv, IType
<1>2. IType'
  BY <1>1 DEF OInv, IType, Busy
<1>3. DirectoriesOwned'
  <2> SUFFICES ASSUME NEW q \in Process,
                      command'[q].stage \in {"made", "listed", "stated"}
               PROVE  output'[command'[q].output].by = q
    BY DEF DirectoriesOwned
  <2>1. CASE q = p
    BY <1>1, <2>1
  <2>2. CASE q # p
    <3>1. command[q].output \in Output /\ output[command[q].output].by = q
      BY <1>1, <2>2 DEF OInv, IType, DirectoriesOwned, Busy
    <3> QED BY <1>1, <2>2, <3>1, IssuanceAssumption
  <2> QED BY <2>1, <2>2
<1> QED BY <1>2, <1>3 DEF OInv

LEMMA BeginOwned ==
  ASSUME OInv, NEW p \in Process, NEW kind \in {"issue", "renew", "refresh"},
         NEW o \in Output, Begin(p, kind, o)
  PROVE  OInv'
<1>1. PICK new \in SUBSET (Certificate \ issued) :
        command' = [command EXCEPT ![p] =
          [stage |-> "signed", kind |-> kind, list |-> Publish(state, new, now),
           output |-> o]]
  BY DEF Begin
<1>2. Publish(state, new, now) \in StatusList
  BY PublishType DEF OInv, IType
<1>3. UNCHANGED <<now, state, output, written, finished>>
  BY DEF Begin
<1> DEFINE k == [stage |-> "signed", kind |-> kind, list |-> Publish(state, new, now),
                 output |-> o]
<1>4. /\ k \in Command /\ k.stage = "signed" /\ k.list \in StatusList
      /\ k.output \in Output /\ k.kind = kind
  BY <1>2 DEF Command
<1> HIDE DEF k
<1>5. command' = [command EXCEPT ![p] = k]
  BY <1>1 DEF k
<1> QED BY <1>3, <1>4, <1>5, CommandStep DEF OInv, IType

\* The facts about a command that is at work.
LEMMA AtWork ==
  ASSUME OInv, NEW p \in Process, Busy(p)
  PROVE  /\ command[p] \in Command
         /\ command[p].list \in StatusList /\ command[p].output \in Output
         /\ command[p].kind \in {"issue", "renew", "refresh"}
BY DEF OInv, IType

\* A command goes on to another stage, or ends.
LEMMA GoOnOwned ==
  ASSUME OInv, NEW p \in Process, Busy(p), NEW stage \in {"made", "listed", "stated"},
         \/ command' = [command EXCEPT ![p] = Idle]
         \/ command' = [command EXCEPT ![p].stage = stage],
         output'[command[p].output].by = p
           \/ command' = [command EXCEPT ![p] = Idle],
         \A o \in Output : output[o].by # NoProcess => output'[o].by = output[o].by,
         now' \in Int, state' \in StatusList \cup {NoList},
         output' \in [Output -> [by : Process \cup {NoProcess},
                                 list : StatusList \cup {NoList}]],
         written' \in Seq(StatusList),
         finished' \subseteq StatusList
  PROVE  OInv'
<1>1. CASE command' = [command EXCEPT ![p] = Idle]
  BY <1>1, IdleCommand, CommandStep
<1>2. CASE command' = [command EXCEPT ![p].stage = stage] /\ output'[command[p].output].by = p
  <2> DEFINE k == [command[p] EXCEPT !.stage = stage]
  <2>1. command' = [command EXCEPT ![p] = k]
    BY <1>2 DEF OInv, IType
  <2>2. /\ k \in Command /\ k.stage = stage /\ k.list \in StatusList
        /\ k.output = command[p].output /\ k.output \in Output
        /\ k.kind \in {"issue", "renew", "refresh"}
    BY AtWork DEF Command
  <2>3. k.stage # "idle" /\ output'[k.output].by = p
    BY <1>2, <2>2
  <2> HIDE DEF k
  <2> QED BY <2>1, <2>2, <2>3, CommandStep
<1> QED BY <1>1, <1>2

LEMMA PrepareOwned == ASSUME OInv, NEW p \in Process, Prepare(p) PROVE OInv'
<1>1. Busy(p) /\ UNCHANGED <<now, state, written, finished>>
  BY DEF Prepare, Busy
<1> DEFINE o == command[p].output
<1>2. o \in Output
  BY <1>1, AtWork
<1>3. CASE /\ output[o].by = NoProcess
           /\ output' = [output EXCEPT ![o].by = p]
           /\ command' = [command EXCEPT ![p].stage = "made"]
  <2>1. output'[o].by = p
        /\ \A q \in Output : output[q].by # NoProcess => output'[q].by = output[q].by
    BY <1>2, <1>3 DEF OInv, IType
  <2>2. output' \in [Output -> [by : Process \cup {NoProcess},
                                list : StatusList \cup {NoList}]]
    BY <1>3 DEF OInv, IType
  <2> QED BY <1>1, <1>3, <2>1, <2>2, GoOnOwned DEF OInv, IType
<1>4. CASE command' = [command EXCEPT ![p] = Idle] /\ UNCHANGED output
  BY <1>1, <1>4, GoOnOwned DEF OInv, IType
<1> QED BY <1>3, <1>4 DEF Prepare

\* Each of the two writes of command p.
LEMMA WritesOwned ==
  ASSUME OInv, NEW p \in Process, WriteList(p) \/ ReplaceState(p)
  PROVE  OInv'
<1> DEFINE k == command[p]
<1>1. Busy(p) /\ k.stage \in {"made", "listed", "stated"} /\ now' = now
  BY DEF WriteList, ReplaceState, ListDue, StateDue, Busy
<1>2. k.list \in StatusList /\ k.output \in Output /\ output[k.output].by = p
  BY <1>1, AtWork DEF OInv, DirectoriesOwned
<1>3. PICK stage \in {"made", "listed", "stated"}, done \in BOOLEAN : GoOn(p, done, stage)
  BY DEF WriteList, ReplaceState
<1>4. /\ \/ command' = [command EXCEPT ![p] = Idle]
         \/ command' = [command EXCEPT ![p].stage = stage]
      /\ finished' \subseteq StatusList
  BY <1>2, <1>3 DEF GoOn, OInv, IType
<1>5. CASE WriteList(p)
  <2>1. /\ output' = [output EXCEPT ![k.output].list = k.list]
        /\ written' = Append(written, k.list)
        /\ UNCHANGED <<now, state>>
    BY <1>5 DEF WriteList
  <2>2. /\ output' \in [Output -> [by : Process \cup {NoProcess},
                                   list : StatusList \cup {NoList}]]
        /\ \A o \in Output : output'[o].by = output[o].by
    BY <1>2, <2>1 DEF OInv, IType
  <2>3. written' \in Seq(StatusList)
    BY <1>2, <2>1, AppendProperties DEF OInv, IType
  <2>4. now' \in Int /\ state' \in StatusList \cup {NoList}
    BY <2>1 DEF OInv, IType
  <2> QED BY <1>1, <1>2, <1>4, <2>2, <2>3, <2>4, GoOnOwned
<1>6. CASE ReplaceState(p)
  <2>1. state' = k.list /\ UNCHANGED <<now, output, written>>
    BY <1>6 DEF ReplaceState
  <2> QED BY <1>1, <1>2, <1>4, <2>1, GoOnOwned DEF OInv, IType
<1> QED BY <1>5, <1>6

LEMMA OInvStep == OInv /\ [Next]_vars => OInv'
<1> SUFFICES ASSUME OInv, [Next]_vars PROVE OInv'
  OBVIOUS
<1>1. ASSUME NEW p \in Process, Crash(p) PROVE OInv'
  <2>1. /\ command' = [command EXCEPT ![p] = Idle]
        /\ UNCHANGED <<now, state, output, written, finished>>
    BY <1>1 DEF Crash
  <2> QED BY <2>1, IdleCommand, CommandStep DEF OInv, IType
<1>2. CASE Tick \/ UNCHANGED vars
  BY <1>2 DEF Tick, vars, OInv, IType, DirectoriesOwned, Busy
<1> QED BY <1>1, <1>2, BeginOwned, PrepareOwned, WritesOwned DEF Next

\* The first inductive invariant: a command at work has a list, and the directory it
\* made is its own.
THEOREM OInvCorrect == Spec => []OInv
BY OInvInit, OInvStep, PTL DEF Spec

\* However commands overlap or are killed, a list in a directory is written once, by
\* the command that made the directory.
THEOREM DirectoriesNeverShared == Spec => OutputsAreWrittenOnce
<1> DEFINE A == \A o \in Output :
                  output'[o].list # output[o].list =>
                    /\ output[o].list = NoList
                    /\ command[output[o].by].output = o
                    /\ output'[o].list = command[output[o].by].list
<1>1. ASSUME OInv, [Next]_vars PROVE [A]_vars
  <2>1. ASSUME NEW p \in Process, WriteList(p) PROVE A
    <3>1. /\ command[p].stage \in {"made", "stated"}
          /\ output[command[p].output].list = NoList
          /\ output' = [output EXCEPT ![command[p].output].list = command[p].list]
      BY <2>1 DEF WriteList, ListDue
    <3>2. output[command[p].output].by = p /\ output \in [Output -> [by : Process \cup {NoProcess},
                            list : StatusList \cup {NoList}]]
      BY <1>1, <3>1 DEF OInv, DirectoriesOwned, IType
    <3> QED BY <3>1, <3>2
  <2>2. ASSUME NEW p \in Process, Prepare(p) PROVE A
    BY <1>1, <2>2 DEF Prepare, OInv, IType
  <2>3. CASE UNCHANGED output
    BY <2>3
  <2> QED BY <1>1, <2>1, <2>2, <2>3 DEF Next, Begin, ReplaceState, Crash, Tick, vars
<1>2. Spec => [][A]_vars
  BY OInvCorrect, <1>1, PTL DEF Spec
<1> QED BY <1>2 DEF OutputsAreWrittenOnce

-----------------------------------------------------------------------------
(***************************************************************************)
(* Commands that run one after the other.                                  *)
(***************************************************************************)
\* List m may be signed on top of l; m covers l when it is l or was signed later.
Continues(m, l) ==
  /\ l.revoked \subseteq m.revoked
  /\ l.updated_at < m.updated_at
  /\ NotBefore(m, l)
  /\ l.sequence = m.sequence => l.revoked = m.revoked

Covers(m, l) == m = l \/ Continues(m, l)

OneAtATime == \A p, q \in Process : Busy(p) /\ Busy(q) => p = q

\* The state on disk covers what commands that ended have signed.
StateRemembers == \A l \in finished : state # NoList /\ Covers(state, l)

\* A command at work has signed on top of the state on disk; issue has none before.
WorkContinues ==
  \A p \in Process :
    LET k == command[p] IN
    IF k.kind = "issue"
    THEN /\ k.stage \in {"signed", "made", "stated"}
         /\ IF k.stage = "stated" THEN state = k.list ELSE state = NoList
    ELSE Busy(p) =>
         /\ k.stage # "stated"
         /\ state # NoList /\ Continues(k.list, state)

\* What was written is covered by the state on disk, or by the list of the command
\* that is about to replace it.
Newest == \* the lists that cover everything written
  {l \in StatusList :
     \/ l = state /\ \A p \in Process : command[p].stage # "listed"
     \/ \E p \in Process : command[p].stage = "listed" /\ l = command[p].list}

WrittenContinues ==
  /\ ListsContinue
  /\ \A i \in DOMAIN written : \E l \in Newest : Covers(l, written[i])
  /\ \A p \in Process : command[p].stage = "stated" => written = << >>

SInv ==
  /\ crashes \in Nat
  /\ alone => OneAtATime /\ StateRemembers /\ WorkContinues
  /\ alone /\ crashes = 0 => WrittenContinues

-----------------------------------------------------------------------------
LEMMA CoversContinues ==
  ASSUME NEW m \in StatusList, NEW s \in StatusList, NEW l \in StatusList,
         Continues(m, s), Covers(s, l)
  PROVE  Continues(m, l)
BY DEF Continues, Covers, NotBefore, StatusList

\* The publisher signs on top of the list it continues.
LEMMA PublishContinues ==
  ASSUME NEW last \in StatusList, NEW new \in SUBSET Certificate, NEW at \in Int,
         at > last.updated_at
  PROVE  Continues(Publish(last, new, at), last)
<1>1. last # NoList
  BY IssuanceAssumption
<1>2. CASE new \ last.revoked # {}
  <2>1. Publish(last, new, at) = Revoke(last, new \ last.revoked, at)
    BY <1>1, <1>2 DEF Publish
  <2> QED BY <2>1 DEF Revoke, Continues, NotBefore, StatusList
<1>3. CASE new \ last.revoked = {}
  <2>1. Publish(last, new, at) = Heartbeat(last, at)
    BY <1>1, <1>3 DEF Publish
  <2> QED BY <2>1 DEF Heartbeat, Continues, NotBefore, StatusList
<1> QED BY <1>2, <1>3

LEMMA SInvInit == Init => SInv
<1> SUFFICES ASSUME Init PROVE SInv
  OBVIOUS
<1>1. \A p \in Process : command[p] = Idle /\ ~ Busy(p)
  BY DEF Init, Busy, Idle
<1>2. OneAtATime /\ StateRemembers
  BY <1>1 DEF Init, OneAtATime, StateRemembers
<1>3. WorkContinues
  BY <1>1 DEF WorkContinues, Idle
<1>4. WrittenContinues
  BY <1>1 DEF Init, WrittenContinues, ListsContinue, Idle
<1> QED BY <1>2, <1>3, <1>4 DEF SInv, Init

\* While one command is at work alone, its new progress is all that changes.
LEMMA Others ==
  ASSUME OInv, OneAtATime, NEW p \in Process, Busy(p), NEW k,
         command' = [command EXCEPT ![p] = k]
  PROVE  /\ command'[p] = k
         /\ \A q \in Process : q # p => command[q] = Idle /\ command'[q] = Idle
BY DEF OInv, IType, OneAtATime

LEMMA BeginContinues ==
  ASSUME OInv, SInv, NEW p \in Process, NEW kind \in {"issue", "renew", "refresh"},
         NEW o \in Output, Begin(p, kind, o)
  PROVE  SInv'
<1>1. PICK new \in SUBSET (Certificate \ issued) :
        command' = [command EXCEPT ![p] =
          [stage |-> "signed", kind |-> kind, list |-> Publish(state, new, now),
           output |-> o]]
  BY DEF Begin
<1>2. /\ UNCHANGED <<state, written, finished, crashes>>
      /\ alone' => alone /\ \A q \in Process \ {p} : command[q] = Idle
      /\ command[p] = Idle
      /\ kind = "issue" <=> state = NoList
      /\ state # NoList => now > state.updated_at
  BY DEF Begin, Signable
<1> SUFFICES ASSUME alone'
             PROVE  /\ (OneAtATime /\ StateRemembers /\ WorkContinues)'
                    /\ crashes = 0 => WrittenContinues'
  BY <1>2 DEF SInv
<1> DEFINE k == [stage |-> "signed", kind |-> kind, list |-> Publish(state, new, now),
                 output |-> o]
<1>3. /\ command'[p] = k
      /\ \A q \in Process : q # p => command'[q] = Idle /\ command[q] = Idle
  BY <1>1, <1>2 DEF OInv, IType
<1>4. state # NoList => Continues(k.list, state)
  BY <1>2, PublishContinues DEF OInv, IType
<1>5. OneAtATime' /\ StateRemembers'
  BY <1>2, <1>3 DEF OneAtATime, StateRemembers, SInv, Busy, Idle
<1>6. WorkContinues'
  <2> SUFFICES ASSUME NEW q \in Process
               PROVE  IF command'[q].kind = "issue"
                      THEN /\ command'[q].stage \in {"signed", "made", "stated"}
                           /\ IF command'[q].stage = "stated" THEN state' = command'[q].list
                              ELSE state' = NoList
                      ELSE Busy(q)' =>
                           /\ command'[q].stage # "stated"
                           /\ state' # NoList /\ Continues(command'[q].list, state')
    BY DEF WorkContinues
  <2>1. CASE q = p
    BY <1>2, <1>3, <1>4, <2>1
  <2>2. CASE q # p
    BY <1>3, <2>2 DEF Idle, Busy
  <2> QED BY <2>1, <2>2
<1>7. ASSUME crashes = 0 PROVE WrittenContinues'
  <2>1. WrittenContinues
    BY <1>2, <1>7 DEF SInv
  <2>2. \A q \in Process : command[q].stage # "listed" /\ command'[q].stage \notin {"listed", "stated"}
    BY <1>2, <1>3 DEF Idle
  <2>3. Newest' = Newest
    BY <1>2, <2>2 DEF Newest
  <2> QED BY <1>2, <2>1, <2>2, <2>3 DEF WrittenContinues, ListsContinue
<1> QED BY <1>5, <1>6, <1>7

\* A command that ends or goes on without writing: the three parts that do not look
\* at what was written.
LEMMA ProgressContinues ==
  ASSUME OInv, SInv, alone, NEW p \in Process, Busy(p),
         NEW k \in {Idle, [command[p] EXCEPT !.stage = "made"]},
         command[p].stage = "signed" \/ k = Idle,
         command' = [command EXCEPT ![p] = k],
         UNCHANGED <<state, finished>>
  PROVE  (OneAtATime /\ StateRemembers /\ WorkContinues)'
<1>1. OneAtATime /\ StateRemembers /\ WorkContinues
  BY DEF SInv
<1>2. /\ command'[p] = k
      /\ \A q \in Process : q # p => command[q] = Idle /\ command'[q] = Idle
  BY <1>1, Others
<1>3. OneAtATime' /\ StateRemembers'
  BY <1>1, <1>2 DEF OneAtATime, StateRemembers, Busy, Idle
<1>4. CASE k = Idle
  BY <1>2, <1>3, <1>4 DEF WorkContinues, Busy, Idle
<1>5. CASE k = [command[p] EXCEPT !.stage = "made"] /\ command[p].stage = "signed"
  <2>1. k.stage = "made" /\ k.kind = command[p].kind /\ k.list = command[p].list
    BY <1>5, AtWork DEF Command
  <2> QED BY <1>1, <1>2, <1>3, <1>5, <2>1 DEF WorkContinues, Busy, Idle
<1> QED BY <1>4, <1>5

LEMMA PrepareContinues == ASSUME OInv, SInv, NEW p \in Process, Prepare(p) PROVE SInv'
<1>1. /\ Busy(p) /\ command[p].stage = "signed"
      /\ UNCHANGED <<state, written, finished, crashes, alone>>
  BY DEF Prepare, Busy
<1> SUFFICES ASSUME alone
             PROVE  /\ (OneAtATime /\ StateRemembers /\ WorkContinues)'
                    /\ crashes = 0 => WrittenContinues'
  BY <1>1 DEF SInv
<1>2. PICK k \in {Idle, [command[p] EXCEPT !.stage = "made"]} :
        command' = [command EXCEPT ![p] = k]
  BY DEF Prepare, OInv, IType
<1>3. (OneAtATime /\ StateRemembers /\ WorkContinues)'
  BY <1>1, <1>2, ProgressContinues
<1>4. ASSUME crashes = 0 PROVE WrittenContinues'
  <2>1. WrittenContinues /\ OneAtATime
    BY <1>4 DEF SInv
  <2>2. /\ command'[p] = k
        /\ \A q \in Process : q # p => command[q] = Idle /\ command'[q] = Idle
    BY <1>1, <1>2, <2>1, Others
  <2>3. k.stage \in {"idle", "made"}
    BY <1>1, <1>2, AtWork DEF Command, Idle
  <2>4. \A q \in Process :
          command[q].stage \notin {"listed", "stated"} /\ command'[q].stage \notin {"listed", "stated"}
    BY <1>1, <2>2, <2>3 DEF Idle
  <2>5. Newest' = Newest
    BY <1>1, <2>4 DEF Newest
  <2> QED BY <1>1, <2>1, <2>4, <2>5 DEF WrittenContinues, ListsContinue
<1> QED BY <1>3, <1>4

LEMMA CrashContinues == ASSUME OInv, SInv, NEW p \in Process, Crash(p) PROVE SInv'
<1>1. /\ Busy(p) /\ crashes' = crashes + 1
      /\ command' = [command EXCEPT ![p] = Idle]
      /\ UNCHANGED <<state, finished, alone>>
  BY DEF Crash, Busy
<1>2. alone => (OneAtATime /\ StateRemembers /\ WorkContinues)'
  BY <1>1, ProgressContinues
<1> QED BY <1>1, <1>2 DEF SInv

\* What the command at work has to write.
LEMMA WorkDue ==
  ASSUME OInv, SInv, alone, NEW p \in Process, Busy(p)
  PROVE  /\ command[p].kind = "issue" =>
              /\ command[p].stage \in {"signed", "made", "stated"}
              /\ IF command[p].stage = "stated" THEN state = command[p].list
                 ELSE state = NoList
         /\ command[p].kind # "issue" =>
              /\ command[p].stage \in {"signed", "made", "listed"}
              /\ state \in StatusList /\ Continues(command[p].list, state)
BY AtWork DEF SInv, WorkContinues, OInv, IType, Command, Busy

\* A command writes its list.
LEMMA WriteListContinues ==
  ASSUME OInv, SInv, NEW p \in Process, WriteList(p)
  PROVE  SInv'
<1> DEFINE k == command[p]
<1>1. /\ Busy(p) /\ ListDue(k)
      /\ written' = Append(written, k.list)
      /\ GoOn(p, k.kind = "issue", "listed")
      /\ UNCHANGED <<state, crashes, alone>>
  BY DEF WriteList, ListDue, Busy
<1>2. k.list \in StatusList /\ k.kind \in {"issue", "renew", "refresh"} /\ k \in Command
  BY <1>1, AtWork
<1> SUFFICES ASSUME alone
             PROVE  /\ (OneAtATime /\ StateRemembers /\ WorkContinues)'
                    /\ crashes = 0 => WrittenContinues'
  BY <1>1 DEF SInv
<1>3. OneAtATime /\ StateRemembers /\ WorkContinues
  BY DEF SInv
<1>4. /\ written \in Seq(StatusList)
      /\ written' \in Seq(StatusList)
      /\ DOMAIN written = 1..Len(written)
      /\ DOMAIN written' = 1..(Len(written) + 1)
      /\ \A i \in DOMAIN written : written'[i] = written[i] /\ written[i] \in StatusList
      /\ written'[Len(written) + 1] = k.list
      /\ Len(written) \in Nat
  BY <1>1, <1>2, AppendProperties DEF OInv, IType
<1>5. CASE k.kind = "issue"
  <2>1. k.stage = "stated" /\ state = k.list
    BY <1>1, <1>5, WorkDue DEF ListDue
  <2>2. command' = [command EXCEPT ![p] = Idle] /\ finished' = finished \cup {k.list}
    BY <1>1, <1>5 DEF GoOn
  <2>3. \A q \in Process : command'[q] = Idle
    BY <1>1, <1>3, <2>2, Others
  <2>4. (OneAtATime /\ StateRemembers /\ WorkContinues)'
    <3>1. OneAtATime' /\ WorkContinues'
      BY <2>3 DEF OneAtATime, WorkContinues, Busy, Idle
    <3>2. StateRemembers'
      BY <1>1, <1>2, <1>3, <2>1, <2>2, IssuanceAssumption DEF StateRemembers, Covers
    <3> QED BY <3>1, <3>2
  <2>5. ASSUME crashes = 0 PROVE WrittenContinues'
    <3>1. written = << >>
      BY <2>1, <2>5 DEF SInv, WrittenContinues
    <3>2. DOMAIN written' = {1} /\ written'[1] = state /\ state' = state /\ state \in StatusList
      BY <1>1, <1>2, <1>4, <2>1, <3>1
    <3>3. state \in Newest'
      BY <2>3, <3>2 DEF Newest, Idle
    <3> QED BY <2>3, <3>2, <3>3 DEF WrittenContinues, ListsContinue, Covers, Idle
  <2> QED BY <2>4, <2>5
<1>6. CASE k.kind # "issue"
  <2>1. k.stage = "made" /\ state \in StatusList /\ Continues(k.list, state)
    BY <1>1, <1>6, WorkDue DEF ListDue
  <2>2. /\ command' = [command EXCEPT ![p] = [k EXCEPT !.stage = "listed"]]
        /\ finished' = finished
    BY <1>1, <1>6 DEF GoOn, OInv, IType
  <2>3. /\ command'[p] = [k EXCEPT !.stage = "listed"]
        /\ \A q \in Process : q # p => command[q] = Idle /\ command'[q] = Idle
    BY <1>1, <1>3, <2>2, Others
  <2>4. command'[p].stage = "listed" /\ command'[p].kind = k.kind /\ command'[p].list = k.list
    BY <1>2, <2>3 DEF Command
  <2>5. (OneAtATime /\ StateRemembers /\ WorkContinues)'
    <3>1. OneAtATime' /\ StateRemembers'
      BY <1>1, <1>3, <2>2, <2>3 DEF OneAtATime, StateRemembers, Busy, Idle
    <3>2. state' = state /\ state # NoList
      BY <1>1, <2>1, IssuanceAssumption
    <3>3. \A q \in Process : q # p => command'[q].stage = "idle" /\ command'[q].kind = "none"
      BY <2>3 DEF Idle
    <3>4. WorkContinues'
      BY <1>6, <2>1, <2>4, <3>2, <3>3 DEF WorkContinues, Busy
    <3> QED BY <3>1, <3>4
  <2>6. ASSUME crashes = 0 PROVE WrittenContinues'
    <3>1. WrittenContinues
      BY <2>6 DEF SInv
    <3>2. \A q \in Process : command[q].stage \notin {"listed", "stated"}
      BY <2>1, <2>3 DEF Idle
    <3>3. \A i \in DOMAIN written : Covers(state, written[i])
      BY <3>1, <3>2 DEF WrittenContinues, Newest
    <3>4. \A i \in DOMAIN written : Continues(k.list, written[i])
      BY <1>2, <1>4, <2>1, <3>3, CoversContinues
    <3>5. k.list \in Newest'
      BY <1>2, <2>4 DEF Newest
    <3>6. \A i \in DOMAIN written' : Covers(k.list, written'[i])
      BY <1>4, <3>4 DEF Covers
    <3>7. ListsContinue'
      <4>1. ASSUME NEW i \in DOMAIN written', NEW j \in DOMAIN written', i < j
            PROVE  Continues(written'[j], written'[i])
        <5>1. CASE j = Len(written) + 1
          BY <1>4, <3>4, <4>1, <5>1
        <5>2. CASE j # Len(written) + 1
          <6>1. i \in DOMAIN written /\ j \in DOMAIN written
            BY <1>4, <4>1, <5>2
          <6> QED BY <1>4, <3>1, <4>1, <6>1 DEF WrittenContinues, ListsContinue, Continues
        <5> QED BY <5>1, <5>2
      <4> QED BY <4>1 DEF ListsContinue, Continues, NotBefore
    <3>8. \A q \in Process : command'[q].stage # "stated"
      <4>1. \A q \in Process : q # p => command'[q].stage = "idle"
        BY <2>3 DEF Idle
      <4> QED BY <2>4, <4>1
    <3> QED BY <3>5, <3>6, <3>7, <3>8 DEF WrittenContinues
  <2> QED BY <2>5, <2>6
<1> QED BY <1>5, <1>6

\* A command replaces the state file.
LEMMA ReplaceStateContinues ==
  ASSUME OInv, SInv, NEW p \in Process, ReplaceState(p)
  PROVE  SInv'
<1> DEFINE k == command[p]
<1>1. /\ Busy(p) /\ StateDue(k)
      /\ state' = k.list
      /\ GoOn(p, k.kind # "issue", "stated")
      /\ UNCHANGED <<written, crashes, alone>>
  BY DEF ReplaceState, StateDue, Busy
<1>2. /\ k.list \in StatusList /\ k.list # NoList
      /\ k.kind \in {"issue", "renew", "refresh"} /\ k \in Command
  BY <1>1, AtWork, IssuanceAssumption
<1> SUFFICES ASSUME alone
             PROVE  /\ (OneAtATime /\ StateRemembers /\ WorkContinues)'
                    /\ crashes = 0 => WrittenContinues'
  BY <1>1 DEF SInv
<1>3. OneAtATime /\ StateRemembers /\ WorkContinues
  BY DEF SInv
<1>4. CASE k.kind = "issue"
  <2>1. k.stage = "made" /\ state = NoList
    BY <1>1, <1>4, WorkDue DEF StateDue
  <2>2. /\ command' = [command EXCEPT ![p] = [k EXCEPT !.stage = "stated"]]
        /\ finished' = finished
    BY <1>1, <1>4 DEF GoOn, OInv, IType
  <2>3. /\ command'[p] = [k EXCEPT !.stage = "stated"]
        /\ \A q \in Process : q # p => command[q] = Idle /\ command'[q] = Idle
    BY <1>1, <1>3, <2>2, Others
  <2>4. /\ command'[p].stage = "stated" /\ command'[p].kind = "issue"
        /\ command'[p].list = k.list
        /\ \A q \in Process :
             q # p => command'[q].stage = "idle" /\ command'[q].kind = "none"
    BY <1>2, <1>4, <2>3 DEF Command, Idle
  <2>5. finished = {}
    BY <1>3, <2>1 DEF StateRemembers
  <2>6. (OneAtATime /\ StateRemembers /\ WorkContinues)'
    BY <1>1, <2>2, <2>4, <2>5 DEF OneAtATime, StateRemembers, WorkContinues, Busy
  <2>7. ASSUME crashes = 0 PROVE WrittenContinues'
    <3>1. WrittenContinues
      BY <2>7 DEF SInv
    <3>2. Newest = {}
      BY <2>1, <2>3, IssuanceAssumption DEF Newest, Idle
    <3>3. written \in Seq(StatusList) /\ DOMAIN written = {}
      BY <3>1, <3>2 DEF WrittenContinues, OInv, IType
    <3>4. written = << >>
      BY <3>3, EmptySeq
    <3> QED BY <1>1, <3>4 DEF WrittenContinues, ListsContinue
  <2> QED BY <2>6, <2>7
<1>5. CASE k.kind # "issue"
  <2>1. k.stage = "listed" /\ state \in StatusList /\ Continues(k.list, state)
    BY <1>1, <1>5, WorkDue DEF StateDue
  <2>2. command' = [command EXCEPT ![p] = Idle] /\ finished' = finished \cup {k.list}
    BY <1>1, <1>5 DEF GoOn
  <2>3. \A q \in Process : command'[q] = Idle
    BY <1>1, <1>3, <2>2, Others
  <2>4. OneAtATime' /\ WorkContinues'
    BY <2>3 DEF OneAtATime, WorkContinues, Busy, Idle
  <2>5. StateRemembers'
    <3>1. \A l \in finished : l \in StatusList /\ Covers(state, l)
      BY <1>3 DEF StateRemembers, OInv, IType
    <3>2. \A l \in finished : Continues(k.list, l)
      BY <1>2, <2>1, <3>1, CoversContinues
    <3>3. \A l \in finished' : state' # NoList /\ Covers(state', l)
      BY <1>1, <1>2, <2>2, <3>2 DEF Covers
    <3> QED BY <3>3 DEF StateRemembers
  <2>6. ASSUME crashes = 0 PROVE WrittenContinues'
    <3>1. WrittenContinues
      BY <2>6 DEF SInv
    <3>2. \A q \in Process : q # p => command[q].stage = "idle"
      <4>1. \A q \in Process : q # p => command[q] = Idle
        BY <1>1, <1>3, <2>2, Others
      <4> QED BY <4>1 DEF Idle
    <3>3. \A i \in DOMAIN written : Covers(k.list, written[i])
      BY <2>1, <3>1, <3>2 DEF WrittenContinues, Newest
    <3>4. state' \in Newest'
      BY <1>1, <1>2, <2>3 DEF Newest, Idle
    <3>5. \A i \in DOMAIN written' : \E l \in Newest' : Covers(l, written'[i])
      BY <1>1, <3>3, <3>4
    <3> QED BY <1>1, <2>3, <3>1, <3>5 DEF WrittenContinues, ListsContinue, Idle
  <2> QED BY <2>4, <2>5, <2>6
<1> QED BY <1>4, <1>5

LEMMA SInvStep == OInv /\ SInv /\ [Next]_vars => SInv'
<1> SUFFICES ASSUME OInv, SInv, [Next]_vars PROVE SInv'
  OBVIOUS
<1>1. CASE Tick \/ UNCHANGED vars
  <2>1. UNCHANGED <<state, command, written, finished, crashes, alone>>
    BY <1>1 DEF Tick, vars
  <2>2. Newest' = Newest
    BY <2>1 DEF Newest
  <2>3. WrittenContinues' <=> WrittenContinues
    BY <2>1, <2>2 DEF WrittenContinues, ListsContinue
  <2>4. (OneAtATime /\ StateRemembers /\ WorkContinues)'
          <=> OneAtATime /\ StateRemembers /\ WorkContinues
    BY <2>1 DEF OneAtATime, StateRemembers, WorkContinues, Busy
  <2> QED BY <2>1, <2>3, <2>4 DEF SInv
<1> QED
  BY <1>1, BeginContinues, PrepareContinues, WriteListContinues, ReplaceStateContinues,
     CrashContinues DEF Next

\* The second inductive invariant: commands that do not overlap sign each on top of
\* the one before.
THEOREM SInvCorrect == Spec => []SInv
BY OInvCorrect, SInvInit, SInvStep, PTL DEF Spec

\* The types, with what is a history only: certificates issued and whether commands
\* have overlapped.
THEOREM IssuanceTypeCorrect == Spec => []TypeOK
<1> DEFINE T == now \in Nat /\ issued \subseteq Certificate /\ alone \in BOOLEAN
<1>1. Init => T
  BY DEF Init
<1>2. T /\ [Next]_vars => T'
  <2> SUFFICES ASSUME T, [Next]_vars PROVE T'
    OBVIOUS
  <2>1. ASSUME NEW p \in Process, NEW kind \in {"issue", "renew", "refresh"},
               NEW o \in Output, Begin(p, kind, o)
        PROVE  T'
    BY <2>1 DEF Begin
  <2>2. ASSUME NEW p \in Process, Prepare(p) \/ WriteList(p) \/ ReplaceState(p) \/ Crash(p)
        PROVE  T'
    BY <2>2 DEF Prepare, WriteList, ReplaceState, Crash
  <2>3. Tick \/ UNCHANGED vars => T'
    BY DEF Tick, vars
  <2> QED BY <2>1, <2>2, <2>3 DEF Next
<1>3. OInv /\ SInv /\ T => TypeOK
  BY DEF OInv, IType, SInv, TypeOK
<1> QED BY OInvCorrect, SInvCorrect, <1>1, <1>2, <1>3, PTL DEF Spec

\* The state on disk never forgets what a command that ended has signed, whichever of
\* the commands before or after it were killed.
THEOREM StateNeverForgets == Spec => []FinishedIsRemembered
<1>1. ASSUME OInv, SInv PROVE FinishedIsRemembered
  <2> SUFFICES ASSUME alone, NEW l \in finished
               PROVE  /\ state # NoList
                      /\ l.revoked \subseteq state.revoked
                      /\ NotBefore(state, l)
    BY DEF FinishedIsRemembered
  <2>1. state # NoList /\ Covers(state, l) /\ l \in StatusList
    BY <1>1 DEF SInv, StateRemembers, OInv, IType
  <2> QED BY <2>1 DEF Covers, Continues, NotBefore, StatusList
<1> QED BY OInvCorrect, SInvCorrect, <1>1, PTL

\* Commands that run to their end one after the other write lists that continue one
\* another.
THEOREM ListsStayCumulative == Spec => []ListsContinueInOrder
<1>1. SInv => ListsContinueInOrder
  BY DEF SInv, WrittenContinues, ListsContinueInOrder
<1> QED BY SInvCorrect, <1>1, PTL
=============================================================================

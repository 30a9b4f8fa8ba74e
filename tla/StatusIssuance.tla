--------------------------- MODULE StatusIssuance ---------------------------
(***************************************************************************)
(* The principal's issuance commands (src/maritime_ratify/                 *)
(* deployment_issuance.py) and the StatusAuthority they sign with          *)
(* (status.py).                                                            *)
(*                                                                         *)
(* issue creates the principal, renew revokes one more fixture certificate *)
(* and refresh re-signs the same set.  Every command loads the publisher   *)
(* state from a file, signs the next list in memory, makes its output      *)
(* directory, writes the list there and replaces the state file.  Each of  *)
(* these is a step: a command can be killed, or fail, between any two of   *)
(* them, and nothing keeps a second command from running in between.       *)
(*                                                                         *)
(* The publisher of the protocol SDK is external: it refuses a list that   *)
(* is not later than the state it continues.                               *)
(***************************************************************************)
EXTENDS Integers, Sequences, FiniteSets

CONSTANTS
  Process,      \* commands that may run at the same time
  Output,       \* the directories they are told to make
  Certificate,  \* fixture certificates issued to be revoked
  MaxTime,      \* bound: the last instant
  MaxCrashes,   \* bound: commands killed half-way
  NoList, NoProcess

\* V2StatusPublisherState, and the list signed with it.
StatusList == [sequence : Nat, updated_at : Int, revoked : SUBSET Certificate]

ASSUME IssuanceAssumption ==
  /\ MaxTime \in Nat /\ MaxCrashes \in Nat
  /\ NoList \notin StatusList
  /\ NoProcess \notin Process

VARIABLES
  now,
  state,     \* status-state.json beside principal.json
  command,   \* what each process is doing
  output,    \* each directory: who made it, and its status-list.json
  written,   \* history: the lists written, in order
  finished,  \* history: the lists of the commands that ended
  issued,    \* the certificates issued so far
  crashes,
  alone      \* history: no command has begun while another was at work

vars == <<now, state, command, output, written, finished, issued, crashes, alone>>

Idle == [stage |-> "idle", kind |-> "none", list |-> NoList, output |-> "none"]

\* The stages a process is in, in the order of issue and of the two others.
Command ==
  [stage : {"idle", "signed", "made", "listed", "stated"},
   kind : {"none", "issue", "renew", "refresh"},
   list : StatusList \cup {NoList},
   output : Output \cup {"none"}]

TypeOK ==
  /\ now \in Nat
  /\ state \in StatusList \cup {NoList}
  /\ command \in [Process -> Command]
  /\ output \in [Output -> [by : Process \cup {NoProcess},
                            list : StatusList \cup {NoList}]]
  /\ written \in Seq(StatusList)
  /\ finished \subseteq StatusList
  /\ issued \subseteq Certificate
  /\ crashes \in Nat
  /\ alone \in BOOLEAN

Init ==
  /\ now = 1
  /\ state = NoList
  /\ command = [p \in Process |-> Idle]
  /\ output = [o \in Output |-> [by |-> NoProcess, list |-> NoList]]
  /\ written = << >>
  /\ finished = {}
  /\ issued = {}
  /\ crashes = 0
  /\ alone = TRUE

-----------------------------------------------------------------------------
(***************************************************************************)
(* StatusAuthority.publish: the set revoked so far and more, at the next   *)
(* sequence, or the same set at the same sequence when nothing is new.     *)
(***************************************************************************)
Genesis(at) == [sequence |-> 1, updated_at |-> at, revoked |-> {}]

Revoke(last, new, at) ==
  [sequence |-> last.sequence + 1, updated_at |-> at,
   revoked |-> last.revoked \cup new]

Heartbeat(last, at) == [last EXCEPT !.updated_at = at]

\* Fault: the new list carries only what is new.
PublishOnlyNew(last, revoked, at) ==
  IF last = NoList
  THEN Revoke(Genesis(at - 1), revoked, at)
  ELSE IF revoked # {}
  THEN [Revoke(last, revoked, at) EXCEPT !.revoked = revoked]
  ELSE Heartbeat(last, at)

Publish(last, revoked, at) ==
  LET base == IF last # NoList THEN last
              ELSE Genesis(IF revoked # {} THEN at - 1 ELSE at)
      new  == revoked \ base.revoked
  IN IF last = NoList /\ revoked = {} THEN base
     ELSE IF new # {} THEN Revoke(base, new, at)
     ELSE Heartbeat(base, at)

\* The SDK signs nothing that is not later than what it continues.
Signable(last, at) == last # NoList => at > last.updated_at

-----------------------------------------------------------------------------
\* issue_deployment makes a principal of its own; this is the one the other two
\* commands are pointed at.
Begin(p, kind, o) ==
  /\ command[p] = Idle
  /\ (kind = "issue") <=> (state = NoList)
  /\ kind = "issue" => \A q \in Process : command[q].kind # "issue"
  /\ Signable(state, now)
  /\ \E new \in SUBSET (Certificate \ issued) :
       /\ Cardinality(new) = IF kind = "refresh" THEN 0 ELSE 1
       /\ issued' = issued \cup new
       /\ command' = [command EXCEPT ![p] =
            [stage |-> "signed", kind |-> kind, list |-> Publish(state, new, now),
             output |-> o]]
  /\ alone' = (alone /\ \A q \in Process \ {p} : command[q] = Idle)
  /\ UNCHANGED <<now, state, output, written, finished, crashes>>

\* Fault: mkdir is content with a directory that exists.
PrepareOver(p) ==
  /\ command[p].stage = "signed"
  /\ command' = [command EXCEPT ![p].stage = "made"]
  /\ output' = [output EXCEPT ![command[p].output].by =
                  IF @ = NoProcess THEN p ELSE @]
  /\ UNCHANGED <<now, state, written, finished, issued, crashes, alone>>

\* _prepare_output: an existing directory ends the command.
Prepare(p) ==
  /\ command[p].stage = "signed"
  /\ IF output[command[p].output].by = NoProcess
     THEN /\ output' = [output EXCEPT ![command[p].output].by = p]
          /\ command' = [command EXCEPT ![p].stage = "made"]
     ELSE /\ command' = [command EXCEPT ![p] = Idle]
          /\ UNCHANGED output
  /\ UNCHANGED <<now, state, written, finished, issued, crashes, alone>>

\* The steps after the directory: issue writes the state first and the list last,
\* the other two the list first and the state last.
ListDue(k)  == k.stage = IF k.kind = "issue" THEN "stated" ELSE "made"
StateDue(k) == k.stage = IF k.kind = "issue" THEN "made" ELSE "listed"

\* A command that wrote both files has ended; otherwise it goes on to stage next.
GoOn(p, done, next) ==
  IF done
  THEN /\ command' = [command EXCEPT ![p] = Idle]
       /\ finished' = finished \cup {command[p].list}
  ELSE /\ command' = [command EXCEPT ![p].stage = next]
       /\ UNCHANGED finished

\* _write_public of status-list.json: it opens no file that exists.
WriteList(p) ==
  LET k == command[p] IN
  /\ ListDue(k)
  /\ output[k.output].list = NoList
  /\ output' = [output EXCEPT ![k.output].list = k.list]
  /\ written' = Append(written, k.list)
  /\ GoOn(p, k.kind = "issue", "listed")
  /\ UNCHANGED <<now, state, issued, crashes, alone>>

\* Fault: the state file is left as it was.
KeepState(p) ==
  LET k == command[p] IN
  /\ StateDue(k)
  /\ state' = IF k.kind = "issue" THEN k.list ELSE state
  /\ GoOn(p, k.kind # "issue", "stated")
  /\ UNCHANGED <<now, output, written, issued, crashes, alone>>

\* _write_private of a new status-state.json, or _replace_private of the old one.
ReplaceState(p) ==
  LET k == command[p] IN
  /\ StateDue(k)
  /\ state' = k.list
  /\ GoOn(p, k.kind # "issue", "stated")
  /\ UNCHANGED <<now, output, written, issued, crashes, alone>>

\* Killed, or failed in one of the other files it writes.
Crash(p) ==
  /\ command[p].stage \notin {"idle", "signed"}
  /\ crashes < MaxCrashes
  /\ crashes' = crashes + 1
  /\ command' = [command EXCEPT ![p] = Idle]
  /\ UNCHANGED <<now, state, output, written, finished, issued, alone>>

Tick ==
  /\ now < MaxTime
  /\ now' = now + 1
  /\ UNCHANGED <<state, command, output, written, finished, issued, crashes, alone>>

Next ==
  \/ \E p \in Process :
       \/ \E kind \in {"issue", "renew", "refresh"}, o \in Output : Begin(p, kind, o)
       \/ Prepare(p) \/ WriteList(p) \/ ReplaceState(p) \/ Crash(p)
  \/ Tick

Spec == Init /\ [][Next]_vars

-----------------------------------------------------------------------------
(***************************************************************************)
(* Properties.                                                             *)
(***************************************************************************)

\* Where a receiver's journal places list m relative to list l: not before.
NotBefore(m, l) ==
  \/ m.sequence > l.sequence
  \/ m.sequence = l.sequence /\ m.updated_at >= l.updated_at

\* What a finished command has signed is never forgotten, even when later ones are
\* killed half-way: the persisted state is not before any finished list and still
\* revokes what it revoked.  Commands that overlap do not keep this: each loads the
\* state the other is about to replace.
FinishedIsRemembered ==
  alone =>
    \A l \in finished :
      /\ state # NoList
      /\ l.revoked \subseteq state.revoked
      /\ NotBefore(state, l)

\* renew_deployment: "The new revoked fixture certificate is added to the cumulative
\* signed revocation list.  The status publisher state ... is advanced in place,
\* because the next signing must continue its sequence."  Every list written
\* continues the ones written before it: it revokes what they did, comes after them
\* in a journal's order, and a sequence number stands for one revoked set.  Refuted:
\* a command killed between its two files breaks it.
ListsContinue ==
  \A i, j \in DOMAIN written :
    i < j =>
      /\ written[i].revoked \subseteq written[j].revoked
      /\ written[i].updated_at < written[j].updated_at
      /\ NotBefore(written[j], written[i])
      /\ written[i].sequence = written[j].sequence =>
           written[i].revoked = written[j].revoked

\* Commands that run to their end one after the other do keep it.
ListsContinueInOrder == alone /\ crashes = 0 => ListsContinue

\* Commands told to use the same directory never share it, overlapping or killed:
\* the list in it, once written, stays, and is its maker's.
OutputsAreWrittenOnce ==
  [][\A o \in Output :
       output'[o].list # output[o].list =>
         /\ output[o].list = NoList
         /\ command[output[o].by].output = o
         /\ output'[o].list = command[output[o].by].list]_vars
=============================================================================

------------------------ MODULE PresentationRegistry ------------------------
(***************************************************************************)
(* PresentationRegistry (src/maritime_ratify/transport.py): the bounded,   *)
(* single-use bridge between the upload of a proof and the tool call that  *)
(* presents it.  Both operations run under one lock, read the clock there  *)
(* once and reap first, so each is one step.                               *)
(*                                                                         *)
(* A reference is a random token: Reference is the set of those ever       *)
(* drawn, its size bounds the registrations of a behaviour.                *)
(***************************************************************************)
EXTENDS Integers, Sequences, FiniteSets

CONSTANTS
  Reference,
  Caller,             \* authenticated caller identities
  Action,             \* the work orders named in uploads and calls
  Malformed,          \* those outside the closed schema
  Bundle,             \* the proofs uploaded
  Ttl,                \* _ttl_seconds
  MaxEntries,         \* _max_entries
  MaxClock,           \* bound: the last instant
  NoEntry

\* _StoredPresentation
Stored == [caller : Caller, action : Action, bundle : Bundle, expires_at : Nat]

\* A call that was handed the proof.
Use == [caller : Caller, action : Action, at : Nat]

ASSUME RegistryAssumption ==
  /\ Malformed \subseteq Action
  /\ Ttl \in Nat \ {0} /\ MaxEntries \in Nat \ {0} /\ MaxClock \in Nat
  /\ NoEntry \notin Stored
  /\ IsFiniteSet(Reference)

VARIABLES
  now,      \* the clock
  entries,  \* _entries: what each live reference stands for
  filed,    \* history: what each reference was registered for
  uses      \* history: the calls a reference handed its proof to

registry == <<entries, filed, uses>>

TypeOK ==
  /\ now \in Nat
  /\ entries \in [Reference -> Stored \cup {NoEntry}]
  /\ filed \in [Reference -> Stored \cup {NoEntry}]
  /\ uses \in [Reference -> Seq(Use)]

Init ==
  /\ entries = [r \in Reference |-> NoEntry]
  /\ filed = [r \in Reference |-> NoEntry]
  /\ uses = [r \in Reference |-> << >>]

-----------------------------------------------------------------------------
Unexpired(entry) == entry # NoEntry /\ entry.expires_at > now

\* _reap
Reap == [r \in Reference |-> IF Unexpired(entries[r]) THEN entries[r] ELSE NoEntry]

Held(table) == {r \in Reference : table[r] # NoEntry}

\* Fault: the limit is compared before the new entry is counted.
FullLate == Cardinality(Held(Reap)) > MaxEntries

Full == Cardinality(Held(Reap)) >= MaxEntries

\* register, refused: DENY_VERIFIER_UNAVAILABLE.
RefuseFull ==
  /\ Full
  /\ entries' = Reap
  /\ UNCHANGED <<filed, uses>>

\* register
Register(r, caller, action, bundle) ==
  /\ ~ Full
  /\ action \notin Malformed
  /\ filed[r] = NoEntry
  /\ LET stored == [caller |-> caller, action |-> action, bundle |-> bundle,
                    expires_at |-> now + Ttl]
     IN /\ entries' = [Reap EXCEPT ![r] = stored]
        /\ filed' = [filed EXCEPT ![r] = stored]
  /\ UNCHANGED uses

-----------------------------------------------------------------------------
\* Fault: a reference is good for whoever holds it.
BearerAnswer(r, caller, action) ==
  IF Reap[r] = NoEntry THEN "DENY_REPLAY"
  ELSE IF action # Reap[r].action THEN "DENY_OPERATION_MISMATCH"
  ELSE "ALLOW"

\* consume: why the reference is refused.
Answer(r, caller, action) ==
  IF Reap[r] = NoEntry
  THEN "DENY_REPLAY"
  ELSE IF caller # Reap[r].caller
  THEN "DENY_CALLER_MISMATCH"
  ELSE IF action \in Malformed
  THEN "DENY_INVALID_REQUEST"
  ELSE IF action # Reap[r].action
  THEN "DENY_OPERATION_MISMATCH"
  ELSE "ALLOW"

\* Fault: the entry is popped before its binding is compared.
RefuseAndEvict(r, caller, action) ==
  /\ Answer(r, caller, action) # "ALLOW"
  /\ entries' = [Reap EXCEPT ![r] = NoEntry]
  /\ UNCHANGED <<filed, uses>>

\* consume, refused: nothing is evicted.
RefuseUse(r, caller, action) ==
  /\ Answer(r, caller, action) # "ALLOW"
  /\ entries' = Reap
  /\ UNCHANGED <<filed, uses>>

\* consume: the one call that takes the proof.
Consume(r, caller, action) ==
  /\ Answer(r, caller, action) = "ALLOW"
  /\ entries' = [Reap EXCEPT ![r] = NoEntry]
  /\ uses' = [uses EXCEPT ![r] =
       Append(@, [caller |-> caller, action |-> action, at |-> now])]
  /\ UNCHANGED filed

-----------------------------------------------------------------------------
\* The registry alone: any caller names any reference with any action.
Tick ==
  /\ now < MaxClock
  /\ now' = now + 1
  /\ UNCHANGED registry

\* The entries are in memory: a restart forgets them.
Forget ==
  /\ entries' = [r \in Reference |-> NoEntry]
  /\ UNCHANGED <<filed, uses>>

Call(r, caller, action) ==
  \/ \E bundle \in Bundle : Register(r, caller, action, bundle)
  \/ RefuseUse(r, caller, action)
  \/ Consume(r, caller, action)

Next ==
  \/ /\ \/ \E r \in Reference, caller \in Caller, action \in Action : Call(r, caller, action)
        \/ RefuseFull
        \/ Forget
     /\ UNCHANGED now
  \/ Tick

InitAlone == now = 0 /\ Init

Spec == InitAlone /\ [][Next]_<<now, registry>>

-----------------------------------------------------------------------------
(***************************************************************************)
(* Properties.                                                             *)
(***************************************************************************)

\* A reference hands its proof to one call at most, and only to the caller who
\* uploaded it, for the action it was uploaded for, before it expires.
UsedOnceAsFiled ==
  \A r \in Reference :
    /\ Len(uses[r]) <= 1
    /\ uses[r] # << >> =>
         /\ filed[r] # NoEntry
         /\ uses[r][1].caller = filed[r].caller
         /\ uses[r][1].action = filed[r].action
         /\ uses[r][1].at < filed[r].expires_at

\* However many callers upload, the registry never holds more than its limit.
Bounded == Cardinality(Held(entries)) <= MaxEntries

\* An unexpired reference goes only by being used as it was filed or by a restart:
\* no stranger's call, altered action, refused upload or reaping takes it.
EntriesEndTheirOwnWay ==
  [][\A r \in Reference :
       entries[r] # NoEntry /\ entries'[r] # entries[r] =>
         \/ entries[r].expires_at <= now
         \/ Len(uses'[r]) = Len(uses[r]) + 1
         \/ Forget]_<<now, registry>>
=============================================================================

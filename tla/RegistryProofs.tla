--------------------------- MODULE RegistryProofs ---------------------------
(***************************************************************************)
(* Proofs about PresentationRegistry, for any number of callers, actions   *)
(* and references and any limit.                                           *)
(***************************************************************************)
EXTENDS PresentationRegistry, FiniteSetTheorems, TLAPS

registryVars == <<now, registry>>

\* Reaping yields a table of entries, each the one that was there.
LEMMA ReapType ==
  ASSUME TypeOK
  PROVE  /\ Reap \in [Reference -> Stored \cup {NoEntry}]
         /\ \A r \in Reference : Reap[r] # NoEntry => Reap[r] = entries[r] /\ Unexpired(entries[r])
BY DEF TypeOK, Reap

\* TypeOK is inductive: one case for every operation of the registry.
LEMMA TypeInductive == TypeOK /\ [Next]_registryVars => TypeOK'
<1> SUFFICES ASSUME TypeOK, [Next]_registryVars PROVE TypeOK'
  OBVIOUS
<1> USE RegistryAssumption DEF TypeOK, registry
<1>0. Reap \in [Reference -> Stored \cup {NoEntry}]
  BY ReapType
<1>1. ASSUME NEW r \in Reference, NEW caller \in Caller, NEW action \in Action,
             NEW bundle \in Bundle, Register(r, caller, action, bundle), UNCHANGED now
      PROVE TypeOK'
  <2> DEFINE stored == [caller |-> caller, action |-> action, bundle |-> bundle,
                        expires_at |-> now + Ttl]
  <2>1. stored \in Stored
    BY DEF Stored
  <2> HIDE DEF stored
  <2>2. /\ entries' = [Reap EXCEPT ![r] = stored]
        /\ filed' = [filed EXCEPT ![r] = stored]
    BY <1>1 DEF Register, stored
  <2> QED BY <1>0, <1>1, <2>1, <2>2 DEF Register
<1>2. ASSUME NEW r \in Reference, NEW caller \in Caller, NEW action \in Action,
             RefuseUse(r, caller, action), UNCHANGED now
      PROVE TypeOK'
  BY <1>0, <1>2 DEF RefuseUse
<1>3. ASSUME NEW r \in Reference, NEW caller \in Caller, NEW action \in Action,
             Consume(r, caller, action), UNCHANGED now
      PROVE TypeOK'
  <2>1. entries' \in [Reference -> Stored \cup {NoEntry}]
    BY <1>0, <1>3 DEF Consume
  <2>2. [caller |-> caller, action |-> action, at |-> now] \in Use
    BY DEF Use
  <2>3. uses' \in [Reference -> Seq(Use)]
    BY <1>3, <2>2 DEF Consume
  <2> QED BY <1>3, <2>1, <2>3 DEF Consume
<1>4. CASE RefuseFull /\ UNCHANGED now
  BY <1>0, <1>4 DEF RefuseFull
<1>5. CASE Forget /\ UNCHANGED now
  BY <1>5 DEF Forget
<1>6. CASE Tick
  BY <1>6 DEF Tick
<1>7. CASE UNCHANGED registryVars
  BY <1>7 DEF registryVars
<1> QED BY <1>1, <1>2, <1>3, <1>4, <1>5, <1>6, <1>7 DEF Next, Call

\* Every variable of the registry keeps its type.
THEOREM RegistryTypeCorrect == Spec => []TypeOK
<1>1. InitAlone => TypeOK
  BY RegistryAssumption DEF InitAlone, Init, TypeOK
<1> QED BY <1>1, TypeInductive, PTL DEF Spec, registryVars

-----------------------------------------------------------------------------
\* An entry is what was filed under its reference, and was not handed out yet.
EntriesAsFiled ==
  \A r \in Reference : entries[r] # NoEntry => entries[r] = filed[r] /\ uses[r] = << >>

UseInv == TypeOK /\ EntriesAsFiled /\ UsedOnceAsFiled

\* UseInv is inductive: a reference is handed out while its entry exists, which
\* ends the entry, and no reference is registered twice.
LEMMA UseInductive == UseInv /\ TypeOK' /\ [Next]_registryVars => UseInv'
<1> SUFFICES ASSUME UseInv, TypeOK', [Next]_registryVars PROVE UseInv'
  OBVIOUS
<1> USE RegistryAssumption DEF UseInv, registry
<1>0. \A r \in Reference : Reap[r] # NoEntry => Reap[r] = entries[r] /\ Unexpired(entries[r])
  BY ReapType
<1>1. ASSUME NEW r \in Reference, NEW caller \in Caller, NEW action \in Action,
             NEW bundle \in Bundle, Register(r, caller, action, bundle)
      PROVE EntriesAsFiled' /\ UsedOnceAsFiled'
  <2> DEFINE stored == [caller |-> caller, action |-> action, bundle |-> bundle,
                        expires_at |-> now + Ttl]
  <2> HIDE DEF stored
  <2>1. /\ entries' = [Reap EXCEPT ![r] = stored]
        /\ filed' = [filed EXCEPT ![r] = stored]
        /\ filed[r] = NoEntry
        /\ uses' = uses
    BY <1>1 DEF Register, stored
  <2>2. uses[r] = << >>
    BY <2>1 DEF UsedOnceAsFiled
  <2>3. \A q \in Reference : q # r => filed'[q] = filed[q] /\ entries'[q] = Reap[q]
    BY <2>1, ReapType DEF TypeOK
  <2>4. entries'[r] = stored /\ filed'[r] = stored
    BY <2>1, ReapType DEF TypeOK
  <2>5. EntriesAsFiled'
    BY <1>0, <2>1, <2>2, <2>3, <2>4 DEF EntriesAsFiled
  <2>6. UsedOnceAsFiled'
    BY <2>1, <2>2, <2>3 DEF UsedOnceAsFiled
  <2> QED BY <2>5, <2>6
<1>2. ASSUME entries' = Reap \/ Forget, UNCHANGED <<filed, uses>>
      PROVE EntriesAsFiled' /\ UsedOnceAsFiled'
  <2>1. \A r \in Reference : entries'[r] # NoEntry => entries'[r] = entries[r]
    BY <1>0, <1>2 DEF Forget
  <2> QED BY <1>2, <2>1 DEF EntriesAsFiled, UsedOnceAsFiled
<1>3. ASSUME NEW r \in Reference, NEW caller \in Caller, NEW action \in Action,
             Consume(r, caller, action)
      PROVE EntriesAsFiled' /\ UsedOnceAsFiled'
  <2> DEFINE use == [caller |-> caller, action |-> action, at |-> now]
  <2>1. /\ Reap[r] # NoEntry
        /\ caller = Reap[r].caller
        /\ action = Reap[r].action
    BY <1>3 DEF Consume, Answer
  <2>2. /\ caller = filed[r].caller
        /\ action = filed[r].action
        /\ filed[r] # NoEntry
        /\ now < filed[r].expires_at
        /\ uses[r] = << >>
    BY <1>0, <2>1 DEF EntriesAsFiled, Unexpired, TypeOK, Stored
  <2>3. uses' = [uses EXCEPT ![r] = Append(uses[r], use)]
    BY <1>3 DEF Consume
  <2>4. uses'[r] = <<use>>
    BY <2>2, <2>3 DEF TypeOK
  <2>5. \A q \in Reference : q # r => uses'[q] = uses[q] /\ entries'[q] = Reap[q]
    BY <1>3, <2>3, ReapType DEF Consume, TypeOK
  <2>6. filed' = filed /\ entries'[r] = NoEntry
    BY <1>3, ReapType DEF Consume
  <2>7. EntriesAsFiled'
    BY <1>0, <2>5, <2>6 DEF EntriesAsFiled
  <2>8. /\ Len(uses'[r]) = 1
        /\ uses'[r][1] = use
    BY <2>4
  <2>9. UsedOnceAsFiled'
    <3> SUFFICES ASSUME NEW q \in Reference
                 PROVE /\ Len(uses'[q]) <= 1
                       /\ uses'[q] # << >> =>
                            /\ filed'[q] # NoEntry
                            /\ uses'[q][1].caller = filed'[q].caller
                            /\ uses'[q][1].action = filed'[q].action
                            /\ uses'[q][1].at < filed'[q].expires_at
      BY DEF UsedOnceAsFiled
    <3>1. CASE q = r
      BY <3>1, <2>2, <2>6, <2>8
    <3>2. CASE q # r
      BY <3>2, <2>5, <2>6 DEF UsedOnceAsFiled
    <3> QED BY <3>1, <3>2
  <2> QED BY <2>7, <2>9
<1>4. ASSUME UNCHANGED <<entries, filed, uses>> PROVE EntriesAsFiled' /\ UsedOnceAsFiled'
  BY <1>4 DEF EntriesAsFiled, UsedOnceAsFiled
<1>5. EntriesAsFiled' /\ UsedOnceAsFiled'
  BY <1>1, <1>2, <1>3, <1>4
     DEF Next, Call, Tick, RefuseUse, RefuseFull, Forget, registryVars
<1> QED BY <1>5

\* Whoever uploads, names or guesses references: a proof is handed out once at most,
\* to its uploader's call of the uploaded action, before it expires.
THEOREM HandedOutOnceAsFiled == Spec => []UsedOnceAsFiled
<1>1. InitAlone => UseInv
  BY RegistryAssumption DEF InitAlone, Init, TypeOK, UseInv, EntriesAsFiled, UsedOnceAsFiled
<1>2. UseInv => UsedOnceAsFiled
  BY DEF UseInv
<1> QED BY <1>1, <1>2, UseInductive, RegistryTypeCorrect, PTL DEF Spec, registryVars

-----------------------------------------------------------------------------
\* A table that lost entries, or none, is within the limit if the old one was.
LEMMA FewerHeld ==
  ASSUME Bounded, NEW table, Held(table) \subseteq Held(entries)
  PROVE  IsFiniteSet(Held(table)) /\ Cardinality(Held(table)) <= MaxEntries
<1>1. IsFiniteSet(Held(entries))
  BY FS_Subset, RegistryAssumption DEF Held
<1>2. /\ IsFiniteSet(Held(table))
      /\ Cardinality(Held(table)) <= Cardinality(Held(entries))
  BY <1>1, FS_Subset
<1>3. Cardinality(Held(table)) \in Nat /\ Cardinality(Held(entries)) \in Nat
  BY <1>1, <1>2, FS_CardinalityType
<1> QED BY <1>2, <1>3, RegistryAssumption DEF Bounded

\* The limit is inductive: only register adds an entry, one, below the limit.
LEMMA BoundedInductive == TypeOK /\ Bounded /\ [Next]_registryVars => Bounded'
<1> SUFFICES ASSUME TypeOK, Bounded, [Next]_registryVars PROVE Bounded'
  OBVIOUS
<1>0. Held(Reap) \subseteq Held(entries)
  BY ReapType DEF Held
<1>1. ASSUME NEW r \in Reference, NEW caller \in Caller, NEW action \in Action,
             NEW bundle \in Bundle, Register(r, caller, action, bundle)
      PROVE Bounded'
  <2>1. IsFiniteSet(Held(Reap)) /\ Cardinality(Held(Reap)) \in Nat
    BY <1>0, FewerHeld, FS_CardinalityType
  <2>2. Cardinality(Held(Reap)) < MaxEntries
    BY <1>1, <2>1, RegistryAssumption DEF Register, Full
  <2>3. Held(entries') \subseteq Held(Reap) \cup {r}
    BY <1>1, ReapType DEF Register, Held
  <2>4. /\ IsFiniteSet(Held(Reap) \cup {r})
        /\ Cardinality(Held(Reap) \cup {r}) <= Cardinality(Held(Reap)) + 1
        /\ Cardinality(Held(Reap) \cup {r}) \in Nat
    <3>1. CASE r \in Held(Reap)
      <4>1. Held(Reap) \cup {r} = Held(Reap)
        BY <3>1
      <4>2. Cardinality(Held(Reap)) <= Cardinality(Held(Reap)) + 1
        BY <2>1
      <4> QED BY <2>1, <4>1, <4>2
    <3>2. CASE r \notin Held(Reap)
      <4>1. /\ IsFiniteSet(Held(Reap) \cup {r})
            /\ Cardinality(Held(Reap) \cup {r}) = Cardinality(Held(Reap)) + 1
        BY <2>1, <3>2, FS_AddElement
      <4> QED BY <2>1, <4>1
    <3> QED BY <3>1, <3>2
  <2>5. /\ Cardinality(Held(entries')) <= Cardinality(Held(Reap) \cup {r})
        /\ Cardinality(Held(entries')) \in Nat
    BY <2>3, <2>4, FS_Subset, FS_CardinalityType
  <2>6. Cardinality(Held(entries')) <= MaxEntries
    BY <2>1, <2>2, <2>4, <2>5, RegistryAssumption
  <2> QED BY <2>6 DEF Bounded, Held
<1>2. ASSUME Held(entries') \subseteq Held(entries) PROVE Bounded'
  <2>1. Cardinality(Held(entries')) <= MaxEntries
    BY <1>2, FewerHeld
  <2> QED BY <2>1 DEF Bounded, Held
<1>3. ASSUME NEW r \in Reference, NEW caller \in Caller, NEW action \in Action,
             Consume(r, caller, action)
      PROVE Held(entries') \subseteq Held(entries)
  BY <1>0, <1>3, ReapType DEF Consume, Held
<1>4. ASSUME entries' = Reap \/ Forget \/ entries' = entries
      PROVE Held(entries') \subseteq Held(entries)
  BY <1>0, <1>4 DEF Forget, Held
<1> QED BY <1>1, <1>2, <1>3, <1>4
        DEF Next, Call, Tick, RefuseUse, RefuseFull, registryVars, registry

\* However many callers upload, the registry never holds more than its limit.
THEOREM NeverOverLimit == Spec => []Bounded
<1>1. InitAlone => Bounded
  <2> SUFFICES ASSUME InitAlone PROVE Bounded
    OBVIOUS
  <2>1. Held(entries) = {}
    BY DEF InitAlone, Init, Held
  <2> QED BY <2>1, FS_EmptySet, RegistryAssumption DEF Bounded
<1> QED BY <1>1, BoundedInductive, RegistryTypeCorrect, PTL DEF Spec, registryVars

-----------------------------------------------------------------------------
\* No stranger's call, altered action, refused upload or reaping takes a live entry.
THEOREM NoForeignEviction == Spec => EntriesEndTheirOwnWay
<1> DEFINE Own ==
      \A r \in Reference :
        entries[r] # NoEntry /\ entries'[r] # entries[r] =>
          \/ entries[r].expires_at <= now
          \/ Len(uses'[r]) = Len(uses[r]) + 1
          \/ Forget
<1>1. UseInv /\ [Next]_registryVars => [Own]_registryVars
  <2> SUFFICES ASSUME UseInv, Next, NEW r \in Reference,
                      entries[r] # NoEntry, entries'[r] # entries[r]
               PROVE  \/ entries[r].expires_at <= now
                      \/ Len(uses'[r]) = Len(uses[r]) + 1
                      \/ Forget
    BY DEF Own
  <2>0. TypeOK /\ entries[r] \in Stored /\ entries[r].expires_at \in Nat /\ now \in Nat
    BY DEF UseInv, TypeOK, Stored
  <2>1. Reap[r] # entries[r] => entries[r].expires_at <= now
    BY <2>0 DEF Reap, Unexpired
  <2>2. Reap \in [Reference -> Stored \cup {NoEntry}]
    BY <2>0, ReapType
  <2>3. ASSUME NEW q \in Reference, NEW caller \in Caller, NEW action \in Action,
               NEW bundle \in Bundle, Register(q, caller, action, bundle)
        PROVE entries[r].expires_at <= now
    <3>1. q # r
      BY <2>3, RegistryAssumption DEF Register, UseInv, EntriesAsFiled
    <3>2. entries'[r] = Reap[r]
      BY <2>2, <2>3, <3>1 DEF Register
    <3> QED BY <2>1, <3>2
  <2>4. ASSUME entries' = Reap PROVE entries[r].expires_at <= now
    BY <2>1, <2>4
  <2>5. ASSUME NEW q \in Reference, NEW caller \in Caller, NEW action \in Action,
               Consume(q, caller, action)
        PROVE \/ entries[r].expires_at <= now
              \/ Len(uses'[r]) = Len(uses[r]) + 1
    <3>1. CASE q = r
      <4> DEFINE use == [caller |-> caller, action |-> action, at |-> now]
      <4>1. uses[r] \in Seq(Use) /\ use \in Use
        BY <2>0 DEF TypeOK, Use
      <4>2. uses'[r] = Append(uses[r], use)
        BY <2>0, <2>5, <3>1 DEF Consume, TypeOK
      <4> HIDE DEF use
      <4> QED BY <4>1, <4>2
    <3>2. CASE q # r
      <4>1. entries'[r] = Reap[r]
        BY <2>2, <2>5, <3>2 DEF Consume
      <4> QED BY <2>1, <4>1
    <3> QED BY <3>1, <3>2
  <2>6. ~ Tick
    BY DEF Tick, registry
  <2> QED BY <2>3, <2>4, <2>5, <2>6 DEF Next, Call, RefuseUse, RefuseFull
<1>2. InitAlone => UseInv
  BY RegistryAssumption DEF InitAlone, Init, TypeOK, UseInv, EntriesAsFiled, UsedOnceAsFiled
<1> QED BY <1>1, <1>2, UseInductive, RegistryTypeCorrect, PTL
        DEF Spec, EntriesEndTheirOwnWay, registryVars
=============================================================================

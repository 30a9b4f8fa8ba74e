---------------------------- MODULE LimiterProofs ----------------------------
(***************************************************************************)
(* Theorems about ScenarioLimiter, for any clients, window, limits, skew   *)
(* and stamps: the hits kept are the calls that still count, and what is   *)
(* forgotten too early is forgotten by no more than the skew.              *)
(***************************************************************************)
EXTENDS ScenarioLimiter, FiniteSetTheorems, TLAPS

Span(hits, s) == {h \in hits : s - (Window - Skew) < h.stamp /\ h.stamp <= s}

\* The calls of one client and stamp.
Alike(hits, client, s) == {h \in Of(hits, client) : h.stamp = s}

\* Every hit kept is a call that was admitted, and every such call that the latest
\* stamp's window has is kept.
KeptWhileTheyCount ==
  /\ global \subseteq admitted /\ clients \subseteq admitted
  /\ \A h \in admitted : h.stamp > latest - Window => h \in global \cap clients

\* Calls of one client and stamp are numbered from 1, so a new one is a new hit.
NumberedOn ==
  \A h \in admitted : h.number <= Cardinality(Alike(admitted, h.client, h.stamp))

LInv ==
  /\ LimiterTypeOK /\ IsFiniteSet(admitted)
  /\ KeptWhileTheyCount /\ NumberedOn /\ LimitedUpToSkew

-----------------------------------------------------------------------------
\* Any selection of hits is finite and has no more hits than they were.
LEMMA SelectionSmaller ==
  ASSUME NEW S, IsFiniteSet(S), NEW T, T \subseteq S
  PROVE  /\ IsFiniteSet(T) /\ Cardinality(T) \in Nat /\ Cardinality(S) \in Nat
         /\ Cardinality(T) <= Cardinality(S)
<1>1. IsFiniteSet(T) /\ Cardinality(T) <= Cardinality(S)
  BY FS_Subset
<1> QED BY <1>1, FS_CardinalityType

\* A selection that is old hits but for one has at most one more.
LEMMA OneMore ==
  ASSUME NEW S, IsFiniteSet(S), NEW T, NEW x, T \subseteq S \cup {x},
         NEW limit \in Nat, ~ (Cardinality(S) >= limit)
  PROVE  Cardinality(T) <= limit
<1>1. /\ IsFiniteSet(S \cup {x}) /\ Cardinality(S) \in Nat
      /\ Cardinality(S \cup {x}) <= Cardinality(S) + 1
  BY FS_AddElement, FS_CardinalityType
<1>2. /\ Cardinality(T) <= Cardinality(S \cup {x})
      /\ Cardinality(T) \in Nat /\ Cardinality(S \cup {x}) \in Nat
  BY <1>1, SelectionSmaller
<1> QED BY <1>1, <1>2

\* The call that is counted was not counted before.
LEMMA CallIsNew ==
  ASSUME LInv, NEW client \in Client, NEW now \in Stamp
  PROVE  /\ Call(client, now) \in Hit \ admitted
         /\ Call(client, now).client = client /\ Call(client, now).stamp = now
         /\ Call(client, now).number = Cardinality(Alike(admitted, client, now)) + 1
<1> DEFINE x == Call(client, now)
<1>1. Cardinality(Alike(admitted, client, now)) \in Nat
  BY SelectionSmaller DEF LInv, Alike, Of
<1>2. /\ x.client = client /\ x.stamp = now
      /\ x.number = Cardinality(Alike(admitted, client, now)) + 1
  BY DEF Call, Alike
<1>3. x \in Hit
  BY <1>1 DEF Call, Alike, Hit
<1>4. x \notin admitted
  <2> SUFFICES ASSUME x \in admitted PROVE FALSE
    OBVIOUS
  <2> HIDE DEF x
  <2>1. x.number <= Cardinality(Alike(admitted, x.client, x.stamp))
    BY DEF LInv, NumberedOn
  <2> QED BY <1>1, <1>2, <2>1
<1> QED BY <1>2, <1>3, <1>4

\* The window that a new stamp is in has no hits but those the limiter still counts.
LEMMA WindowIsCounted ==
  ASSUME LInv, NEW now \in Stamp, Seen(now), NEW s \in Stamp, now <= s
  PROVE  \A h \in Span(admitted, s) :
           h \in Trim(global, now) /\ h \in Trim(clients, now)
<1> SUFFICES ASSUME NEW h \in admitted,
                    s - (Window - Skew) < h.stamp, h.stamp <= s
             PROVE  h \in Trim(global, now) /\ h \in Trim(clients, now)
  BY DEF Span
<1>1. /\ h.stamp \in Nat /\ latest \in Nat /\ now \in Nat /\ s \in Nat
      /\ Window \in Nat /\ Skew \in Nat /\ Skew <= Window
  BY LimiterAssumption DEF LInv, LimiterTypeOK, Hit, Stamp
<1>2. h.stamp > now - Window /\ h.stamp > latest - Window
  BY <1>1 DEF Seen
<1> QED BY <1>2 DEF LInv, KeptWhileTheyCount, Trim
-----------------------------------------------------------------------------
LEMMA LInvInit == Init => LInv
<1> SUFFICES ASSUME Init PROVE LInv
  OBVIOUS
<1>1. /\ LimiterTypeOK /\ KeptWhileTheyCount /\ NumberedOn
  BY LimiterAssumption DEF Init, LimiterTypeOK, KeptWhileTheyCount, NumberedOn, Stamp
<1>2. IsFiniteSet(admitted)
  BY FS_EmptySet DEF Init
<1>3. LimitedUpToSkew
  <2>1. \A s \in Stamp : Span(admitted, s) = {}
    BY DEF Init, Span
  <2>2. \A c \in Client : Of({}, c) = {}
    BY DEF Of
  <2>3. Cardinality({}) = 0 /\ 0 <= GlobalLimit /\ 0 <= ClientLimit
    BY FS_EmptySet, LimiterAssumption
  <2>4. \A s \in Stamp :
          /\ Cardinality(Span(admitted, s)) <= GlobalLimit
          /\ \A c \in Client : Cardinality(Of(Span(admitted, s), c)) <= ClientLimit
    BY <2>1, <2>2, <2>3
  <2> QED BY <2>4 DEF LimitedUpToSkew, Span
<1> QED BY <1>1, <1>2, <1>3 DEF LInv

LEMMA AdmitKeepsLInv ==
  ASSUME LInv, NEW client \in Client, NEW now \in Stamp, Admit(client, now)
  PROVE  LInv'
<1> DEFINE x == Call(client, now)
<1>1. /\ Seen(now) /\ ~ OverBudget(client, now)
      /\ global' = Trim(global, now) \cup {x}
      /\ clients' = Trim(clients, now) \cup {x}
      /\ admitted' = admitted \cup {x}
  BY DEF Admit
<1>2. /\ x \in Hit /\ x \notin admitted /\ x.client = client /\ x.stamp = now
      /\ x.number = Cardinality(Alike(admitted, client, now)) + 1
  BY CallIsNew
<1> HIDE DEF x
<1>3. /\ IsFiniteSet(admitted) /\ global \subseteq admitted /\ clients \subseteq admitted
      /\ admitted \subseteq Hit
  BY DEF LInv, LimiterTypeOK, KeptWhileTheyCount
<1>4. LimiterTypeOK'
  BY <1>1, <1>2 DEF LInv, LimiterTypeOK, Seen, Trim
<1>5. IsFiniteSet(admitted')
  BY <1>1, <1>3, FS_AddElement
<1>6. KeptWhileTheyCount'
  <2>1. global' \subseteq admitted' /\ clients' \subseteq admitted'
    BY <1>1, <1>3 DEF Trim
  <2>2. ASSUME NEW h \in admitted', h.stamp > latest' - Window
        PROVE  h \in global' /\ h \in clients'
    <3>1. CASE h = x
      BY <1>1, <3>1
    <3>2. CASE h \in admitted
      <4>1. /\ h.stamp \in Nat /\ latest \in Nat /\ now \in Nat /\ Window \in Nat
            /\ latest' \in Nat /\ latest <= latest' /\ now <= latest'
        BY <1>1, <3>2, LimiterAssumption DEF LInv, LimiterTypeOK, Hit, Stamp, Seen
      <4>2. h.stamp > latest - Window /\ h.stamp > now - Window
        BY <2>2, <4>1
      <4> QED BY <1>1, <3>2, <4>2 DEF LInv, KeptWhileTheyCount, Trim
    <3> QED BY <1>1, <3>1, <3>2
  <2> QED BY <2>1, <2>2 DEF KeptWhileTheyCount
<1>7. NumberedOn'
  <2> SUFFICES ASSUME NEW h \in admitted'
               PROVE  h.number <= Cardinality(Alike(admitted', h.client, h.stamp))
    BY DEF NumberedOn
  <2> DEFINE A == Alike(admitted, h.client, h.stamp)
             B == Alike(admitted', h.client, h.stamp)
  <2>1. /\ IsFiniteSet(A) /\ Cardinality(A) \in Nat
        /\ IsFiniteSet(B) /\ Cardinality(B) \in Nat
    BY <1>3, <1>5, SelectionSmaller DEF Alike, Of
  <2>2. CASE h = x
    <3>1. B = A \cup {x} /\ x \notin A
      <4>1. h.client = client /\ h.stamp = now
        BY <1>2, <2>2
      <4>2. \A g : g \in B <=> g \in admitted' /\ g.client = client /\ g.stamp = now
        BY <4>1 DEF Alike, Of
      <4>3. \A g : g \in A <=> g \in admitted /\ g.client = client /\ g.stamp = now
        BY <4>1 DEF Alike, Of
      <4> HIDE DEF A, B
      <4> QED BY <1>1, <1>2, <4>2, <4>3
    <3>2. x.number = Cardinality(A) + 1
      <4>1. h.client = client /\ h.stamp = now
        BY <1>2, <2>2
      <4> QED BY <1>2, <4>1
    <3> HIDE DEF A, B
    <3>3. Cardinality(B) = Cardinality(A) + 1
      BY <2>1, <3>1, FS_AddElement
    <3> QED BY <2>1, <2>2, <3>2, <3>3 DEF B
  <2>3. CASE h \in admitted
    <3>1. A \subseteq B
      BY <1>1 DEF Alike, Of
    <3> HIDE DEF A, B
    <3>2. Cardinality(A) <= Cardinality(B)
      BY <2>1, <3>1, SelectionSmaller
    <3>3. h.number \in Nat
      BY <1>3, <2>3 DEF Hit
    <3>4. h.number <= Cardinality(A)
      BY <2>3 DEF LInv, NumberedOn, A
    <3> QED BY <2>1, <3>2, <3>3, <3>4 DEF B
  <2> QED BY <1>1, <2>2, <2>3
<1>8. LimitedUpToSkew'
  <2> SUFFICES ASSUME NEW s \in Stamp
               PROVE  /\ Cardinality(Span(admitted', s)) <= GlobalLimit
                      /\ \A c \in Client :
                           Cardinality(Of(Span(admitted', s), c)) <= ClientLimit
    BY DEF LimitedUpToSkew, Span
  <2>1. CASE x \notin Span(admitted', s)
    <3>1. Span(admitted', s) = Span(admitted, s)
      BY <1>1, <2>1 DEF Span
    <3> QED BY <3>1 DEF LInv, LimitedUpToSkew, Span
  <2>2. CASE x \in Span(admitted', s)
    <3>1. \A h \in Span(admitted, s) : h \in Trim(global, now) /\ h \in Trim(clients, now)
      BY <1>1, <1>2, <2>2, WindowIsCounted DEF Span
    <3>2. Span(admitted', s) \subseteq Span(admitted, s) \cup {x}
      BY <1>1 DEF Span
    <3>3. IsFiniteSet(Trim(global, now)) /\ IsFiniteSet(Trim(Of(clients, client), now))
      BY <1>3, SelectionSmaller DEF Trim, Of
    <3>4. /\ ~ (Cardinality(Trim(global, now)) >= GlobalLimit)
          /\ ~ (Cardinality(Trim(Of(clients, client), now)) >= ClientLimit)
          /\ GlobalLimit \in Nat /\ ClientLimit \in Nat
      BY <1>1, LimiterAssumption DEF OverBudget
    <3>5. Cardinality(Span(admitted', s)) <= GlobalLimit
      <4>1. Span(admitted', s) \subseteq Trim(global, now) \cup {x}
        BY <3>1, <3>2
      <4> QED BY <3>3, <3>4, <4>1, OneMore
    <3>6. ASSUME NEW c \in Client
          PROVE  Cardinality(Of(Span(admitted', s), c)) <= ClientLimit
      <4>1. CASE c = client
        <5>1. Of(Span(admitted', s), client) \subseteq Trim(Of(clients, client), now) \cup {x}
          BY <3>1, <3>2 DEF Of, Trim
        <5> QED BY <3>3, <3>4, <4>1, <5>1, OneMore
      <4>2. CASE c # client
        <5>1. Of(Span(admitted', s), c) = Of(Span(admitted, s), c)
          BY <1>1, <1>2, <4>2 DEF Span, Of
        <5> QED BY <5>1 DEF LInv, LimitedUpToSkew, Span
      <4> QED BY <4>1, <4>2
    <3> QED BY <3>5, <3>6
  <2> QED BY <2>1, <2>2
<1> QED BY <1>4, <1>5, <1>6, <1>7, <1>8 DEF LInv

LEMMA RefuseKeepsLInv ==
  ASSUME LInv, NEW client \in Client, NEW now \in Stamp, Refuse(client, now)
  PROVE  LInv'
<1>1. Seen(now) /\ clients' = Trim(clients, now) /\ UNCHANGED <<global, admitted>>
  BY DEF Refuse
<1>2. LimiterTypeOK'
  BY <1>1 DEF LInv, LimiterTypeOK, Seen, Trim
<1>3. IsFiniteSet(admitted') /\ NumberedOn' /\ LimitedUpToSkew'
  BY <1>1 DEF LInv, NumberedOn, LimitedUpToSkew
<1>4. KeptWhileTheyCount'
  <2>1. global' \subseteq admitted' /\ clients' \subseteq admitted'
    BY <1>1 DEF LInv, KeptWhileTheyCount, Trim
  <2>2. ASSUME NEW h \in admitted, h.stamp > latest' - Window
        PROVE  h \in global' /\ h \in clients'
    <3>1. /\ h.stamp \in Nat /\ latest \in Nat /\ now \in Nat /\ Window \in Nat
          /\ latest' \in Nat /\ latest <= latest' /\ now <= latest'
      BY <1>1, LimiterAssumption DEF LInv, LimiterTypeOK, Hit, Stamp, Seen
    <3>2. h.stamp > latest - Window /\ h.stamp > now - Window
      BY <2>2, <3>1
    <3> QED BY <1>1, <3>2 DEF LInv, KeptWhileTheyCount, Trim
  <2> QED BY <1>1, <2>1, <2>2 DEF KeptWhileTheyCount
<1> QED BY <1>2, <1>3, <1>4 DEF LInv

LEMMA LInvStep == LInv /\ [Next]_limiter => LInv'
<1> SUFFICES ASSUME LInv, [Next]_limiter PROVE LInv'
  OBVIOUS
<1>1. CASE UNCHANGED limiter
  BY <1>1
  DEF limiter, LInv, LimiterTypeOK, KeptWhileTheyCount, NumberedOn, LimitedUpToSkew
<1>2. CASE Next
  BY <1>2, AdmitKeepsLInv, RefuseKeepsLInv DEF Next
<1> QED BY <1>1, <1>2
-----------------------------------------------------------------------------
\* The limiter's inductive invariant: it keeps every call that the latest stamp's
\* window has, and no call that was not admitted.
THEOREM LInvCorrect == Spec => []LInv
BY LInvInit, LInvStep, PTL DEF Spec

\* The hits keep their types.
THEOREM LimiterTypeCorrect == Spec => []LimiterTypeOK
<1>1. LInv => LimiterTypeOK
  BY DEF LInv
<1> QED BY LInvCorrect, <1>1, PTL

\* However late and out of order stamps arrive, no window shorter than the nominal
\* one by the skew has more admitted calls than the limits.
THEOREM LimitsHoldUpToSkew == Spec => []LimitedUpToSkew
<1>1. LInv => LimitedUpToSkew
  BY DEF LInv
<1> QED BY LInvCorrect, <1>1, PTL

\* Every call that is allowed counts, and for one: no earlier call is taken for it.
THEOREM EveryCallCounts ==
  Spec => [][\A client \in Client, now \in Stamp :
               Admit(client, now) =>
                 Cardinality(admitted') = Cardinality(admitted) + 1]_limiter
<1>1. ASSUME LInv, NEW client \in Client, NEW now \in Stamp, Admit(client, now)
      PROVE  Cardinality(admitted') = Cardinality(admitted) + 1
  <2>1. /\ Call(client, now) \notin admitted
        /\ admitted' = admitted \cup {Call(client, now)}
        /\ IsFiniteSet(admitted)
    BY <1>1, CallIsNew DEF Admit, LInv
  <2> QED BY <2>1, FS_AddElement
<1>2. LInv /\ [Next]_limiter =>
        [\A client \in Client, now \in Stamp :
           Admit(client, now) => Cardinality(admitted') = Cardinality(admitted) + 1]_limiter
  BY <1>1
<1> QED BY LInvCorrect, <1>2, PTL DEF Spec

\* A call is refused only when as many calls as a limit were admitted since its
\* window began: refused calls never count.
THEOREM NobodyIsRefusedEarly == Spec => RefusedOnlyWhenSpent
<1> DEFINE Spent(client, now) ==
             LET since == {h \in admitted : h.stamp > now - Window} IN
             \/ Cardinality(since) >= GlobalLimit
             \/ Cardinality(Of(since, client)) >= ClientLimit
<1>1. ASSUME LInv, NEW client \in Client, NEW now \in Stamp, Refuse(client, now)
      PROVE  Spent(client, now)
  <2> DEFINE since == {h \in admitted : h.stamp > now - Window}
  <2>1. IsFiniteSet(admitted) /\ global \subseteq admitted /\ clients \subseteq admitted
    BY <1>1 DEF LInv, KeptWhileTheyCount
  <2>2. IsFiniteSet(since) /\ IsFiniteSet(Of(since, client))
    BY <2>1, SelectionSmaller DEF Of
  <2>3. GlobalLimit \in Nat /\ ClientLimit \in Nat
    BY LimiterAssumption
  <2>4. CASE Cardinality(Trim(global, now)) >= GlobalLimit
    <3>1. Trim(global, now) \subseteq since
      BY <2>1 DEF Trim
    <3>2. /\ Cardinality(Trim(global, now)) <= Cardinality(since)
          /\ Cardinality(Trim(global, now)) \in Nat /\ Cardinality(since) \in Nat
      BY <2>2, <3>1, SelectionSmaller
    <3> QED BY <2>3, <2>4, <3>2
  <2>5. CASE Cardinality(Trim(Of(clients, client), now)) >= ClientLimit
    <3>1. Trim(Of(clients, client), now) \subseteq Of(since, client)
      BY <2>1 DEF Trim, Of
    <3>2. /\ Cardinality(Trim(Of(clients, client), now)) <= Cardinality(Of(since, client))
          /\ Cardinality(Trim(Of(clients, client), now)) \in Nat
          /\ Cardinality(Of(since, client)) \in Nat
      BY <2>2, <3>1, SelectionSmaller
    <3> QED BY <2>3, <2>5, <3>2
  <2> QED BY <1>1, <2>4, <2>5 DEF Refuse, OverBudget
<1>2. LInv /\ [Next]_limiter =>
        [\A client \in Client, now \in Stamp :
           Refuse(client, now) => Spent(client, now)]_limiter
  BY <1>1
<1> QED BY LInvCorrect, <1>2, PTL DEF Spec, RefusedOnlyWhenSpent
=============================================================================

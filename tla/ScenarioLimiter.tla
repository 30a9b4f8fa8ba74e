-------------------------- MODULE ScenarioLimiter --------------------------
(***************************************************************************)
(* ScenarioLimiter (apps/demo-console/worker/src/index.ts): the Durable    *)
(* Object that counts scenario calls per client and over all clients in a  *)
(* sliding window.                                                         *)
(*                                                                         *)
(* Its transactions are serialized, but the time a call counts at is read  *)
(* by a Worker instance before the call is sent: stamps arrive late and    *)
(* out of order, and a later stamp trims what an earlier one would still   *)
(* have counted.  Skew bounds how far a stamp is behind the latest one.    *)
(*                                                                         *)
(* An array of hits is kept as a set of the calls it stands for: nothing   *)
(* but the stamps and the number of hits is ever used, and a call's number *)
(* tells it from its client's other calls of the same stamp.               *)
(***************************************************************************)
EXTENDS Integers, FiniteSets

CONSTANTS
  Client,       \* CF-Connecting-IP
  Window,       \* WINDOW_MS
  GlobalLimit,  \* GLOBAL_LIMIT
  ClientLimit,  \* PER_CLIENT_LIMIT
  Skew,         \* how much later than its stamp a call may be counted
  MaxStamp      \* bound: the last instant

Stamp == 0..MaxStamp

ASSUME LimiterAssumption ==
  /\ Window \in Nat \ {0} /\ Skew \in 0..Window /\ MaxStamp \in Nat
  /\ GlobalLimit \in Nat \ {0} /\ ClientLimit \in Nat \ {0}

VARIABLES
  global,    \* the hits under "global"
  clients,   \* the hits under "client:...", of all clients
  admitted,  \* history: the calls allowed
  latest     \* history: the latest stamp seen

limiter == <<global, clients, admitted, latest>>

Hit == [client : Client, stamp : Stamp, number : Nat \ {0}]

LimiterTypeOK ==
  /\ global \subseteq Hit
  /\ clients \subseteq Hit
  /\ admitted \subseteq Hit
  /\ latest \in Stamp

Init ==
  /\ global = {}
  /\ clients = {}
  /\ admitted = {}
  /\ latest = 0

-----------------------------------------------------------------------------
\* trim
Trim(hits, now) == {h \in hits : h.stamp > now - Window}

Of(hits, client) == {h \in hits : h.client = client}

\* Fault: the limits are compared as if the new call were counted already.
OverBudgetLate(client, now) ==
  \/ Cardinality(Trim(global, now)) > GlobalLimit
  \/ Cardinality(Trim(Of(clients, client), now)) > ClientLimit

OverBudget(client, now) ==
  \/ Cardinality(Trim(global, now)) >= GlobalLimit
  \/ Cardinality(Trim(Of(clients, client), now)) >= ClientLimit

Seen(now) ==
  /\ now >= latest - Skew
  /\ latest' = IF now > latest THEN now ELSE latest

Call(client, now) ==
  [client |-> client, stamp |-> now,
   number |-> Cardinality({h \in Of(admitted, client) : h.stamp = now}) + 1]

\* Every call trims the hits of all clients at its own stamp; only an admitted one
\* writes the global hits.
Admit(client, now) ==
  /\ Seen(now)
  /\ ~ OverBudget(client, now)
  /\ global' = Trim(global, now) \cup {Call(client, now)}
  /\ clients' = Trim(clients, now) \cup {Call(client, now)}
  /\ admitted' = admitted \cup {Call(client, now)}

\* Fault: a refused call counts.
RefuseCounting(client, now) ==
  /\ Seen(now)
  /\ OverBudget(client, now)
  /\ global' = Trim(global, now) \cup {Call(client, now)}
  /\ clients' = Trim(clients, now) \cup {Call(client, now)}
  /\ UNCHANGED admitted

Refuse(client, now) ==
  /\ Seen(now)
  /\ OverBudget(client, now)
  /\ clients' = Trim(clients, now)
  /\ UNCHANGED <<global, admitted>>

Next == \E client \in Client, now \in Stamp : Admit(client, now) \/ Refuse(client, now)

Spec == Init /\ [][Next]_limiter

-----------------------------------------------------------------------------
(***************************************************************************)
(* Properties.                                                             *)
(***************************************************************************)

\* In whatever order stamps arrive, no window shorter than the nominal one by the
\* skew has more admitted calls than the limits.  The limits of the nominal window,
\* which README.md calls exact, are kept when no stamp is late: a later one trims
\* hits that an earlier one would have counted.
LimitedUpToSkew ==
  \A s \in Stamp :
    LET span == {h \in admitted : s - (Window - Skew) < h.stamp /\ h.stamp <= s} IN
    /\ Cardinality(span) <= GlobalLimit
    /\ \A c \in Client : Cardinality(Of(span, c)) <= ClientLimit

\* Nobody is refused for less than a spent budget: of the calls admitted since a
\* refused one's window began, as many as a limit were counted for it.
RefusedOnlyWhenSpent ==
  [][\A client \in Client, now \in Stamp :
       Refuse(client, now) =>
         LET since == {h \in admitted : h.stamp > now - Window} IN
         \/ Cardinality(since) >= GlobalLimit
         \/ Cardinality(Of(since, client)) >= ClientLimit]_limiter
=============================================================================

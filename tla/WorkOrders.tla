----------------------------- MODULE WorkOrders -----------------------------
(***************************************************************************)
(* What the receiver promises its callers, with nothing of how: a grant is *)
(* issued for one work order, may lapse at any time, and is performed at   *)
(* most once, exactly as granted.  A performed or lapsed grant never opens *)
(* again.                                                                  *)
(***************************************************************************)
EXTENDS Integers

CONSTANTS Challenge, Terms, NoGrant

VARIABLES
  grant,  \* the terms every challenge was issued for
  open,   \* the challenges that may still be performed
  runs,   \* how often each was performed
  works   \* what was performed: <<challenge, terms>>

vars == <<grant, open, runs, works>>

Init ==
  /\ grant = [c \in Challenge |-> NoGrant]
  /\ open = {}
  /\ runs = [c \in Challenge |-> 0]
  /\ works = {}

Lapse ==
  /\ open' \subseteq open
  /\ UNCHANGED <<grant, runs, works>>

\* A challenge is issued; others may lapse in the same step.
Issue(c) ==
  /\ grant[c] = NoGrant
  /\ grant'[c] \in Terms
  /\ grant' = [grant EXCEPT ![c] = grant'[c]]
  /\ c \in open'
  /\ open' \subseteq open \cup {c}
  /\ UNCHANGED <<runs, works>>

Perform(c) ==
  /\ c \in open
  /\ open' = open \ {c}
  /\ runs' = [runs EXCEPT ![c] = @ + 1]
  /\ works' = works \cup {<<c, grant[c]>>}
  /\ UNCHANGED grant

Next == Lapse \/ \E c \in Challenge : Issue(c) \/ Perform(c)

Spec == Init /\ [][Next]_vars
=============================================================================

----------------------------- MODULE MCReceiver -----------------------------
(***************************************************************************)
(* Instances of Receiver for TLC: a seller's small world with two callers, *)
(* two agents, two requests and the proofs the tests and the live gate     *)
(* present.                                                                *)
(***************************************************************************)
EXTENDS Receiver, TLC

Work(request, resource, amount) ==
  [request_id |-> request, resource |-> resource, category |-> "electrical",
   currency |-> "USD", amount_minor |-> amount]

Small     == Work("r1", "seattle", 1)
Altered   == Work("r1", "seattle", 2)
Excessive == Work("r2", "seattle", 3)
Malformed == Work("r2", "seattle", 9)

Cert(id, issuer, subject, expires, constraints) ==
  [cert_id |-> id, issuer |-> issuer, subject |-> subject, expires_at |-> expires,
   scope |-> {"work_order:create"}, constraints |-> constraints]

Bounds == BoundedConstraints("seattle", "electrical", 2, "USD", "receiver")

CertA     == Cert("certA", "root", "a1", 2, Bounds)
CertB     == Cert("certB", "root", "a2", 9, Bounds)
Unbounded == Cert("certU", "root", "a1", 9, SubSeq(Bounds, 3, 4))
Elsewhere == Cert("certE", "root", "a1", 9,
                  BoundedConstraints("seattle", "electrical", 2, "USD", "other"))
Tight     == Cert("certT", "root", "a1", 9,
                  BoundedConstraints("seattle", "electrical", 0, "USD", "receiver"))
Hostile   == Cert("certH", "mallory", "a1", 9, Bounds)

Proof(agent, signer, context, delegations) ==
  [agent_id |-> agent, signer |-> signer, context |-> context,
   delegations |-> delegations]

Genuine  == Proof("a1", "a1", Small, <<CertA>>)
Copied   == Proof("a1", "a2", Small, <<CertA>>)
Borrowed == Proof("a2", "a2", Small, <<CertA>>)

\* A chain of two: the root delegates to a2, a2 to a1; and a broken one.
Deputy     == Cert("certD", "a2", "a1", 9, Bounds)
Delegated  == Proof("a1", "a1", Small, <<Deputy, CertB>>)
Detached   == Proof("a1", "a1", Small, <<Deputy, CertA>>)
NoChain    == Proof("a1", "a1", Small, << >>)
Foreign    == Proof("a1", "a1", Small, <<Hostile>>)
Loose      == Proof("a1", "a1", Small, <<Unbounded>>)
Astray     == Proof("a1", "a1", Small, <<Elsewhere>>)
Greedy     == Proof("a1", "a1", Small, <<Tight>>)

MCCertificate == {CertA, Tight, CertB, Deputy, Unbounded, Elsewhere, Hostile}
ConcurrentActions == {Small, Altered, Malformed}
ConcurrentProofs  == {Genuine, Copied, Borrowed}

\* Every kind of proof against lists that revoke, go stale and are put back.
VariedActions == {Small, Malformed}
VariedProofs  == {Genuine, Greedy, Loose, Astray, Foreign, NoChain, Delegated, Detached}

\* One caller, one agent, the fewest proofs: the refuted claim.
SoloActions == {Small, Malformed}
SoloProofs  == {Genuine, Astray}

MCSubject == [c1 |-> "a1", c2 |-> "a2"]

SoloSubject == [c1 |-> "a1"]

Challenges == Permutations(Challenge)
Symmetric  == Challenges \cup Permutations(Thread)
=============================================================================

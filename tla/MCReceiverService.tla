-------------------------- MODULE MCReceiverService --------------------------
(***************************************************************************)
(* ReceiverService for TLC: the flows of the acceptance scenarios against  *)
(* one receiver, an honest one beside one that borrows and replays.        *)
(***************************************************************************)
EXTENDS ReceiverService, TLC

Work(request, amount) ==
  [request_id |-> request, resource |-> "seattle", category |-> "electrical",
   currency |-> "USD", amount_minor |-> amount]

Mine    == Work("r1", 1)
Theirs  == Work("r2", 1)
Altered == Work("r2", 2)

Cert(id, subject) ==
  [cert_id |-> id, issuer |-> "root", subject |-> subject, expires_at |-> 9,
   scope |-> {"work_order:create"},
   constraints |-> BoundedConstraints("seattle", "electrical", 2, "USD", "receiver")]

CertA == Cert("certA", "a1")
CertB == Cert("certB", "a2")

Proof(agent, signer, context, cert) ==
  [agent_id |-> agent, signer |-> signer, context |-> context, delegations |-> <<cert>>]

Genuine  == Proof("a1", "a1", Mine, CertA)
Peer     == Proof("a2", "a2", Theirs, CertB)
Borrowed == Proof("a2", "a2", Theirs, CertA)

MCAction       == {Mine, Theirs, Altered}
MCCertificate  == {CertA, CertB}
MCPresentation == {Genuine, Peer, Borrowed}
MCSubject      == [c1 |-> "a1", c2 |-> "a2"]

Entry(caller, action, dispatched, replay, proof) ==
  [caller |-> caller, action |-> action, dispatched |-> dispatched,
   replay |-> replay, proof |-> proof]

CONSTANTS f1, f2

\* One honest flow, and one that presents somebody else's certificate and sends
\* its call twice.
MCScript == (f1 :> Entry("c1", Mine, Mine, FALSE, Genuine))
         @@ (f2 :> Entry("c2", Theirs, Theirs, TRUE, Borrowed))
=============================================================================

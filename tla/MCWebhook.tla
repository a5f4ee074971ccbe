----------------------------- MODULE MCWebhook -----------------------------
(***************************************************************************)
(* Instances of WebhookIngest for TLC: leads that may share an address,    *)
(* and the events of one mail, of every type and with every kind of key.   *)
(***************************************************************************)
EXTENDS WebhookIngest, TLC

CONSTANTS l1, l2, a1, own, h1, h2, i1, i2

Mail(type, reply, n) ==
  [type |-> type, reply |-> reply, sent |-> i1, to |-> a1, from |-> own, n |-> n]

Reply(reply, sent, n) ==
  [type |-> "replied", reply |-> reply, sent |-> sent, to |-> own, from |-> a1, n |-> n]

\* One mail of each type but 'replied', and replies of which two fall back to one sent
\* id, one has an id of its own, and one falls back to its type and address.
Reports == {Mail("delivered", NoId, 1), Mail("opened", NoId, 1), Mail("bounced", NoId, 1)}
Replies == {Reply(NoId, i1, 1), Reply(NoId, i1, 2), Reply(i2, i1, 1)}
Bare == {Reply(NoId, NoId, 1)}

Mixed == Reports \cup Replies \cup {Mail("sent", NoId, 1)}
AllReplies == Replies \cup Bare

Symmetry == Permutations(Handlers) \cup Permutations(Leads)
=============================================================================

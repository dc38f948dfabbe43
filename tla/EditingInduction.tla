------------------------- MODULE EditingInduction --------------------------
(* The inductive invariant of Editing: ids are handed out in order, dates  *)
(* go with the order of writing, and what a request has read of a row's    *)
(* owner, thread and date stays true because only texts are updated.       *)
EXTENDS Editing

Numbered(f) ==
  IsFiniteSet(DOMAIN f) /\ DOMAIN f = 1 .. Cardinality(DOMAIN f)

(* A thread has its opening post, and no post is older than its thread.    *)
RowsAreOrdered ==
  /\ Numbered(thread) /\ Numbered(post)
  /\ \A t \in DOMAIN thread :
       thread[t].date <= clock /\ \E p \in DOMAIN post : post[p].thread = t
  /\ \A p \in DOMAIN post :
       /\ post[p].thread \in DOMAIN thread
       /\ thread[post[p].thread].date <= post[p].date
       /\ post[p].date <= clock

(* The row that an edit has found.  Of a thread edit it is a post of the   *)
(* thread; the thread in the URL of a post edit is any.                    *)
EditNamesRows(r) ==
  /\ pc[r] \in {"form", "subject", "body"} => req[r].post \in DOMAIN post
  /\ pc[r] \in {"form", "subject", "body"} /\ req[r].op = "thread" =>
       /\ req[r].thread \in DOMAIN thread
       /\ post[req[r].post].thread = req[r].thread
  /\ pc[r] = "subject" => req[r].op = "thread"

(* What a page has read.                                                   *)
PageHasRead(r) ==
  /\ pc[r] \in {"subjectById", "posts"} =>
       /\ req[r].op = "posts" /\ req[r].thread \in DOMAIN thread \cup {NoId}
       /\ req[r].thread \in DOMAIN thread => req[r].known # {}
       /\ \A p \in req[r].known :
            p \in DOMAIN post /\ post[p].thread = req[r].thread
  /\ pc[r] = "posts" => req[r].thread \in DOMAIN thread
  /\ pc[r] = "shown" /\ req[r].op = "posts" =>
       req[r].shown \subseteq DOMAIN post /\ req[r].offered \subseteq DOMAIN post
  /\ pc[r] = "shown" /\ req[r].op = "threads" =>
       req[r].offered \subseteq DOMAIN thread

Local(r) ==
  /\ EditNamesRows(r) /\ PageHasRead(r)
  /\ OfferIsAccepted(r) /\ ThreadIsWhole(r)

IInv ==
  /\ TypeOK
  /\ RowsAreOrdered
  /\ \A r \in Request : Local(r)
=============================================================================

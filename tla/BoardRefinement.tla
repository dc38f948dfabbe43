--------------------------- MODULE BoardRefinement ---------------------------
(***************************************************************************)
(* Board implements BoardSpec: the committed tables, without the two date  *)
(* columns BoardSpec does not promise, are the abstract state; COMMIT is   *)
(* the abstract step and every other step a stutter.                       *)
(***************************************************************************)
EXTENDS Board

MemberSummary ==
  [m \in Member |-> [threads |-> member[m].threads, posts |-> member[m].posts]]

ThreadSummary ==
  [t \in DOMAIN thread |->
     [member |-> thread[t].member, first |-> thread[t].first,
      posts |-> thread[t].posts, last |-> thread[t].last]]

Atomic == INSTANCE BoardSpec WITH member <- MemberSummary,
                                  thread <- ThreadSummary

(* To every reader of the committed tables, posting is atomic and every    *)
(* summary is recounted at once: overlapping transactions, failures and    *)
(* lost answers never show.                                                *)
PostingIsAtomic == Atomic!Spec

=============================================================================

------------------------------ MODULE BoardSpec ------------------------------
(***************************************************************************)
(* What posting to the board promises: a post appears in one step, alone   *)
(* or with the thread it opens, and in that same step every summary the    *)
(* tables keep is what a count of the posts would give.  The dates in      *)
(* thread.date_last_posted and member.last_post are not promised: see      *)
(* LastPostDated in Board.                                                 *)
(***************************************************************************)
EXTENDS Integers, FiniteSets

CONSTANT Member

VARIABLES board,   \* [threads, posts]
          member,  \* member -> [threads, posts]
          thread,  \* id -> [member, first, posts, last]
          post     \* id -> [thread, member, date]

vars == <<board, member, thread, post>>

PostsIn(t) == {p \in DOMAIN post : post[p].thread = t}
Oldest(S) == {p \in S : \A q \in S : post[p].date <= post[q].date}
Newest(S) == {p \in S : \A q \in S : post[q].date <= post[p].date}

(* The summaries, computed from the posts and threads themselves.          *)
Summarised ==
  /\ board = [threads |-> Cardinality(DOMAIN thread),
              posts |-> Cardinality(DOMAIN post)]
  /\ member = [m \in Member |->
        [threads |-> Cardinality({t \in DOMAIN thread : thread[t].member = m}),
         posts |-> Cardinality({p \in DOMAIN post : post[p].member = m})]]
  /\ \A t \in DOMAIN thread :
        /\ thread[t].posts = Cardinality(PostsIn(t))
        /\ thread[t].first \in Oldest(PostsIn(t))
        /\ \E p \in Newest(PostsIn(t)) : thread[t].last = post[p].member

Init ==
  /\ DOMAIN post = {}
  /\ DOMAIN thread = {}
  /\ Summarised

(* The new post p goes to a thread that exists, or opens one of its own.   *)
Publish(p) ==
  LET t == post'[p].thread
  IN  /\ DOMAIN post' = DOMAIN post \cup {p}
      /\ \A q \in DOMAIN post : post'[q] = post[q]
      /\ DOMAIN thread' = DOMAIN thread \cup {t}
      /\ \A u \in DOMAIN thread \ {t} : thread'[u] = thread[u]
      /\ IF t \in DOMAIN thread
           THEN thread'[t].member = thread[t].member
           ELSE thread'[t].member = post'[p].member
      /\ Summarised'

Next == \E p \in DOMAIN post' \ DOMAIN post : Publish(p)

Spec == Init /\ [][Next]_vars

=============================================================================

-------------------------- MODULE SignInInduction --------------------------
(***************************************************************************)
(* The inductive invariant behind the safety properties of SignIn: what    *)
(* the rows of unfinished transactions and the values a request read       *)
(* earlier still say about the committed tables.                           *)
(***************************************************************************)
EXTENDS SignIn

KeyHolder == {"countUp", "profile", "commit"}

(* An unfinished INSERT excludes every other one of its address, done or   *)
(* under way.                                                              *)
KeyInv ==
  /\ \A q \in Request : pc[q] \in KeyHolder => ~Taken(Lower(tx[q].email))
  /\ \A q, r \in Request :
       /\ pc[q] \in KeyHolder /\ pc[r] \in KeyHolder
       /\ Lower(tx[q].email) = Lower(tx[r].email)
       => q = r

(* One transaction at a time has counted itself, from the committed total. *)
TotalInv ==
  /\ \A q, r \in Request : HoldsBoard(q) /\ HoldsBoard(r) => q = r
  /\ \A q \in Request : HoldsBoard(q) => tx[q].total = total + 1

(* While the board has no members, whoever counted them found none.        *)
EmptyInv ==
  DOMAIN member = {} =>
    \A r \in Request :
      /\ pc[r] = "find" => tx[r].empty
      /\ pc[r] \in {"insert"} \cup KeyHolder => tx[r].admin

(* A block is never undone, and a request that gets as far as the decision *)
(* has read it.                                                            *)
BlockInv ==
  \A r \in Request : pc[r] \notin {"idle", "unauthorized"} =>
    (tx[r].wasBlocked => /\ BlockedAddress(Lower(tx[r].email))
                         /\ pc[r] = "decide" => tx[r].blocked)

IInv ==
  /\ TypeOK
  /\ IsFiniteSet(DOMAIN member)
  /\ SignUpIsWhole
  /\ OneMemberPerAddress
  /\ SomeoneIsAdmin
  /\ DuplicateHasMember
  /\ BlockedStaysOut
  /\ KeyInv
  /\ TotalInv
  /\ EmptyInv
  /\ BlockInv

=============================================================================

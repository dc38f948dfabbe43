------------------------------ MODULE MCSignIn ------------------------------
(* Sign-in with model values for addresses, spellings and requests.        *)
EXTENDS SignInInduction

(* SignIn does the same with every request, so what it does with one of    *)
(* them it does with all: each request that comes in is answered, although *)
(* first visits wait for each other and for a connection.                  *)
EveryRequestAnswered == IsAnswered(CHOOSE r \in Request : TRUE)

=============================================================================

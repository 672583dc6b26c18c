----------------------------- MODULE MCCawClient -----------------------------
(* A small instance of CawClient for TLC: three of the six functions.  The
   table of the Go client has no hashtag (caw_client.go:26-32). *)
EXTENDS CawClient, TLC

CONSTANTS c1, c2

CppAndGo == c1 :> "cpp" @@ c2 :> "go"

Tables == [cpp |-> [caw |-> 2, read |-> 3, hashtag |-> 6],
           go |-> [caw |-> 2, read |-> 3]]
=============================================================================

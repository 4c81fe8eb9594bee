--------------------------- MODULE MCHttpServer ---------------------------
(* Instances of HttpServer for TLC. *)
EXTENDS HttpServer, TLC

CONSTANTS c1, c2, c3

\* The requests are numbered across clients.
ThreeClients == c1 :> <<"r1", "r2">> @@ c2 :> <<>> @@ c3 :> <<>>
TwoRequests == c1 :> <<"r1", "r2">>

Name == {"r1", "r2", "r3"}

NoHeader == [r \in Name |-> ""]
FirstCloses == [r \in Name |-> IF r = "r1" THEN "Connection" ELSE ""]
=============================================================================

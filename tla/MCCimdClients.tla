---------------------------- MODULE MCCimdClients ----------------------------
(* TLC instances of CimdClients. *)
EXTENDS CimdClients, TLC

CONSTANTS loop, web, p1, p2

mcBase == {loop, web}
mcLoopbackBase == {loop}
mcPort == {p1, p2}

At(base, port) == [base |-> base, port |-> port]

(* A native client declares a loopback redirect, a web client another. *)
mcDocuments == {{At(loop, p1)}, {At(web, p1)}}
(* One is enough where redirects play no part. *)
mcOneDocument == {{At(loop, p1)}}
mcRequested == {At(loop, p2), At(web, p1), At(web, p2)}
mcOneRequested == {At(loop, p2)}

Symmetry == Permutations(Url) \cup Permutations(Request)
===============================================================================

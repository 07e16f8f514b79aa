--------------------------- MODULE MCClientSessions ---------------------------
(* TLC instance of ClientSessions. *)
EXTENDS ClientSessions, TLC

(***************************************************************************)
(* Sessions, bearers, clients and calls are interchangeable.               *)
(***************************************************************************)
Symmetry == Permutations(Session) \cup Permutations(Bearer)
            \cup Permutations(Client) \cup Permutations(Call)
===============================================================================

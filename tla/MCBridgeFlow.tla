----------------------------- MODULE MCBridgeFlow -----------------------------
(* TLC instances of BridgeFlow. *)
EXTENDS BridgeFlow, TLC

(***************************************************************************)
(* Ids, codes and requests are interchangeable: no definition names one.   *)
(* Used by the safety runs only.                                           *)
(***************************************************************************)
Symmetry == Permutations(SessionId) \cup Permutations(AuthCode)
            \cup Permutations(Post) \cup Permutations(Redemption)
===============================================================================

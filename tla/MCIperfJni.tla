----------------------------- MODULE MCIperfJni -----------------------------
(* Two calls: the first sends, the second receives. *)
EXTENDS IperfJni, TLC
CONSTANTS a, b
MCMode == (a :> "SENDER") @@ (b :> "RECEIVER")
=============================================================================

---------------------------- MODULE Registration ----------------------------
(***************************************************************************)
(* What enrollment promises, with no proofs, replies or retries: a process *)
(* claims an identity for a challenge, and the kernel registers only what  *)
(* some process claimed, at most one claim for each challenge, and for     *)
(* good.                                                                   *)
(***************************************************************************)
VARIABLES
  claimed,   \* claims some process has made, each with a field challenge
  registry   \* claims the kernel has registered

vars == <<claimed, registry>>

Init ==
  /\ claimed = {}
  /\ registry = {}

MakeClaims ==
  /\ claimed \subseteq claimed'
  /\ UNCHANGED registry

Register(c) ==
  /\ \A r \in registry : r.challenge # c.challenge
  /\ registry' = registry \cup {c}
  /\ UNCHANGED claimed

Next ==
  \/ MakeClaims
  \/ \E c \in claimed : Register(c)

Spec == Init /\ [][Next]_vars
=============================================================================

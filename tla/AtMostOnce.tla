---------------------------- MODULE AtMostOnce ----------------------------
(***************************************************************************)
(* What a service that remembers the requests it verified promises: it     *)
(* acts on what somebody asked for and on nothing twice.                   *)
(***************************************************************************)
EXTENDS Sequences

VARIABLES
  asked,  \* what has been asked for
  log     \* what was acted on, in that order

vars == <<asked, log>>

Init ==
  /\ asked = {}
  /\ log = << >>

Ask ==
  /\ asked \subseteq asked'
  /\ UNCHANGED log

Act(r) ==
  /\ \A i \in DOMAIN log : log[i] # r
  /\ log' = Append(log, r)
  /\ UNCHANGED asked

Next == Ask \/ \E r \in asked : Act(r)

Spec == Init /\ [][Next]_vars
=============================================================================

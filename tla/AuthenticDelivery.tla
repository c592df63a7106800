------------------------- MODULE AuthenticDelivery -------------------------
(***************************************************************************)
(* What signing and verification promise together, with no keys, no wire   *)
(* format and no cache: a signer attests statements (what is asked, by     *)
(* whom, and between which times), and a receiver is handed only           *)
(* statements that were attested, at a time within their window.           *)
(***************************************************************************)
EXTENDS Integers

CONSTANTS
  Statements,  \* records with at least the fields created and expires
  Times,       \* the times a receiver's clock may show
  Validity,    \* longest window a signer may attest
  Skew         \* tolerance on either side of the window

VARIABLES
  attested,    \* statements some signer has attested
  delivered    \* [statement, now] pairs a receiver has accepted

vars == <<attested, delivered>>

Init ==
  /\ attested = {}
  /\ delivered = {}

Attest(s) ==
  /\ s.created < s.expires
  /\ s.expires <= s.created + Validity
  /\ attested' = attested \cup {s}
  /\ UNCHANGED delivered

Fresh(s, now) == s.created - Skew <= now /\ now <= s.expires + Skew

Deliver(s, now) ==
  /\ Fresh(s, now)
  /\ delivered' = delivered \cup {[statement |-> s, now |-> now]}
  /\ UNCHANGED attested

Next ==
  \/ \E s \in Statements : Attest(s)
  \/ \E s \in attested, now \in Times : Deliver(s, now)

Spec == Init /\ [][Next]_vars
=============================================================================

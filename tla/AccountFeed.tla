----------------------------- MODULE AccountFeed -----------------------------
(***************************************************************************)
(* What the rest of the program relies on of the account feed, the way     *)
(* LiveTrading uses it: it takes a message only while it is started, one   *)
(* at a time, and stopping it lets the message in hand run to its end.     *)
(***************************************************************************)
CONSTANT Symbols

VARIABLES
  streaming,   \* the feed is started
  inHand       \* the symbols of the message in hand still to be reconciled

vars == <<streaming, inHand>>

Init == streaming = FALSE /\ inHand = {}

Start == streaming' = TRUE /\ UNCHANGED inHand

Stop == streaming' = FALSE /\ UNCHANGED inHand

(* An ACCOUNT_UPDATE that names some symbols. *)
Receive ==
  /\ streaming
  /\ inHand = {}
  /\ inHand' \in SUBSET Symbols
  /\ UNCHANGED streaming

(* The position of one symbol is read and the session is told. *)
Apply ==
  /\ \E s \in inHand : inHand' = inHand \ {s}
  /\ UNCHANGED streaming

(* The read fails: the rest of the message is lost. *)
Drop ==
  /\ inHand' = {}
  /\ UNCHANGED streaming

Next == Start \/ Stop \/ Receive \/ Apply \/ Drop

Spec == Init /\ [][Next]_vars
=============================================================================

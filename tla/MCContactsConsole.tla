------------------------- MODULE MCContactsConsole -------------------------
(* A small instance of ContactsConsole for TLC. *)
EXTENDS ContactsConsole, TLC

CONSTANTS c1, c2, c3

\* Two people of one name, and a third.
TwoNames == c1 :> "Ada" @@ c2 :> "Ben" @@ c3 :> "Ben"
============================================================================

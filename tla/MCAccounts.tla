------------------------------ MODULE MCAccounts ----------------------------
(* Instance of Accounts for TLC. *)
EXTENDS Accounts, TLC

CONSTANTS r1, r2, r3, l1, v1, p1, s1

\* r1 and r2 share an address, r1 and r3 a phone.
MCEmailOf == r1 :> "ada" @@ r2 :> "ada" @@ r3 :> "bob"
MCPhoneOf == r1 :> 1 @@ r2 :> 2 @@ r3 :> 1

\* Everything else is about the account of r1.
MCAccountOf == [c \in Calls \ Registrations |-> r1]
MCPasswordOf == [c \in Registrations \cup Logins |-> "first"] @@ p1 :> "second"
=============================================================================

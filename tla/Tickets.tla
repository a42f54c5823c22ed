------------------------------ MODULE Tickets ------------------------------
(***************************************************************************)
(* What the vault promises of the handles it gives out: a handle is a      *)
(* one-time ticket for one value.  It is issued once, may be spent once    *)
(* while it is live, and never comes back.                                 *)
(***************************************************************************)
EXTENDS Naturals

CONSTANT Tokens

VARIABLES
  ticket,  \* [Tokens -> {"unissued", "live", "spent", "lapsed"}]
  uses     \* how often the value behind a ticket was handed over

tickets == <<ticket, uses>>

TicketsTypeOK ==
  /\ ticket \in [Tokens -> {"unissued", "live", "spent", "lapsed"}]
  /\ uses \in [Tokens -> Nat]

TicketsInit ==
  /\ ticket = [t \in Tokens |-> "unissued"]
  /\ uses = [t \in Tokens |-> 0]

Becomes(t, from, to) ==
  ticket[t] = from /\ ticket' = [ticket EXCEPT ![t] = to]

Issue(t) == Becomes(t, "unissued", "live") /\ UNCHANGED uses

Spend(t) == Becomes(t, "live", "spent") /\ uses' = [uses EXCEPT ![t] = @ + 1]

(* Time passes, or the process that knows the tickets is gone: several     *)
(* lapse at once.                                                          *)
Lapse(T) ==
  /\ \A t \in T : ticket[t] = "live"
  /\ ticket' = [t \in Tokens |-> IF t \in T THEN "lapsed" ELSE ticket[t]]
  /\ UNCHANGED uses

TicketsNext ==
  \/ \E t \in Tokens : Issue(t) \/ Spend(t)
  \/ \E T \in SUBSET Tokens : Lapse(T)

TicketsSpec == TicketsInit /\ [][TicketsNext]_tickets
=============================================================================

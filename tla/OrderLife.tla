------------------------------ MODULE OrderLife ------------------------------
(***************************************************************************)
(* What the two accounts of a live order promise each other, without       *)
(* ticks, retries, polls or crashes: the exchange gets the order once and  *)
(* only while its row waits for an outcome, the row gets one outcome, and  *)
(* what is booked had been executed.  Nobody promises that the row ever    *)
(* gets its outcome, or that an order with one executes no more.           *)
(***************************************************************************)
EXTENDS Integers

VARIABLES
  status, size,      \* the order's row; its size is the exchange's once it has the order
  placed, executed,  \* whether the exchange has it, and contracts executed there
  booked             \* counts of its rows of the fills table

account == <<status, size, placed, executed, booked>>

LifeInit == status = "none" /\ size = 0 /\ placed = FALSE /\ executed = 0 /\ booked = {}

\* The intent.
Intend ==
  /\ status = "none"
  /\ status' = "submitted" /\ size' \in Nat \ {0}
  /\ UNCHANGED <<placed, executed, booked>>

\* The exchange has the order.
Place ==
  /\ status = "submitted" /\ ~placed
  /\ placed' = TRUE
  /\ UNCHANGED <<status, size, executed, booked>>

\* Before or after its outcome is known, contracts are executed.
Execute ==
  /\ placed
  /\ executed' \in (executed + 1)..size
  /\ UNCHANGED <<status, size, placed, booked>>

\* The post is given up, whether or not the exchange has the order.
Reject ==
  /\ status = "submitted"
  /\ status' = "rejected"
  /\ UNCHANGED placed \/ placed' = TRUE
  /\ UNCHANGED <<size, executed, booked>>

\* Nothing was seen to be executed.
Cancel ==
  /\ status = "submitted" /\ placed
  /\ status' = "canceled"
  /\ UNCHANGED <<size, placed, executed, booked>>

\* Contracts were.
Book ==
  /\ status = "submitted"
  /\ \E n \in 1..executed :
       /\ booked' = {n}
       /\ status' = IF n = size THEN "filled" ELSE "partial"
  /\ UNCHANGED <<size, placed, executed>>

LifeNext == Intend \/ Place \/ Execute \/ Reject \/ Cancel \/ Book

LifeStep == [LifeNext]_account

LifeSpec == LifeInit /\ [][LifeNext]_account
=============================================================================

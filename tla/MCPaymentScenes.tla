-------------------------- MODULE MCPaymentScenes --------------------------
(***************************************************************************)
(* PaymentPages for TLC in two scenes.  In one the ledger moves            *)
(* alone, over every booking and payment; in the other the pages of one    *)
(* booking are open and move it, beside everybody else.                    *)
(***************************************************************************)
EXTENDS MCPaymentPages

VARIABLE scene

CONSTANTS b2, p3, p4

GuestAndManual == {b1, b2}
ManualBooking == {b2}
FourPayments == {p1, p2, p3, p4}

\* Bound: with the pages open only their booking moves, by two payments.
OnePage ==
  /\ \A b \in Bookings \ {Ours} : booking'[b] = booking[b]
  /\ \A p \in Payments \ {p1, p2} : payment'[p] = payment[p]
  /\ sending' \in {p1, p2, NoOne}

ScenesInit == scene \in { "ledger", "pages" } /\ PagesInit

ScenesNext ==
  /\ UNCHANGED scene
  /\ \/ scene = "ledger" /\ Next /\ UNCHANGED << gvars, avars >>
     \/ scene = "pages" /\ PagesNext /\ OnePage

ScenesSpec ==
  /\ ScenesInit /\ [][ScenesNext]_<< pagevars, scene >>
  /\ WF_<< pagevars, scene >>(scene = "pages" /\ Tick /\ UNCHANGED scene)
  /\ WF_<< pagevars, scene >>(scene = "pages" /\ Refresh /\ UNCHANGED scene)
  /\ WF_<< pagevars, scene >>(scene = "pages" /\ UploadAnswered /\ OnePage /\ UNCHANGED scene)
=============================================================================

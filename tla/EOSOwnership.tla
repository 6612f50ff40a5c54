----------------------------- MODULE EOSOwnership -----------------------------
(***************************************************************************)
(* What resolving promises: every declaration of the SDK gets one owner,   *)
(* the one its declaration determines, and keeps it.                       *)
(* How many are placed at a time, and in which order the headers come, is  *)
(* nobody's business.                                                      *)
(***************************************************************************)
CONSTANTS Names,     \* the declarations
          OwnerOf,   \* declaration -> its owner
          Nobody

VARIABLE owner

Init == owner = [n \in Names |-> Nobody]

(* Some of the declarations nobody owns yet get their owners.              *)
Place == \A n \in Names : \/ owner'[n] = owner[n]
                          \/ owner[n] = Nobody /\ owner'[n] = OwnerOf[n]

Spec == Init /\ [][Place]_owner
===============================================================================

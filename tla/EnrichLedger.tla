---------------------------- MODULE EnrichLedger ----------------------------
(***************************************************************************)
(* What an enrichment run promises its reader (the admin runs page polls   *)
(* it): a run is opened for a number of searches, is picked up once,       *)
(* counts every search as a whole, and is completed from the very step in  *)
(* which the last of them is counted.  Nothing is said of how the answers  *)
(* are found, nor that a search is counted only once.                      *)
(***************************************************************************)
EXTENDS Naturals

CONSTANTS Run,
          MaxSearches     \* the most one request may ask for

VARIABLES
    status,     \* of a run
    asked,      \* searches a run was opened for
    counted     \* searches counted so far

ledger == <<status, asked, counted>>

Statuses == {"none", "queued", "running", "completed"}

LedgerInit ==
    /\ status = [r \in Run |-> "none"]
    /\ asked = [r \in Run |-> 0]
    /\ counted = [r \in Run |-> 0]

Open(r, searches) ==
    /\ status[r] = "none"
    /\ asked' = [asked EXCEPT ![r] = searches]
    /\ status' = [status EXCEPT ![r] = "queued"]
    /\ UNCHANGED counted

PickUp(r) ==
    /\ status[r] = "queued"
    /\ status' = [status EXCEPT ![r] = "running"]
    /\ UNCHANGED <<asked, counted>>

Count(r) ==
    /\ status[r] \in {"running", "completed"}
    /\ counted' = [counted EXCEPT ![r] = @ + 1]
    /\ status' = [status EXCEPT ![r] =
                     IF counted[r] + 1 >= asked[r] THEN "completed" ELSE "running"]
    /\ UNCHANGED asked

LedgerNext ==
    \E r \in Run : \/ \E searches \in 1..MaxSearches : Open(r, searches)
                  \/ PickUp(r) \/ Count(r)

LedgerSpec == LedgerInit /\ [][LedgerNext]_ledger
=============================================================================

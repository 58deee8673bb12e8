---------------------------- MODULE FetchLedger ----------------------------
(***************************************************************************)
(* What the acquisition core promises about its history, with the queue,   *)
(* the workers, the leases and the clock left out: a page is tried at most *)
(* MaxAttempts times in a cycle, one try at a time; a try ends once, and   *)
(* keeps how it ended; and a further try exists only because the one       *)
(* before it ended in a way that asking again may change.                  *)
(*                                                                         *)
(* The promises are those of the header of domains/acquisition/lease.py    *)
(* ("exactly one terminal run per attempt", "retries are new attempts")    *)
(* and of the retry policy in docs/ACQUISITION.md.                         *)
(***************************************************************************)
EXTENDS Integers

CONSTANTS Sources, Cycles, MaxAttempts

Entries == Sources \X Cycles \X (1..MaxAttempts)

(* How a try may end, and the endings that asking again may change. *)
Retryable == {"RATE_LIMITED", "DNS_TEMPORARY", "HTTP_ERROR", "TIMEOUT"}
Ended == Retryable \cup {"OK", "UNCHANGED", "NAME_NOT_RESOLVED", "BLOCKED", "GONE",
                         "INTERNAL_ERROR", "ABANDONED"}

VARIABLE ledger

Init == ledger = [e \in Entries |-> "absent"]

(* Some pages of a cycle are queued for the first time. *)
Open(c, pages) ==
    /\ \A s \in pages : ledger[<<s, c, 1>>] = "absent"
    /\ ledger' = [e \in Entries |-> IF e[2] = c /\ e[3] = 1 /\ e[1] \in pages
                                    THEN "open" ELSE ledger[e]]

(* A try ends. *)
End(e, how) ==
    /\ ledger[e] = "open"
    /\ ledger' = [ledger EXCEPT ![e] = how]

(* A try ends and the next one is opened with it. *)
EndAndRetry(e, how) ==
    /\ ledger[e] = "open"
    /\ how \in Retryable
    /\ e[3] < MaxAttempts
    /\ ledger' = [ledger EXCEPT ![e] = how, ![<<e[1], e[2], e[3] + 1>>] = "open"]

(* Tries nobody finished are closed as abandoned. *)
Abandon(lost) ==
    /\ \A e \in lost : ledger[e] = "open"
    /\ ledger' = [e \in Entries |-> IF e \in lost THEN "ABANDONED" ELSE ledger[e]]

Next ==
    \/ \E c \in Cycles, pages \in SUBSET Sources : Open(c, pages)
    \/ \E e \in Entries, how \in Ended : End(e, how) \/ EndAndRetry(e, how)
    \/ \E lost \in SUBSET Entries : Abandon(lost)

Spec == Init /\ [][Next]_ledger
----------------------------------------------------------------------------
(* A try after the first exists only because the try before it ended in a    *)
(* retryable way: lease.schedule_retry is called for nothing else.           *)
RetriesAreJustified ==
    \A s \in Sources, c \in Cycles : \A n \in 1..(MaxAttempts - 1) :
        ledger[<<s, c, n + 1>>] # "absent" => ledger[<<s, c, n>>] \in Retryable
============================================================================

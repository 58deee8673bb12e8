---------------------------- MODULE MCReviewJobs ----------------------------
(* An instance of ReviewJobs for TLC. *)
EXTENDS ReviewJobs, TLC

CONSTANTS i1, i2, p1, t1, t2, list, book

Row(i, p, c) == [institution |-> i, page |-> p, category |-> c]

(* A list that names a page twice for an institution, and a workbook.        *)
FileKind == [f \in {list, book} |-> IF f = book THEN "WORKBOOK" ELSE "LIST"]
FileRows ==
    [f \in {list, book} |->
        IF f = book THEN <<Row(i1, p1, "FEES")>>
        ELSE <<Row(i1, p1, "FEES"), Row(i1, p1, "UNCLASSIFIED"), Row(i2, p1, "UNCLASSIFIED")>>]

(* Which thread of the pool runs which task is immaterial.                   *)
TaskSymmetry == Permutations(Tasks)
=============================================================================

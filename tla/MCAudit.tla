------------------------------ MODULE MCAudit ------------------------------
(* Instances of AuditVerification for TLC. *)
EXTENDS AuditVerification, TLC

CONSTANTS t1, t2, t3

ThreeTxns == {t1, t2, t3}
FourIds == 0..3
BulkAndSingles == (t1 :> 2) @@ (t2 :> 1) @@ (t3 :> 1)
Singles == [t \in ThreeTxns |-> 1]
=============================================================================

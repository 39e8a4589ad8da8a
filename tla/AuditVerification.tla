------------------------- MODULE AuditVerification -------------------------
(***************************************************************************)
(* verify_audit_chain_integrity: it walks the rows of a period in the      *)
(* order of their timestamps, which are the times their transactions       *)
(* began, and compares each row with the hash of the row before.           *)
(***************************************************************************)
EXTENDS AuditChain, FiniteSets

Window(from, to) == {i \in 1..Len(log) : log[i].at \in from..to}

Before(r, s) == r.at < s.at \/ (r.at = s.at /\ r.id < s.id)

(* mutant: ORDER BY timestamp alone leaves ties in the order of insertion *)
ChronologicalByTime(from, to) ==
  LET W == Window(from, to)
      Earlier(i, j) == log[i].at < log[j].at \/ (log[i].at = log[j].at /\ i < j)
      order == CHOOSE s \in [1..Cardinality(W) -> W] :
                 \A i, j \in DOMAIN s : i < j => Earlier(s[i], s[j])
  IN  [k \in DOMAIN order |-> log[order[k]]]

(* ORDER BY timestamp, id *)
Chronological(from, to) ==
  LET W == Window(from, to)
      order == CHOOSE s \in [1..Cardinality(W) -> W] :
                 \A i, j \in DOMAIN s : i < j => Before(log[s[i]], log[s[j]])
  IN  [k \in DOMAIN order |-> log[order[k]]]

(* mutant: the period starts from the hash its first row names *)
InvalidFromFirst(q) ==
  {i \in DOMAIN q : q[i].prev # IF i = 1 THEN q[1].prev ELSE q[i - 1].id}

(* rec.previous_hash != prev_hash; the recomputed hash differs with it *)
Invalid(q) ==
  {i \in DOMAIN q : q[i].prev # IF i = 1 THEN Genesis ELSE q[i - 1].id}

IsValid(from, to) == Invalid(Chronological(from, to)) = {}

-----------------------------------------------------------------------------
(* VerifiedIsWhole: if the rows up to some time verify, they are all the   *)
(* rows the chain had up to the last of them: the period hides no row that *)
(* was committed before one it shows.                                      *)
VerifiedIsWhole ==
  \A to \in 0..now :
    IsValid(0, to) => \A i \in Window(0, to) : \A j \in 1..i : j \in Window(0, to)

(* VerdictIsOrder: of a log nobody touched, the verification tells only    *)
(* whether the rows were committed in the order of their timestamps and    *)
(* ids.                                                                    *)
VerdictIsOrder ==
  IsValid(0, now) <=> \A i \in 1..(Len(log) - 1) : Before(log[i], log[i + 1])

-----------------------------------------------------------------------------
(* What the repository says of it and the code does not do.                *)

(* UndisturbedIsVerified (008_add_audit_tables.sql:346): a log that only   *)
(* the service wrote, no two rows of it at the same time, is 'Hash chain   *)
(* integrity verified' and not 'compromised'.                              *)
UndisturbedIsVerified ==
  (\A i, j \in 1..Len(log) : log[i].at = log[j].at => i = j) => IsValid(0, now)

(* PeriodIsVerified (evidenceBundleService.ts:411): so is each period of a *)
(* log that verifies as a whole.                                           *)
PeriodIsVerified == IsValid(0, now) => \A from \in 0..now : IsValid(from, now)
=============================================================================

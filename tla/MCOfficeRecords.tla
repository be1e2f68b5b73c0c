--------------------------- MODULE MCOfficeRecords ---------------------------
(***************************************************************************)
(* Instances of OfficeRecords for TLC.  A lead and a task are moved twice, *)
(* and raced for once more; of the quotes the first gets as far as         *)
(* APPROVED, the others, its revisions or new, as far as SENT.             *)
(***************************************************************************)
EXTENDS OfficeRecords, TLC

LongQuote == CHOOSE q \in Quotes : TRUE
MCMaxVersion == [x \in Records |-> IF x \notin Quotes THEN 2
                                   ELSE IF x = LongQuote THEN 3 ELSE 1]

\* Leads, tasks and quotes share no row, so that one kind at a time is enough; a
\* quote needs a lead to be there, a new one that nobody works on will do.
OneKind ==
  LET SomeQuote == \E q \in Quotes : Exists(q)
      SomeTask == \E t \in Tasks : Exists(t)
  IN /\ SomeQuote => Exists(LongQuote)
     /\ SomeTask => \A x \in Leads \cup Quotes : ~Exists(x)
     /\ SomeQuote => /\ failures = 0
                     /\ \A l \in Leads : row[l].version <= 1
                     /\ \A r \in Requests : At(r, "idle") \/ req[r].of \in Quotes
StaysOneKind == OneKind'

\* Requests are interchangeable.
MCSymmetry == Permutations(Requests)
=============================================================================

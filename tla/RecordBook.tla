----------------------------- MODULE RecordBook -----------------------------
(***************************************************************************)
(* What leads, tasks and quotes promise, as if every request were answered *)
(* in one indivisible step: records are opened once, in their first        *)
(* status; a record moves only along its life cycle, from the status it    *)
(* has at that moment; a lead's loss reason is written only together with  *)
(* LOST; and what a quote supersedes never changes.                        *)
(***************************************************************************)
EXTENDS RecordStatus

CONSTANTS Leads, Tasks, Quotes, NoRecord
VARIABLE book   \* status, loss reason and superseded quote of every record

Records == Leads \cup Tasks \cup Quotes
Unopened == [status |-> "NONE", reason |-> "null", supersedes |-> NoRecord]
FirstStatus(x, s) == \/ x \in Leads /\ s = "NEW"
                     \/ x \in Tasks /\ s = "OPEN"
                     \/ x \in Quotes /\ s = "DRAFT"

BookInit == book = [x \in Records |-> Unopened]

\* A new record; a quote may supersede one that exists.
Open(x, s, p) ==
  /\ book[x].status = "NONE" /\ FirstStatus(x, s)
  /\ p # NoRecord => x \in Quotes /\ p \in Quotes /\ book[p].status # "NONE"
  /\ book' = [book EXCEPT ![x] = [status |-> s, reason |-> "null", supersedes |-> p]]

\* A task or a quote moves.
Move(x, s) ==
  /\ book[x].status # "NONE"
  /\ \/ x \in Tasks /\ ValidTaskTransition(book[x].status, s)
     \/ x \in Quotes /\ ValidQuoteTransition(book[x].status, s)
  /\ book' = [book EXCEPT ![x].status = s]

\* A lead moves; entering LOST takes a reason, staying there may replace it.
MoveLead(x, s, reason) ==
  /\ x \in Leads /\ book[x].status # "NONE"
  /\ ValidLeadTransition(book[x].status, s, reason = "given")
  /\ reason = book[x].reason \/ s = "LOST"
  /\ book' = [book EXCEPT ![x].status = s, ![x].reason = reason]

BookNext ==
  \E x \in Records, s \in RecordStatuses :
    \/ \E p \in Quotes \cup {NoRecord} : Open(x, s, p)
    \/ Move(x, s)
    \/ \E reason \in {"null", "empty", "given"} : MoveLead(x, s, reason)

BookSpec == BookInit /\ [][BookNext]_book

=============================================================================

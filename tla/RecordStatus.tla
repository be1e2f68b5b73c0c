---------------------------- MODULE RecordStatus ----------------------------
(***************************************************************************)
(* The life cycles of leads, tasks and quotes, as the services check them  *)
(* before a status is written: backend/src/leads/lead-status.ts,           *)
(* backend/src/tasks/task-status.ts, backend/src/quotes/quote-status.ts.   *)
(* A record that does not exist yet has the status "NONE".                 *)
(***************************************************************************)

LeadStatuses == {"NEW", "CONTACTED", "QUALIFIED", "MEETING", "TEST_DRIVE", "OFFER",
                 "NEGOTIATION", "WON", "LOST", "NOT_RELEVANT", "FUTURE_NURTURE"}
TaskStatuses == {"OPEN", "DONE", "CANCELLED"}
QuoteStatuses == {"DRAFT", "SENT", "VIEWED", "APPROVED", "REJECTED", "EXPIRED"}
RecordStatuses == LeadStatuses \cup TaskStatuses \cup QuoteStatuses

DecidedLead == {"WON", "LOST", "NOT_RELEVANT"}
ClosedTask == {"DONE", "CANCELLED"}
\* REVISABLE_STATUSES of quotes.service.ts.
Revisable == {"DRAFT", "SENT", "VIEWED"}

\* ALLOWED_TRANSITIONS of a quote.
QuoteTransitions ==
  {<<"DRAFT", "SENT">>, <<"SENT", "VIEWED">>, <<"VIEWED", "APPROVED">>}
  \cup ({"SENT", "VIEWED"} \X {"REJECTED", "EXPIRED"})

\* Mutant: a decided lead may be reopened.
ReopenedLead(from, to, hasReason) == to = "LOST" => hasReason
\* assertValidLeadTransition does not throw.  Only a move into LOST is asked
\* for its reason, a repeated LOST is not.
ValidLeadTransition(from, to, hasReason) ==
  \/ from = to
  \/ from \notin DecidedLead /\ (to = "LOST" => hasReason)

\* assertValidTaskTransition does not throw.
ValidTaskTransition(from, to) == from = to \/ from \notin ClosedTask

\* assertValidQuoteTransition does not throw.
ValidQuoteTransition(from, to) == from = to \/ <<from, to>> \in QuoteTransitions

=============================================================================

------------------------------ MODULE MCScreen ------------------------------
EXTENDS Screen

First == CHOOSE x \in Items : TRUE
\* Rows that the run leaves as they are, and rows of which the first may change.
Still(s) == [x \in Items |-> [status |-> s, version |-> MaxVersion, ready |-> TRUE]]
Moving(s, t, ready) ==
  [x \in Items |-> IF x = First THEN [status |-> s, version |-> 1, ready |-> ready]
                   ELSE [status |-> t, version |-> 1, ready |-> TRUE]]
Start(p, r, l, f, w) == [page |-> p, row |-> r, logins |-> l, lost |-> f, wish |-> w]

\* One page of each kind with all of its sessions, failures and forms, and the
\* other pages with fewer: two sessions only where nothing else is left to do.
MCStarts ==
  {Start("home", Still("DRAFT"), 0, 0, 0),
   Start("leads", Moving("NEGOTIATION", "WON", TRUE), 0, 1, 1),
   Start("leads", Still("WON"), 1, 0, 0),
   Start("customers", Still("DRAFT"), 1, 0, 0),
   Start("tasks", Moving("OPEN", "DONE", TRUE), 1, 1, 1),
   Start("vehicles", Moving("RECONDITIONING", "DELIVERED", FALSE), 1, 1, 1),
   Start("deals", Moving("READY_FOR_DELIVERY", "DELIVERED", FALSE), 1, 0, 1),
   Start("deals", Moving("READY_FOR_DELIVERY", "DELIVERED", TRUE), 1, 1, 1),
   Start("quotes", Moving("SENT", "EXPIRED", TRUE), 1, 1, 1),
   Start("payments", Still("DRAFT"), 1, 0, 0),
   Start("documents", Still("DRAFT"), 0, 1, 0)}
\* The quotes of a lead, with nothing going wrong.
QuoteStarts == {Start("quotes", Still("SENT"), 0, 0, 0)}
\* The payments of a deal and the documents of an entity.
RepeatStarts == {Start(p, Still("DRAFT"), 0, 0, 0) : p \in {"payments", "documents"}}
=============================================================================

------------------------------- MODULE Screen -------------------------------
(***************************************************************************)
(* One tab of the frontend and the server behind it: a page with its query *)
(* (useApiQuery), its form and the status controls of its rows, over calls *)
(* that are answered in any order, late, or not at all (api.ts), in a      *)
(* session that expires and is opened again (auth.tsx).                    *)
(*                                                                         *)
(* A page either lists all rows of its table or shows what belongs to one  *)
(* item that the user selected: the payments of a deal, the quotes of a    *)
(* lead, the documents of an entity.  The server's handlers are one step   *)
(* each, which is what the refinements of SalesLedger and RecordBook say   *)
(* of them.  The user presses only what the page offers, and presses again *)
(* for a wish that was not seen to be fulfilled.  Of what the user fills   *)
(* in, only the item it goes to is kept; a second tab is left out.         *)
(***************************************************************************)
EXTENDS Integers, FiniteSets, VehicleStatus, DealStatus, RecordStatus

CONSTANTS
  Items,          \* the rows of a list, or what can be selected
  Calls,          \* bound: slots for calls in flight
  None,           \* nothing selected, no row, no status
  Starts,         \* pages, with their rows and with what has happened before
  Chosen,         \* bound: the statuses that users choose
  MaxLogins,      \* bound: sessions
  MaxWishes,      \* bound: forms a user wants to send
  MaxUnseen,      \* bound: a user who missed more outcomes of a wish gives up
  MaxVersion,     \* bound: a row of this version is not changed any more
  MaxLost         \* bound: calls that the network or an error of the server fails

VARIABLES
  page,           \* the page, which this tab stays on or comes back to
  token, user,    \* localStorage's access token and AuthProvider's user, 0 for none
  logins,         \* sessions opened so far; a session is named by its number
  expired,        \* sessions whose token is no longer accepted
  selected,       \* expandedId, selectedLeadId, entityId
  query,          \* useApiQuery: [of, rows, error, loading]
  form,           \* the page's form: [of, busy]
  busy,           \* rows whose control waits for an answer
  calls,          \* calls in flight
  row,            \* the server's rows: [status, version, ready]
  created,        \* rows that the server created, per wish
  wish, pursued,  \* the latest wish, and whether the user still goes after it
  unseen,         \* per wish: calls for it whose outcome the user was not told
  overlapped,     \* history: a load began while another was in flight
  lost            \* calls that the network or the server failed so far

session == <<token, user, logins, expired>>
view == <<selected, query, form, busy, overlapped>>
server == <<row, created>>
wishes == <<wish, pursued, unseen>>
vars == <<page, session, view, calls, server, wishes, lost>>

-----------------------------------------------------------------------------
(* The pages *)

ListPages == {"home", "deals", "leads", "tasks", "vehicles", "customers"}
DetailPages == {"payments", "quotes", "documents"}
\* Pages whose form is a modal, inside what a reload of the list replaces.
ModalPages == {"leads", "tasks", "vehicles", "customers"}
FormPages == ModalPages \cup DetailPages

Statuses == VehicleStatuses \cup DealStatuses \cup RecordStatuses
\* The statuses of the table behind a page; where a page offers no moves, any.
StatusesOf(p) == CASE p = "quotes" -> QuoteStatuses
                   [] p = "deals" -> DealStatuses
                   [] p = "vehicles" -> VehicleStatuses
                   [] p = "leads" -> LeadStatuses
                   [] p = "tasks" -> TaskStatuses
                   [] OTHER -> Statuses
\* What comes of a call: done, refused by a handler before it writes, 401, an
\* error of the server (500), or fetch failed.
Answers == {"ok", "refused", "unauthorized", "failed", "unreachable"}
\* After these a user cannot know what the server did.
Unclear == {"failed", "unreachable"}
ShownRow == [status : Statuses, version : 1..MaxVersion, ready : BOOLEAN]

\* A page starts with rows of its own table, within the bounds; what may stand
\* for nothing is no row, and "all" no item.
ASSUME ScreenAssumption ==
  /\ {MaxLogins, MaxWishes, MaxUnseen, MaxVersion, MaxLost} \subseteq Nat
  /\ None \notin ShownRow \cup Items \cup {"all"} \cup Answers /\ "all" \notin Items
  /\ \A start \in Starts :
       /\ start.page \in ListPages \cup DetailPages
       /\ start.row \in [Items -> ShownRow]
       /\ \A x \in Items : start.row[x].status \in StatusesOf(start.page)
       /\ start.logins \in 0..MaxLogins /\ start.lost \in 0..MaxLost
       /\ start.wish \in 0..MaxWishes

\* The moves that a row of each status offers.  The buttons of a quote:
OfferedQuoteMoves(s) == CASE s = "DRAFT" -> {"SENT"}
                          [] s = "SENT" -> {"VIEWED", "REJECTED"}
                          [] s = "VIEWED" -> {"APPROVED", "REJECTED"}
                          [] OTHER -> {}
\* ALLOWED_DEAL_TRANSITIONS, the frontend's own copy of the table
OfferedDealMoves(s) ==
  {to \in DealStatuses :
     \/ <<s, to>> \in {<<"DRAFT", "PENDING_APPROVAL">>, <<"PENDING_APPROVAL", "SIGNED">>,
                       <<"SIGNED", "PAID">>, <<"PAID", "READY_FOR_DELIVERY">>,
                       <<"READY_FOR_DELIVERY", "DELIVERED">>}
     \/ to = "CANCELLED" /\ s \notin {"DELIVERED", "CANCELLED"}}
\* ALLOWED_VEHICLE_TRANSITIONS, likewise
OfferedVehicleMoves(s) ==
  CASE s = "CANDIDATE" -> {"INTAKE", "CANCELLED"}
    [] s = "INTAKE" -> {"RECONDITIONING", "CANCELLED"}
    [] s = "RECONDITIONING" -> {"AVAILABLE", "CANCELLED", "RETURNED_TO_SUPPLIER"}
    [] s = "AVAILABLE" -> {"RESERVED", "CANCELLED", "RETURNED_TO_SUPPLIER"}
    [] s = "RESERVED" -> {"AVAILABLE", "IN_DEAL"}
    [] s = "IN_DEAL" -> {"SOLD", "AVAILABLE"}
    [] s = "SOLD" -> {"DELIVERED", "AVAILABLE"}
    [] OTHER -> {}
\* LeadStatusControl, which asks for the reason of a LOST before it sends it
\* Mutant: a decided lead keeps its control.
AnyLeadMoves(s) == LeadStatuses \ {s}
OfferedLeadMoves(s) == IF s \in DecidedLead THEN {} ELSE LeadStatuses \ {s}
\* TaskActions
OfferedTaskMoves(s) == IF s = "OPEN" THEN {"DONE", "CANCELLED"} ELSE {}

Offered(s) == CASE page = "quotes" -> OfferedQuoteMoves(s)
                [] page = "deals" -> OfferedDealMoves(s)
                [] page = "vehicles" -> OfferedVehicleMoves(s)
                [] page = "leads" -> OfferedLeadMoves(s)
                [] page = "tasks" -> OfferedTaskMoves(s)
                [] OTHER -> {}

\* The check of the page's handler; ready: the vehicle has a list price, the
\* deal is paid in full.
Accepted(r, to) ==
  LET paid == IF r.ready THEN 1 ELSE 0 IN
  CASE page = "quotes" -> ValidQuoteTransition(r.status, to)
    [] page = "deals" -> ValidDealTransition(r.status, to, paid, 1)
    [] page = "vehicles" -> ValidVehicleTransition(r.status, to, r.ready)
    [] page = "leads" -> ValidLeadTransition(r.status, to, TRUE)
    [] page = "tasks" -> ValidTaskTransition(r.status, to)
    [] OTHER -> FALSE

-----------------------------------------------------------------------------
(* Calls *)

NoRows == [x \in Items |-> None]
\* live: whether the page that called is still there ("page"), was left
\* ("gone"), or was thrown away with the document ("aborted").
\* seen: the form that called is still there.  from: the status that was shown.
Call(kind, of) ==
  [stage |-> "sent", kind |-> kind, of |-> of,
   version |-> 0, from |-> None, to |-> None, wish |-> 0, token |-> token,
   answer |-> None, rows |-> NoRows, live |-> "page", seen |-> TRUE]
Free == [Call("none", None) EXCEPT !.stage = "free", !.token = 0]
IsFree(c) == calls[c].stage = "free"
Kind(c, kind) == calls[c].stage # "free" /\ calls[c].kind = kind
Answered(c, kind) == calls[c].stage = "answered" /\ Kind(c, kind) /\ calls[c].live = "page"
Ok(c) == calls[c].answer = "ok"
Loads(state) == {c \in Calls : state[c].stage # "free" /\ state[c].kind = "get"
                               /\ state[c].live = "page"}

\* The table of calls once the page is left: nobody listens to the answers, and
\* that of a load which the browser aborts is of no use to anyone.
Left(how) ==
  [c \in Calls |-> IF IsFree(c) \/ (how = "aborted" /\ Kind(c, "get")) THEN Free
                   ELSE [calls[c] EXCEPT !.live = IF @ = "aborted" THEN @ ELSE how,
                                         !.seen = FALSE]]
\* The table of calls once the form is replaced by a fresh one.
FormLeft == [c \in Calls |-> [calls[c] EXCEPT !.seen = @ /\ ~Kind(c, "post")]]
\* Calls that a form made for a wish and will now hear nothing about.
Forgotten == {c \in Calls : Kind(c, "post") /\ calls[c].seen}
Unseen(C) == unseen' = [w \in DOMAIN unseen |->
                          unseen[w] + Cardinality({c \in C : calls[c].wish = w})]

-----------------------------------------------------------------------------
(* useApiQuery *)

FreshQuery == [of |-> None, rows |-> NoRows, error |-> FALSE, loading |-> FALSE]
\* load: the spinner is shown; what was loaded before is kept.
Loading(q) == [q EXCEPT !.loading = TRUE, !.error = FALSE]

\* A load takes slot c of a table of calls.
StartLoad(c, table, of, with) ==
  /\ calls' = [table EXCEPT ![c] = [Call("get", of) EXCEPT !.token = with]]
  /\ overlapped' = (page \in DetailPages /\ Loads([table EXCEPT ![c] = Free]) # {})

\* refetch, from the page itself.  On a list page everything below the spinner
\* is taken away and comes back fresh: controls, and a modal's form.
Refetch(c, formBusy) ==
  /\ StartLoad(c, IF page \in ModalPages THEN FormLeft ELSE calls, selected, token)
  /\ query' = Loading(query)
  /\ busy' = IF page \in ListPages THEN {} ELSE busy
  /\ form' = [form EXCEPT !.busy = IF page \in ModalPages THEN FALSE ELSE formBusy]
  /\ UNCHANGED selected

\* Mutant: setIsLoading(false) is only reached with a result.
ReceivedWithoutFinally(q, call) ==
  IF call.answer = "ok"
  THEN [q EXCEPT !.of = call.of, !.rows = call.rows, !.loading = FALSE]
  ELSE [q EXCEPT !.error = TRUE]
\* The answer of a load, whichever load of this page it was.
Received(q, call) ==
  IF call.answer = "ok"
  THEN [q EXCEPT !.of = call.of, !.rows = call.rows, !.loading = FALSE]
  ELSE [q EXCEPT !.error = TRUE, !.loading = FALSE]

\* The page shows rows: no spinner and no message instead.
Shown == ~query.loading /\ ~query.error /\ query.of # None

-----------------------------------------------------------------------------
(* Coming to a page and leaving it *)

\* A page is mounted, with slot c of a table of calls for a list to load.
Mount(c, table, with) ==
  /\ selected' = IF page \in ListPages THEN "all" ELSE None
  /\ form' = [of |-> None, busy |-> FALSE]
  /\ busy' = {}
  /\ query' = IF page \in ListPages THEN Loading(FreshQuery) ELSE FreshQuery
  /\ IF page \in ListPages
     THEN StartLoad(c, table, "all", with)
     ELSE calls' = [table EXCEPT ![c] = Free] /\ overlapped' = FALSE

Unmount(table) ==
  /\ selected' = None /\ form' = [of |-> None, busy |-> FALSE] /\ busy' = {}
  /\ query' = FreshQuery /\ overlapped' = FALSE
  /\ calls' = table

\* Another page or tab, and back; or the list around a detail was reloaded.
Remount(c) ==
  /\ user # 0 /\ IsFree(c)
  /\ Mount(c, Left("gone"), token)
  /\ Unseen(Forgotten)
  /\ UNCHANGED <<page, session, server, wish, pursued, lost>>

\* The modal is closed, by Escape or a click beside it, and opened again.
ReopenForm ==
  /\ user # 0 /\ page \in ModalPages /\ Forgotten # {}
  /\ calls' = FormLeft /\ Unseen(Forgotten)
  /\ form' = [form EXCEPT !.busy = FALSE]
  /\ UNCHANGED <<page, session, selected, query, busy, overlapped, server, wish, pursued, lost>>

\* The detail of a deal, which holds its buttons, is collapsed and expanded.
Collapse ==
  /\ user # 0 /\ page = "deals" /\ busy # {}
  /\ busy' = {}
  /\ UNCHANGED <<page, session, selected, query, form, overlapped, calls, server, wishes, lost>>

\* Mutant: what is selected is not among the dependencies of the query.
NoReload(c, x) == UNCHANGED <<query, calls, overlapped>>
Reselected(c, x) == query' = Loading(query) /\ StartLoad(c, calls, x, token)

\* A deal is expanded, a lead or an entity chosen; the form of a quote takes its
\* lead when it appears, and keeps it.
Select(c, x) ==
  /\ user # 0 /\ page \in DetailPages /\ selected # x /\ IsFree(c)
  /\ selected' = x
  /\ form' = [form EXCEPT !.of = IF page = "quotes" /\ selected # None THEN @ ELSE x]
  /\ Reselected(c, x)
  /\ UNCHANGED <<page, session, busy, server, wishes, lost>>

\* The button of ErrorState.
Retry(c) ==
  /\ user # 0 /\ query.error /\ IsFree(c)
  /\ Refetch(c, form.busy)
  /\ Unseen(IF page \in ModalPages THEN Forgotten ELSE {})
  /\ UNCHANGED <<page, session, server, wish, pursued, lost>>

-----------------------------------------------------------------------------
(* Controls and forms *)

\* isSubmitting of a row's control; a deal's rows share one, and so do a lead's
\* quotes, whose busyId names the quote.
Disabled(x) == IF page = "deals" THEN busy # {} ELSE x \in busy
BusyWith(x) == IF page = "quotes" THEN {x} ELSE busy \cup {x}
BusyWithout(x) == IF page \in {"deals", "quotes"} THEN {} ELSE busy \ {x}

\* Mutant: the control sends the version that its update will have.
NextVersionOf(r) == r.version + 1
VersionOf(r) == r.version

\* A status is chosen of a row as it is shown.
Patch(c, x, to) ==
  LET r == query.rows[x] IN
  /\ user # 0 /\ Shown /\ r # None /\ to \in Offered(r.status)
  /\ ~Disabled(x) /\ IsFree(c) /\ r.version < MaxVersion
  /\ calls' = [calls EXCEPT ![c] = [Call("patch", x) EXCEPT !.version = VersionOf(r),
                                                          !.from = r.status, !.to = to]]
  /\ busy' = BusyWith(x)
  /\ UNCHANGED <<page, session, selected, query, form, overlapped, server, wishes, lost>>

\* Mutant: the button of the form is never disabled.
NeverBusy == TRUE
FormIsFree == ~form.busy
\* Where the form is there to be filled in.  PaymentsPanel hides its form while it
\* loads; the modals are hidden with their pages; the others stay.
FormShown ==
  /\ page \in FormPages
  /\ page \in ModalPages \cup {"payments"} => ~query.loading /\ ~query.error
  /\ page \in DetailPages => selected # None
FormTarget == IF page = "quotes" THEN form.of ELSE selected

\* A form is sent: for a new wish, or again for one that was not seen fulfilled.
Press(c) ==
  LET w == IF pursued THEN wish ELSE wish + 1 IN
  /\ user # 0 /\ FormShown /\ FormIsFree /\ IsFree(c)
  /\ w <= MaxWishes /\ (pursued => unseen[w] <= MaxUnseen)
  /\ calls' = [calls EXCEPT ![c] = [Call("post", FormTarget) EXCEPT !.wish = w]]
  /\ form' = [form EXCEPT !.busy = TRUE]
  /\ wish' = w /\ pursued' = TRUE
  /\ UNCHANGED <<page, session, selected, query, busy, overlapped, server, unseen, lost>>

-----------------------------------------------------------------------------
(* The session *)

Login(c) ==
  /\ user = 0 /\ IsFree(c) /\ logins < MaxLogins
  /\ \A d \in Calls : Kind(d, "login") => calls[d].live # "page"
  /\ calls' = [calls EXCEPT ![c] = Call("login", None)]
  /\ UNCHANGED <<page, session, view, server, wishes, lost>>

\* Mutant: the token stays behind.
KeepToken == token
NoToken == 0
Logout ==
  /\ user # 0
  /\ token' = NoToken /\ user' = 0
  /\ Unmount(Left("gone")) /\ Unseen(Forgotten)
  /\ UNCHANGED <<page, logins, expired, server, wish, pursued, lost>>

\* The document is loaded anew: a user without a token is not kept.
Reload(c) ==
  /\ IsFree(c)
  /\ user' = IF token = 0 THEN 0 ELSE user
  /\ IF user' = 0 THEN Unmount(Left("aborted")) ELSE Mount(c, Left("aborted"), token)
  /\ Unseen(Forgotten)
  /\ UNCHANGED <<page, token, logins, expired, server, wish, pursued, lost>>

\* JWT_ACCESS_EXPIRES_IN
Expire ==
  /\ token \notin {0} \cup expired
  /\ expired' = expired \cup {token}
  /\ UNCHANGED <<page, token, user, logins, view, calls, server, wishes, lost>>

-----------------------------------------------------------------------------
(* The server and the network *)

Answer(c, answer) ==
  calls' = [calls EXCEPT ![c] = [@ EXCEPT !.stage = "answered", !.answer = answer]]

\* JwtAuthGuard, before every handler but login
Authorized(c) == calls[c].kind = "login" \/ calls[c].token \notin {0} \cup expired
Sent(c, kind) == Kind(c, kind) /\ calls[c].stage = "sent" /\ Authorized(c)

Unauthorized(c) ==
  /\ calls[c].stage = "sent" /\ ~Authorized(c)
  /\ Answer(c, "unauthorized")
  /\ UNCHANGED <<page, session, view, server, wishes, lost>>

ServeGet(c) ==
  /\ Sent(c, "get")
  /\ calls' = [calls EXCEPT ![c] =
       [@ EXCEPT !.stage = "answered", !.answer = "ok",
                 !.rows = [x \in Items |-> IF calls[c].of \in {"all", x} THEN row[x] ELSE None]]]
  /\ UNCHANGED <<page, session, view, server, wishes, lost>>

\* updateStatus checks the move, and then the version.
Stands(call) == Accepted(row[call.of], call.to) /\ call.version = row[call.of].version
Move(call) == row' = [row EXCEPT ![call.of].status = call.to, ![call.of].version = @ + 1]
Create(call) == created' = [created EXCEPT ![call.wish] = @ + 1]

ServePatch(c) ==
  /\ Sent(c, "patch")
  /\ \/ Stands(calls[c]) /\ Move(calls[c]) /\ Answer(c, "ok")
     \/ ~Stands(calls[c]) /\ Answer(c, "refused") /\ UNCHANGED row
  /\ UNCHANGED <<page, session, view, created, wishes, lost>>

\* No call names the wish it is for: a handler refuses for reasons of its own (a
\* field, a role, a row that is missing, assertNoDuplicate), or creates a row.
ServePost(c) ==
  /\ Sent(c, "post")
  /\ \/ Answer(c, "ok") /\ Create(calls[c])
     \/ Answer(c, "refused") /\ UNCHANGED created
  /\ UNCHANGED <<page, session, view, row, wishes, lost>>

\* An error of the server: before the row was written, or after it, since what
\* follows the write (auditLog.record, an event) is not in its transaction.
Fail(c) ==
  /\ calls[c].stage = "sent" /\ Authorized(c) /\ lost < MaxLost
  /\ lost' = lost + 1
  /\ Answer(c, "failed")
  /\ \/ UNCHANGED server
     \/ Kind(c, "post") /\ Create(calls[c]) /\ UNCHANGED row
     \/ Kind(c, "patch") /\ Stands(calls[c]) /\ Move(calls[c]) /\ UNCHANGED created
  /\ UNCHANGED <<page, session, view, wishes>>

\* AuthService.login; a wrong password is answered with 401 too.
ServeLogin(c) ==
  /\ Sent(c, "login")
  /\ \E answer \in {"ok", "unauthorized"} : Answer(c, answer)
  /\ UNCHANGED <<page, session, view, server, wishes, lost>>

\* fetch fails: before the server had the call, or after it was answered.
Lose(c) ==
  /\ ~IsFree(c) /\ calls[c].answer # "unreachable" /\ lost < MaxLost
  /\ lost' = lost + 1
  /\ Answer(c, "unreachable")
  /\ UNCHANGED <<page, session, view, server, wishes>>

OtherWrites(x, to) ==
  /\ row[x].version < MaxVersion /\ Accepted(row[x], to)
  /\ row' = [row EXCEPT ![x].status = to, ![x].version = @ + 1]
  /\ UNCHANGED <<page, session, view, calls, created, wishes, lost>>

-----------------------------------------------------------------------------
(* Answers reach the browser *)

\* Mutant: every refusal clears the token.
AnyRefusal(call) == call.answer \in {"unauthorized", "refused"}
\* request clears the token on a 401; upload does not look.
ClearsToken(call) == call.answer = "unauthorized" /\ ~(page = "documents" /\ call.kind = "post")
AfterAnswer(c) == token' = IF ClearsToken(calls[c]) THEN 0 ELSE token

Freed(c) == [calls EXCEPT ![c] = Free]

GetAnswered(c) ==
  /\ Answered(c, "get")
  /\ query' = Received(query, calls[c])
  /\ calls' = Freed(c) /\ AfterAnswer(c)
  /\ UNCHANGED <<page, user, logins, expired, selected, form, busy, overlapped, server, wishes,
                 lost>>

\* A success reloads the rows, a failure is only shown beside them.
PatchAnswered(c) ==
  /\ Answered(c, "patch")
  /\ \/ /\ Ok(c)
        /\ StartLoad(c, IF page \in ModalPages THEN FormLeft ELSE calls, selected, token)
        /\ query' = Loading(query)
        /\ busy' = IF page \in ListPages THEN {} ELSE BusyWithout(calls[c].of)
        /\ form' = [form EXCEPT !.busy = @ /\ page \notin ModalPages]
        /\ Unseen(IF page \in ModalPages THEN Forgotten ELSE {})
     \/ /\ ~Ok(c)
        /\ calls' = Freed(c) /\ busy' = BusyWithout(calls[c].of)
        /\ UNCHANGED <<query, form, overlapped, unseen>>
  /\ AfterAnswer(c)
  /\ UNCHANGED <<page, user, logins, expired, selected, server, wish, pursued, lost>>

\* A success ends the wish and reloads; a failure frees the form.  Where the form
\* is no longer the one that called, its user learns nothing from the failure.
PostAnswered(c) ==
  LET mine == calls[c].seen
      rest == Forgotten \ {c}
  IN
  /\ Answered(c, "post")
  /\ \/ /\ Ok(c)
        /\ Refetch(c, form.busy /\ ~mine)
        /\ pursued' = (pursued /\ calls[c].wish # wish)
        /\ Unseen(IF page \in ModalPages THEN rest ELSE {})
     \/ /\ ~Ok(c)
        /\ calls' = Freed(c)
        /\ form' = [form EXCEPT !.busy = @ /\ ~mine]
        /\ Unseen(IF mine /\ calls[c].answer \in Unclear THEN {c} ELSE {})
        /\ UNCHANGED <<selected, query, busy, overlapped, pursued>>
  /\ AfterAnswer(c)
  /\ UNCHANGED <<page, user, logins, expired, server, wish, lost>>

\* setToken and setUser; the login page gives way to the others.
LoginAnswered(c) ==
  /\ Answered(c, "login")
  /\ IF Ok(c)
     THEN /\ logins' = logins + 1 /\ token' = logins' /\ user' = logins'
          /\ Mount(c, calls, token')
     ELSE /\ calls' = Freed(c) /\ AfterAnswer(c)
          /\ UNCHANGED <<logins, user, view>>
  /\ UNCHANGED <<page, expired, server, wishes, lost>>

\* The page that called is gone; the answer is still read by api.ts, unless the
\* document is gone as well.
Dropped(c) ==
  /\ calls[c].stage = "answered" /\ calls[c].live # "page"
  /\ calls' = Freed(c)
  /\ token' = IF calls[c].live = "gone" /\ ClearsToken(calls[c]) THEN 0 ELSE token
  /\ UNCHANGED <<page, user, logins, expired, view, server, wishes, lost>>

-----------------------------------------------------------------------------
\* The tab is at the login page, after start.logins sessions, start.lost failed
\* calls and start.wish forms: less of each bound is left.
Init ==
  /\ \E start \in Starts :
       /\ page = start.page /\ row = start.row
       /\ logins = start.logins /\ lost = start.lost /\ wish = start.wish
  /\ token = 0 /\ user = 0 /\ expired = {}
  /\ selected = None /\ query = FreshQuery /\ form = [of |-> None, busy |-> FALSE]
  /\ busy = {} /\ overlapped = FALSE
  /\ calls = [c \in Calls |-> Free]
  /\ created = [w \in 1..MaxWishes |-> 0] /\ unseen = [w \in 1..MaxWishes |-> 0]
  /\ pursued = FALSE

Serve(c) == Unauthorized(c) \/ ServeGet(c) \/ ServePatch(c) \/ ServePost(c) \/ ServeLogin(c)
Deliver(c) == \/ GetAnswered(c) \/ PatchAnswered(c) \/ PostAnswered(c) \/ LoginAnswered(c)
              \/ Dropped(c)
UserActs(c) ==
  \/ Remount(c) \/ Retry(c) \/ Press(c) \/ Login(c) \/ Reload(c)
  \/ \E x \in Items : Select(c, x)
  \/ \E x \in Items : /\ query.rows[x] # None
                     /\ \E to \in Chosen \cap Offered(query.rows[x].status) : Patch(c, x, to)

Next ==
  \/ \E c \in Calls : Serve(c) \/ Fail(c) \/ Deliver(c) \/ UserActs(c) \/ Lose(c)
  \/ ReopenForm \/ Collapse \/ Logout \/ Expire
  \/ \E x \in Items : \E to \in Chosen \cap Offered(row[x].status) : OtherWrites(x, to)

\* The server answers and the browser runs the continuations of its promises; a
\* user or another user need not do anything.
Fairness == \A c \in Calls : WF_vars(Serve(c)) /\ WF_vars(Deliver(c))
Spec == Init /\ [][Next]_vars /\ Fairness

-----------------------------------------------------------------------------
(* Properties *)

Rows == [Items -> ShownRow \cup {None}]
Targets == Items \cup {"all", None}

\* Every variable holds what the code can put there; no call names a version
\* that its row never had.
TypeOK ==
  /\ page \in ListPages \cup DetailPages
  /\ {token, user, logins} \subseteq 0..MaxLogins /\ expired \subseteq 1..logins
  /\ selected \in Targets
  /\ query \in [of : Targets, rows : Rows, error : BOOLEAN, loading : BOOLEAN]
  /\ form \in [of : Targets, busy : BOOLEAN] /\ busy \subseteq Items
  /\ \A c \in Calls : /\ calls[c].stage \in {"free", "sent", "answered"}
                     /\ calls[c].of \in Targets /\ calls[c].rows \in Rows
                     /\ (Kind(c, "post") => calls[c].wish \in 1..wish)
                     /\ (Kind(c, "patch") => calls[c].version \in 1..row[calls[c].of].version)
  /\ row \in [Items -> ShownRow]
  /\ wish \in 0..MaxWishes /\ lost \in 0..MaxLost /\ {pursued, overlapped} \subseteq BOOLEAN

\* A call that changes a status can only meet the version it was made for where
\* the row still has the status the user saw, however many writers and reloads
\* came between: nobody overwrites a status that he was not shown.
MovesFromWhatWasShown ==
  \A c \in Calls :
    Kind(c, "patch") /\ calls[c].stage = "sent" /\ calls[c].version = row[calls[c].of].version
      => calls[c].from = row[calls[c].of].status

\* What a page offers, the server accepts, unless the row has changed since or
\* lacks its price or payments: the transition tables that the frontend repeats
\* "so the status dropdown only offers moves the server will actually accept".
OfferStands ==
  \A c \in Calls :
    /\ Kind(c, "patch") /\ calls[c].stage = "sent"
    /\ calls[c].version = row[calls[c].of].version /\ row[calls[c].of].ready
    => Accepted(row[calls[c].of], calls[c].to)

\* A form that is disabled while it waits, and a user who repeats only what he
\* did not see done, create one row per wish and at most one more for every
\* outcome the user was not told: the network failed, the server answered with an
\* error whatever it had written by then, or the form was closed or left.
OneRowPerPress == \A w \in 1..MaxWishes : created[w] <= 1 + unseen[w]

\* The rows below a selection are those of the selected item, unless two loads
\* were under way at once: their answers are taken in any order.
ShownIsSelected == Shown /\ ~overlapped => query.of = selected

\* The token that calls are sent with is that of the user whom the page shows.
TokenIsUsers == token # 0 => token = user

\* A token that the server accepts is given up by a logout, or because an answer
\* to a call of an earlier session comes in late; no other failure ends a
\* session.
OnlyOldCallsEndASession ==
  [][token \notin {0} \cup expired /\ token' = 0
       => \/ user' = 0
          \/ \E c \in Calls : calls[c].answer = "unauthorized" /\ calls[c].token # token
                             /\ calls'[c].stage = "free"]_vars

\* The spinner goes away again and again, unless the user goes on forever to
\* leave the page, to select something else or to retry.
Navigates == Logout \/ \E c \in Calls : \/ Remount(c) \/ Reload(c) \/ Retry(c)
                                       \/ \E x \in Items : Select(c, x)
SpinnerEnds == []<>(~query.loading) \/ []<><<Navigates>>_vars

\* A quote is created for the lead that is selected: QuotesTab hands its form
\* that lead and no other.
QuoteGoesToSelectedLead ==
  [][\A c \in Calls : IsFree(c) /\ calls'[c].kind = "post" => calls'[c].of = selected]_vars

\* docs/api-conventions.md:16: what creates a payment or a document takes an
\* Idempotency-Key, with which a repeated request returns the first result and
\* creates no duplicate.
RepeatsCreateOnce ==
  page \in {"payments", "documents"} => \A w \in 1..MaxWishes : created[w] <= 1

=============================================================================

--------------------------- MODULE Screen_proofs ---------------------------
(***************************************************************************)
(* Safety of Screen for any number of rows, calls in flight, sessions,     *)
(* wishes and failures of the network and the server.                      *)
(***************************************************************************)
EXTENDS Screen, FiniteSetTheorems, TLAPS

-----------------------------------------------------------------------------
(* The inductive invariant *)

CallRow == [stage : {"free", "sent", "answered"},
            kind : {"none", "get", "patch", "post", "login"}, of : Targets,
            version : Nat, from : Statuses \cup {None}, to : Statuses \cup {None},
            wish : Nat, token : Nat, answer : Answers \cup {None}, rows : Rows,
            live : {"page", "gone", "aborted"}, seen : BOOLEAN]

SessionShape == /\ logins \in 0..MaxLogins /\ token \in 0..logins /\ user \in 0..logins
                /\ expired \subseteq 1..logins
QueryRow == [of : Targets, rows : Rows, error : BOOLEAN, loading : BOOLEAN]
ViewShape == /\ selected \in Targets /\ query \in QueryRow
             /\ form \in [of : Targets, busy : BOOLEAN] /\ busy \subseteq Items
             /\ overlapped \in BOOLEAN
ServerShape == /\ row \in [Items -> ShownRow] /\ \A x \in Items : row[x].status \in StatusesOf(page)
               /\ created \in [1..MaxWishes -> Nat]
WishShape == wish \in 0..MaxWishes /\ pursued \in BOOLEAN /\ (pursued => wish # 0)
\* TypeOK but for the versions and wishes that calls name, and what it leaves open.
Shape == /\ page \in ListPages \cup DetailPages /\ lost \in 0..MaxLost
         /\ calls \in [Calls -> CallRow]
         /\ SessionShape /\ ViewShape /\ ServerShape /\ WishShape

\* What was read of a row is the row, or an earlier version of it.
Past(r, x) == r = None \/ /\ r \in ShownRow /\ r.version <= row[x].version
                          /\ r.version = row[x].version => r = row[x]
PastRows(rows) == \A x \in Items : Past(rows[x], x)

\* A call that changes a status was made for a row as it once was.
PatchOK(d) ==
  /\ d.of \in Items /\ d.version \in 1..row[d.of].version /\ d.version < MaxVersion
  /\ d.version = row[d.of].version => d.from = row[d.of].status
  /\ d.to \in Offered(d.from)

\* Only a page calls that belongs to the session, or else the login page.
SessionOK(d) ==
  d.live = "page" => IF d.kind = "login" THEN user = 0 /\ logins < MaxLogins ELSE user # 0
\* The only tokens that were ever refused are those that have expired.
RefusalOK(d) ==
  /\ d.kind = "login" => d.token = 0
  /\ d.answer = "unauthorized" => d.token \in {0} \cup expired

CallOK(d) ==
  d.stage # "free" =>
    /\ PastRows(d.rows)
    /\ d.kind = "patch" => PatchOK(d)
    /\ d.kind = "post" => d.wish \in 1..wish
    /\ SessionOK(d) /\ RefusalOK(d)
    /\ d.stage = "sent" <=> d.answer = None

LiveLogin(d) == d.stage # "free" /\ d.kind = "login" /\ d.live = "page"
OneLogin == \A c, d \in Calls : LiveLogin(calls[c]) /\ LiveLogin(calls[d]) => c = d

IInv == /\ Shape /\ TokenIsUsers /\ PastRows(query.rows)
        /\ \A c \in Calls : CallOK(calls[c])
        /\ OneLogin

-----------------------------------------------------------------------------
(* What a step does to calls *)

\* What is left of a call when nobody, or no form, listens to it any more.
Fades(d, e) ==
  /\ e.stage # "free" =>
       /\ e.stage = d.stage /\ e.kind = d.kind /\ e.of = d.of /\ e.version = d.version
       /\ e.from = d.from /\ e.to = d.to /\ e.wish = d.wish /\ e.token = d.token
       /\ e.answer = d.answer /\ e.rows = d.rows
       /\ e.live = d.live \/ e.live # "page"
       /\ e.seen => d.seen
  /\ d.stage # "free" /\ d.kind = "post" => e.stage # "free"

\* Rows are written, tokens expire and wishes are made; nothing is taken back.
Grows ==
  /\ page' = page /\ expired \subseteq expired' /\ wish <= wish'
  /\ \A x \in Items : /\ row[x].version <= row'[x].version
                      /\ row'[x].version = row[x].version => row'[x] = row[x]

LEMMA Unfaded == \A d : Fades(d, d)
BY DEF Fades

LEMMA PastStays ==
  ASSUME ServerShape, ServerShape', Grows, NEW rows, PastRows(rows)
  PROVE  PastRows(rows)'
<1>1. SUFFICES ASSUME NEW x \in Items PROVE Past(rows[x], x)'
  BY DEF PastRows
<1>2. PICK r : r = rows[x] /\ Past(r, x)
  BY DEF PastRows
<1>3. row[x].version \in Nat /\ row'[x].version \in Nat
  BY DEF ServerShape, ShownRow
<1>4. r # None => r.version \in Nat
  BY <1>2 DEF Past, ShownRow
<1>5. Past(r, x)'
  BY <1>2, <1>3, <1>4 DEF Past, Grows
<1>6. QED
  BY <1>2, <1>5 DEF Past

LEMMA PatchStays ==
  ASSUME ServerShape, ServerShape', Grows, NEW d, PatchOK(d)
  PROVE  PatchOK(d)'
<1>1. row[d.of].version \in Nat /\ row'[d.of].version \in Nat /\ d.version \in Nat
  BY DEF ServerShape, ShownRow, PatchOK
<1>2. Offered(d.from)' = Offered(d.from)
  BY DEF Grows, Offered
<1>3. QED
  BY <1>1, <1>2 DEF PatchOK, Grows

\* A call that goes on or fades is as good as it was, in its session or left.
LEMMA FadedIsOK ==
  ASSUME ServerShape, ServerShape', WishShape, WishShape', Grows,
         NEW d, NEW e, CallOK(d), Fades(d, e),
         UNCHANGED <<user, logins>> \/ e.live # "page"
  PROVE  CallOK(e)'
<1>1. SUFFICES ASSUME e.stage # "free"
               PROVE  /\ PastRows(e.rows)'
                      /\ e.kind = "patch" => PatchOK(e)'
                      /\ e.kind = "post" => e.wish \in 1..wish'
                      /\ SessionOK(e)' /\ RefusalOK(e)'
                      /\ e.stage = "sent" <=> e.answer = None
  BY DEF CallOK
<1>2. d.stage # "free" /\ d.stage = e.stage
  BY <1>1 DEF Fades
<1>3. PastRows(e.rows)'
  <2>1. PICK rows : rows = e.rows /\ PastRows(rows)
    BY <1>1, <1>2 DEF CallOK, Fades
  <2>2. PastRows(rows)'
    BY <2>1, PastStays
  <2>3. QED
    BY <2>1, <2>2
<1>4. e.kind = "patch" => PatchOK(e)'
  BY <1>1, <1>2, PatchStays DEF CallOK, Fades, PatchOK
<1>5. e.kind = "post" => e.wish \in 1..wish'
  BY <1>1, <1>2 DEF CallOK, Fades, Grows, WishShape
<1>6. SessionOK(e)'
  BY <1>1, <1>2 DEF CallOK, Fades, SessionOK
<1>7. RefusalOK(e)'
  BY <1>1, <1>2 DEF CallOK, Fades, RefusalOK, Grows
<1>8. QED
  BY <1>1, <1>2, <1>3, <1>4, <1>5, <1>6, <1>7 DEF CallOK, Fades

LEMMA CallTypes ==
  ASSUME NEW kind \in {"none", "get", "patch", "post", "login"}, NEW of \in Targets,
         SessionShape
  PROVE  /\ Call(kind, of) \in CallRow
         /\ PastRows(Call(kind, of).rows)
BY ScreenAssumption
DEF Call, CallRow, NoRows, Rows, PastRows, Past, SessionShape

LEMMA FreeTypes == Free \in CallRow /\ Free.stage = "free"
<1>1. None \in Targets /\ NoRows \in Rows
  BY DEF Targets, NoRows, Rows
<1>2. QED
  BY <1>1 DEF Free, Call, CallRow

LEMMA FreeIsOK == ASSUME NEW e, e.stage = "free" PROVE CallOK(e)' /\ ~LiveLogin(e)
BY DEF CallOK, LiveLogin

\* The page is left: what was under way is nobody's.
LEMMA LeftFades ==
  ASSUME Shape, NEW how \in {"gone", "aborted"}
  PROVE  /\ Left(how) \in [Calls -> CallRow]
         /\ \A c \in Calls : LET e == Left(how)[c] IN
              /\ Fades(calls[c], e)
              /\ e.stage # "free" => e.live # "page" /\ ~e.seen
<1>1. SUFFICES ASSUME NEW c \in Calls
               PROVE  /\ Left(how)[c] \in CallRow
                      /\ Fades(calls[c], Left(how)[c])
                      /\ Left(how)[c].stage # "free" => Left(how)[c].live # "page" /\ ~Left(how)[c].seen
  BY DEF Left
<1>2. PICK d : d = calls[c] /\ d \in CallRow
  BY DEF Shape
<1>3. CASE IsFree(c) \/ (how = "aborted" /\ Kind(c, "get"))
  <2>1. Left(how)[c] = Free
    BY <1>3 DEF Left
  <2>2. QED
    BY <1>3, <2>1, FreeTypes DEF Fades, IsFree, Kind
<1>4. CASE ~(IsFree(c) \/ (how = "aborted" /\ Kind(c, "get")))
  <2>1. PICK e : e = [d EXCEPT !.live = IF @ = "aborted" THEN @ ELSE how, !.seen = FALSE]
    OBVIOUS
  <2>2. Left(how)[c] = e
    BY <1>2, <1>4, <2>1 DEF Left
  <2>3. /\ e.stage = d.stage /\ e.kind = d.kind /\ e.of = d.of /\ e.version = d.version
        /\ e.from = d.from /\ e.to = d.to /\ e.wish = d.wish /\ e.token = d.token
        /\ e.answer = d.answer /\ e.rows = d.rows /\ e.live \in {"gone", "aborted"} /\ ~e.seen
    BY <1>2, <2>1 DEF CallRow
  <2>4. e \in CallRow
    BY <1>2, <2>1 DEF CallRow
  <2>5. QED
    BY <1>2, <2>2, <2>3, <2>4 DEF Fades
<1>5. QED
  BY <1>3, <1>4

\* The form is replaced: what it sent is not its own any more.
LEMMA FormLeftFades ==
  ASSUME Shape
  PROVE  /\ FormLeft \in [Calls -> CallRow]
         /\ \A c \in Calls : LET e == FormLeft[c] IN
              /\ Fades(calls[c], e)
              /\ e.stage = calls[c].stage /\ e.kind = calls[c].kind /\ e.live = calls[c].live
              /\ e.of = calls[c].of
              /\ e.stage # "free" /\ e.kind = "post" => ~e.seen
<1>1. SUFFICES ASSUME NEW c \in Calls
               PROVE  /\ FormLeft[c] \in CallRow
                      /\ Fades(calls[c], FormLeft[c])
                      /\ FormLeft[c].stage = calls[c].stage /\ FormLeft[c].kind = calls[c].kind
                      /\ FormLeft[c].live = calls[c].live /\ FormLeft[c].of = calls[c].of
                      /\ FormLeft[c].stage # "free" /\ FormLeft[c].kind = "post"
                           => ~FormLeft[c].seen
  BY DEF FormLeft
<1>2. PICK d : d = calls[c] /\ d \in CallRow
  BY DEF Shape
<1>3. PICK e : e = [d EXCEPT !.seen = @ /\ ~Kind(c, "post")]
  OBVIOUS
<1>4. FormLeft[c] = e
  BY <1>2, <1>3 DEF FormLeft
<1>5. /\ e.stage = d.stage /\ e.kind = d.kind /\ e.of = d.of /\ e.version = d.version
      /\ e.from = d.from /\ e.to = d.to /\ e.wish = d.wish /\ e.token = d.token
      /\ e.answer = d.answer /\ e.rows = d.rows /\ e.live = d.live
      /\ e.seen = (d.seen /\ ~Kind(c, "post"))
  BY <1>2, <1>3 DEF CallRow
<1>6. e \in CallRow
  BY <1>2, <1>3 DEF CallRow
<1>7. QED
  BY <1>2, <1>4, <1>5, <1>6 DEF Fades, Kind

-----------------------------------------------------------------------------
(* The invariant from a step's calls *)

\* Every call goes on, fades, or is replaced by one that is as it should be.
Replaced(c) == \E e : e = calls'[c] /\ CallOK(e)' /\ (LiveLogin(e) => LiveLogin(calls[c]))

LEMMA CallsStay ==
  ASSUME IInv, Shape', Grows, TokenIsUsers', PastRows(query.rows)',
         NEW C \in SUBSET Calls,
         \A c \in C : Replaced(c),
         \A c \in Calls \ C : Fades(calls[c], calls'[c]),
         UNCHANGED <<user, logins>> \/ \A c \in Calls \ C : calls'[c].stage # "free" => calls'[c].live # "page"
  PROVE  IInv'
<1>1. ASSUME NEW c \in Calls PROVE Replaced(c)
  <2>1. CASE c \in C
    BY <2>1
  <2>2. CASE c \notin C
    <3>1. PICK d, e : d = calls[c] /\ e = calls'[c] /\ CallOK(d) /\ Fades(d, e)
      BY <2>2 DEF IInv
    <3>2. CASE e.stage = "free"
      BY <3>1, <3>2, FreeIsOK DEF Replaced
    <3>3. CASE e.stage # "free"
      <4>1. UNCHANGED <<user, logins>> \/ e.live # "page"
        BY <2>2, <3>1, <3>3
      <4>2. CallOK(e)'
        BY <3>1, <4>1, FadedIsOK DEF IInv, Shape
      <4>3. LiveLogin(e) => LiveLogin(d)
        BY <3>1, <3>3 DEF Fades, LiveLogin
      <4> QED
        BY <3>1, <4>2, <4>3 DEF Replaced
    <3> QED
      BY <3>2, <3>3
  <2> QED
    BY <2>1, <2>2
<1>2. (\A c \in Calls : CallOK(calls[c]))'
  <2> SUFFICES ASSUME NEW c \in Calls PROVE CallOK(calls[c])'
    OBVIOUS
  <2>1. PICK e : e = calls'[c] /\ CallOK(e)'
    BY <1>1 DEF Replaced
  <2> QED
    BY <2>1 DEF CallOK, SessionOK, RefusalOK, PastRows, Past, PatchOK
<1>3. OneLogin'
  BY <1>1 DEF IInv, OneLogin, Replaced, LiveLogin
<1>4. QED
  BY <1>2, <1>3 DEF IInv

LEMMA OneReplaced ==
  ASSUME IInv, Shape', Grows, TokenIsUsers', PastRows(query.rows)',
         NEW c \in Calls, Replaced(c),
         \A d \in Calls \ {c} : Fades(calls[d], calls'[d]),
         \/ user' = user /\ logins' = logins
         \/ \A d \in Calls \ {c} : calls'[d].stage # "free" => calls'[d].live # "page"
  PROVE  IInv'
<1> DEFINE C == {c}
<1>1. C \in SUBSET Calls /\ \A d \in C : Replaced(d)
  OBVIOUS
<1> HIDE DEF C
<1>2. \A d \in Calls \ C : Fades(calls[d], calls'[d])
  BY DEF C
<1>3. CASE user' = user /\ logins' = logins
  BY <1>1, <1>2, <1>3, CallsStay
<1>4. CASE \A d \in Calls \ {c} : calls'[d].stage # "free" => calls'[d].live # "page"
  <2>1. \A d \in Calls \ C : calls'[d].stage # "free" => calls'[d].live # "page"
    BY <1>4 DEF C
  <2>2. QED
    BY <1>1, <1>2, <2>1, CallsStay
<1>5. QED
  BY <1>3, <1>4

LEMMA NoneReplaced ==
  ASSUME IInv, Shape', Grows, TokenIsUsers', PastRows(query.rows)',
         \A d \in Calls : Fades(calls[d], calls'[d]),
         \/ user' = user /\ logins' = logins
         \/ \A d \in Calls : calls'[d].stage # "free" => calls'[d].live # "page"
  PROVE  IInv'
<1> DEFINE C == {}
<1>1. C \in SUBSET Calls /\ \A d \in C : Replaced(d)
  OBVIOUS
<1>2. \A d \in Calls \ C : Fades(calls[d], calls'[d])
  OBVIOUS
<1>3. UNCHANGED <<user, logins>> \/ \A d \in Calls \ C : calls'[d].stage # "free" => calls'[d].live # "page"
  OBVIOUS
<1> HIDE DEF C
<1>4. QED
  BY <1>1, <1>2, <1>3, CallsStay

-----------------------------------------------------------------------------
(* New calls and answers *)

LEMMA LoadStep ==
  ASSUME IInv, NEW c \in Calls, NEW table \in [Calls -> CallRow], NEW of \in Targets,
         NEW with \in Nat, StartLoad(c, table, of, with), user' # 0
  PROVE  /\ calls' \in [Calls -> CallRow] /\ overlapped' \in BOOLEAN
         /\ Replaced(c) /\ \A d \in Calls \ {c} : calls'[d] = table[d]
<1>1. PICK e : e = [Call("get", of) EXCEPT !.token = with]
  OBVIOUS
<1>2. calls' = [table EXCEPT ![c] = e] /\ overlapped' \in BOOLEAN
  BY <1>1 DEF StartLoad
<1>3. Call("get", of) \in CallRow
  BY CallTypes DEF IInv, Shape
<1>4. /\ e \in CallRow /\ e.stage = "sent" /\ e.kind = "get" /\ e.answer = None
      /\ e.rows = NoRows
  BY <1>1, <1>3 DEF Call, CallRow
<1>5. PastRows(e.rows)'
  BY <1>4 DEF NoRows, PastRows, Past
<1>6. CallOK(e)' /\ ~LiveLogin(e)
  BY <1>4, <1>5, ScreenAssumption DEF CallOK, SessionOK, RefusalOK, Answers, LiveLogin
<1>7. QED
  BY <1>2, <1>4, <1>6 DEF Replaced

LEMMA FreedStep ==
  ASSUME IInv, NEW c \in Calls, NEW table \in [Calls -> CallRow],
         calls' = [table EXCEPT ![c] = Free]
  PROVE  /\ calls' \in [Calls -> CallRow]
         /\ Replaced(c) /\ \A d \in Calls \ {c} : calls'[d] = table[d]
<1>1. PICK e : e = Free /\ e \in CallRow /\ e.stage = "free"
  BY FreeTypes
<1>2. CallOK(e)' /\ ~LiveLogin(e)
  BY <1>1, FreeIsOK
<1>3. QED
  BY <1>1, <1>2 DEF Replaced

LEMMA AnswerStep ==
  ASSUME IInv, ServerShape', WishShape', Grows, UNCHANGED <<user, logins>>,
         NEW c \in Calls, ~IsFree(c), NEW answer \in Answers, Answer(c, answer),
         answer = "unauthorized" => calls[c].token \in {0} \cup expired
  PROVE  /\ calls' \in [Calls -> CallRow]
         /\ Replaced(c) /\ \A d \in Calls \ {c} : calls'[d] = calls[d]
<1>1. PICK d : d = calls[c] /\ d \in CallRow /\ CallOK(d) /\ d.stage # "free"
  BY DEF IInv, Shape, IsFree
<1>2. PICK e : e = [d EXCEPT !.stage = "answered", !.answer = answer]
  OBVIOUS
<1>3. /\ e.stage = "answered" /\ e.answer = answer /\ e.kind = d.kind /\ e.of = d.of
      /\ e.version = d.version /\ e.from = d.from /\ e.to = d.to /\ e.wish = d.wish
      /\ e.token = d.token /\ e.rows = d.rows /\ e.live = d.live /\ e \in CallRow
  BY <1>1, <1>2 DEF CallRow
<1>4. PICK rows : rows = d.rows /\ PastRows(rows) /\ PastRows(rows)'
  BY <1>1, PastStays DEF CallOK, IInv, Shape
<1>5. e.kind = "patch" => PatchOK(e)'
  BY <1>1, <1>3, PatchStays DEF CallOK, PatchOK, IInv, Shape
<1>6. e.kind = "post" => e.wish \in 1..wish'
  BY <1>1, <1>3 DEF CallOK, Grows, WishShape, IInv, Shape
<1>7. SessionOK(e)' /\ RefusalOK(e)'
  BY <1>1, <1>3 DEF CallOK, SessionOK, RefusalOK, Grows
<1>8. CallOK(e)'
  BY <1>3, <1>4, <1>5, <1>6, <1>7, ScreenAssumption DEF CallOK
<1>9. LiveLogin(e) => LiveLogin(d)
  BY <1>1, <1>3 DEF LiveLogin
<1>10. calls' = [calls EXCEPT ![c] = e]
  BY <1>1, <1>2 DEF Answer
<1>11. QED
  BY <1>1, <1>3, <1>8, <1>9, <1>10 DEF Replaced, IInv, Shape

-----------------------------------------------------------------------------
(* The rows of a page *)

LEMMA OfferedAreOfPage ==
  ASSUME page \in ListPages \cup DetailPages, NEW s, NEW to \in Offered(s)
  PROVE  to \in StatusesOf(page) /\ to \in Statuses
<1>1. CASE page = "quotes"
  BY <1>1 DEF Offered, OfferedQuoteMoves, StatusesOf, QuoteStatuses, Statuses, RecordStatuses
<1>2. CASE page = "deals"
  BY <1>2 DEF Offered, OfferedDealMoves, StatusesOf, DealStatuses, Statuses
<1>3. CASE page = "vehicles"
  BY <1>3 DEF Offered, OfferedVehicleMoves, StatusesOf, VehicleStatuses, Statuses
<1>4. CASE page = "leads"
  BY <1>4 DEF Offered, OfferedLeadMoves, StatusesOf, LeadStatuses, Statuses, RecordStatuses
<1>5. CASE page = "tasks"
  BY <1>5 DEF Offered, OfferedTaskMoves, StatusesOf, TaskStatuses, Statuses, RecordStatuses
<1>6. QED
  BY <1>1, <1>2, <1>3, <1>4, <1>5 DEF Offered

\* A page of the frontend offers no move that the server's table does not have.
LEMMA OfferedAreAccepted ==
  ASSUME page \in ListPages \cup DetailPages, NEW r \in ShownRow, r.status \in StatusesOf(page),
         r.ready, NEW to \in Offered(r.status)
  PROVE  Accepted(r, to)
<1>1. CASE page = "quotes"
  BY <1>1 DEF Offered, OfferedQuoteMoves, Accepted, ValidQuoteTransition, QuoteTransitions
<1>2. CASE page = "deals"
  BY <1>2 DEF Offered, OfferedDealMoves, Accepted, ValidDealTransition, DealTransitions,
     OpenDealStatuses, PaidInFull, StatusesOf
<1>3. CASE page = "vehicles"
  BY <1>3 DEF Offered, OfferedVehicleMoves, Accepted, ValidVehicleTransition,
     ListedVehicleMove, MissesListPrice, VehicleTransitions
<1>4. CASE page = "leads"
  BY <1>4 DEF Offered, OfferedLeadMoves, Accepted, ValidLeadTransition
<1>5. CASE page = "tasks"
  BY <1>5 DEF Offered, OfferedTaskMoves, Accepted, ValidTaskTransition, ClosedTask
<1>6. QED
  BY <1>1, <1>2, <1>3, <1>4, <1>5 DEF Offered

LEMMA RowWritten ==
  ASSUME Shape, NEW x \in Items, row[x].version < MaxVersion, NEW to \in StatusesOf(page), to \in Statuses,
         row' = [row EXCEPT ![x].status = to, ![x].version = @ + 1],
         UNCHANGED <<page, expired, wish, created>>
  PROVE  ServerShape' /\ Grows
<1>1. PICK r : r = row[x] /\ r \in ShownRow
  BY DEF Shape, ServerShape
<1>2. PICK s : s = [r EXCEPT !.status = to, !.version = @ + 1]
  OBVIOUS
<1>3. s \in ShownRow /\ s.status = to /\ s.version = r.version + 1
  <2>1. s.status = to /\ s.version = r.version + 1 /\ s.ready = r.ready
    BY <1>1, <1>2 DEF ShownRow
  <2>2. r.version + 1 \in 1..MaxVersion
    BY <1>1, ScreenAssumption DEF ShownRow
  <2>3. s = [status |-> to, version |-> r.version + 1, ready |-> r.ready]
    BY <1>1, <1>2 DEF ShownRow
  <2>4. QED
    BY <1>1, <2>1, <2>2, <2>3 DEF ShownRow
<1>4. row' = [row EXCEPT ![x] = s]
  BY <1>1, <1>2 DEF Shape, ServerShape
<1>5. ServerShape'
  BY <1>3, <1>4 DEF Shape, ServerShape
<1>6. QED
  BY <1>1, <1>3, <1>4, <1>5 DEF Shape, ServerShape, WishShape, Grows, ShownRow

LEMMA NothingWritten ==
  ASSUME Shape, UNCHANGED <<page, row>>, created' \in [1..MaxWishes -> Nat],
         expired \subseteq expired', wish' \in Nat, wish <= wish'
  PROVE  ServerShape' /\ Grows
BY DEF Shape, ServerShape, Grows, ShownRow

-----------------------------------------------------------------------------
(* The view *)

LEMMA QueryTypes ==
  /\ FreshQuery \in QueryRow /\ FreshQuery.rows = NoRows /\ FreshQuery.of = None
  /\ \A q \in QueryRow : /\ Loading(q) \in QueryRow /\ Loading(q).rows = q.rows
                         /\ Loading(q).of = q.of /\ Loading(q).loading
<1>1. None \in Targets /\ NoRows \in Rows
  BY DEF Targets, NoRows, Rows
<1>2. QED
  BY <1>1 DEF FreshQuery, Loading, QueryRow

LEMMA NoRowsArePast == ASSUME query'.rows = NoRows PROVE PastRows(query.rows)'
BY DEF PastRows, Past, NoRows

LEMMA ShownStays ==
  ASSUME IInv, ServerShape', Grows, query'.rows = query.rows
  PROVE  PastRows(query.rows)'
<1>1. PICK rows : rows = query.rows /\ PastRows(rows)
  BY DEF IInv
<1>2. PastRows(rows)'
  BY <1>1, PastStays DEF IInv, Shape
<1>3. QED
  BY <1>1, <1>2 DEF PastRows, Past

LEMMA MountStep ==
  ASSUME IInv, NEW c \in Calls, NEW table \in [Calls -> CallRow], NEW with \in Nat,
         Mount(c, table, with), user' # 0
  PROVE  /\ ViewShape' /\ PastRows(query.rows)' /\ calls' \in [Calls -> CallRow]
         /\ Replaced(c) /\ \A d \in Calls \ {c} : calls'[d] = table[d]
<1>1. query' \in QueryRow /\ query'.rows = NoRows
  BY QueryTypes DEF Mount
<1>2. /\ selected' \in Targets /\ form' \in [of : Targets, busy : BOOLEAN]
      /\ busy' \subseteq Items
  BY DEF Mount, Targets
<1>3. CASE page \in ListPages
  BY <1>1, <1>2, <1>3, NoRowsArePast, LoadStep DEF Mount, ViewShape, Targets
<1>4. CASE page \notin ListPages
  BY <1>1, <1>2, <1>4, NoRowsArePast, FreedStep DEF Mount, ViewShape
<1>5. QED
  BY <1>3, <1>4

LEMMA UnmountStep ==
  ASSUME NEW table, Unmount(table)
  PROVE  ViewShape' /\ PastRows(query.rows)' /\ calls' = table
<1>1. query' \in QueryRow /\ query'.rows = NoRows
  BY QueryTypes DEF Unmount
<1>2. QED
  BY <1>1, NoRowsArePast DEF Unmount, ViewShape, Targets

LEMMA RefetchStep ==
  ASSUME IInv, ServerShape', Grows, user' # 0, NEW c \in Calls, NEW formBusy \in BOOLEAN,
         Refetch(c, formBusy)
  PROVE  /\ ViewShape' /\ PastRows(query.rows)' /\ calls' \in [Calls -> CallRow]
         /\ Replaced(c) /\ \A d \in Calls \ {c} : Fades(calls[d], calls'[d])
<1>1. query' = Loading(query) /\ query' \in QueryRow /\ query'.rows = query.rows
  BY QueryTypes DEF Refetch, IInv, Shape, ViewShape
<1>2. /\ selected' \in Targets /\ form' \in [of : Targets, busy : BOOLEAN]
      /\ busy' \subseteq Items
  BY DEF Refetch, IInv, Shape, ViewShape
<1>3. PICK table \in [Calls -> CallRow] :
        /\ StartLoad(c, table, selected, token)
        /\ \A d \in Calls : Fades(calls[d], table[d])
  BY FormLeftFades, Unfaded DEF Refetch, IInv, Shape
<1>4. token \in Nat /\ selected \in Targets
  BY DEF IInv, Shape, SessionShape, ViewShape
<1>5. /\ calls' \in [Calls -> CallRow] /\ overlapped' \in BOOLEAN
      /\ Replaced(c) /\ \A d \in Calls \ {c} : calls'[d] = table[d]
  BY <1>3, <1>4, LoadStep
<1>6. PastRows(query.rows)'
  BY <1>1, ShownStays
<1>7. QED
  BY <1>1, <1>2, <1>3, <1>5, <1>6 DEF ViewShape

-----------------------------------------------------------------------------
(* The user's actions *)

LEMMA RemountKeeps ==
  ASSUME IInv, NEW c \in Calls, Remount(c)
  PROVE  IInv'
<1>1. UNCHANGED <<page, token, user, logins, expired, row, created, wish, pursued, lost>> /\ user' # 0
  BY DEF Remount, session, server
<1>2. ServerShape' /\ Grows
  BY <1>1, NothingWritten DEF IInv, Shape, ServerShape, WishShape
<1>3. /\ Left("gone") \in [Calls -> CallRow] /\ token \in Nat
      /\ \A d \in Calls : Fades(calls[d], Left("gone")[d])
  BY LeftFades DEF IInv, Shape, SessionShape
<1>4. /\ ViewShape' /\ PastRows(query.rows)' /\ calls' \in [Calls -> CallRow]
      /\ Replaced(c) /\ \A d \in Calls \ {c} : calls'[d] = Left("gone")[d]
  BY <1>1, <1>3, MountStep DEF Remount
<1>5. Shape' /\ TokenIsUsers'
  BY <1>1, <1>2, <1>4 DEF IInv, Shape, SessionShape, WishShape, TokenIsUsers
<1>6. QED
  BY <1>1, <1>2, <1>3, <1>4, <1>5, OneReplaced

LEMMA ReopenFormKeeps ==
  ASSUME IInv, ReopenForm
  PROVE  IInv'
<1>1. /\ UNCHANGED <<page, token, user, logins, expired, row, created, wish, pursued, lost>>
      /\ UNCHANGED <<selected, query, busy, overlapped>>
  BY DEF ReopenForm, session, server
<1>2. ServerShape' /\ Grows
  BY <1>1, NothingWritten DEF IInv, Shape, ServerShape, WishShape
<1>3. calls' \in [Calls -> CallRow] /\ \A d \in Calls : Fades(calls[d], calls'[d])
  BY FormLeftFades DEF ReopenForm, IInv, Shape
<1>4. ViewShape' /\ PastRows(query.rows)'
  BY <1>1, <1>2, ShownStays DEF ReopenForm, IInv, Shape, ViewShape
<1>5. Shape' /\ TokenIsUsers'
  BY <1>1, <1>2, <1>3, <1>4 DEF IInv, Shape, SessionShape, WishShape, TokenIsUsers
<1>6. QED
  BY <1>1, <1>2, <1>3, <1>4, <1>5, NoneReplaced

LEMMA SelectKeeps ==
  ASSUME IInv, NEW c \in Calls, NEW x \in Items, Select(c, x)
  PROVE  IInv'
<1>1. /\ UNCHANGED <<page, token, user, logins, expired, row, created, wish, pursued, lost>>
      /\ user' # 0 /\ UNCHANGED busy
  BY DEF Select, session, server, wishes
<1>2. ServerShape' /\ Grows
  BY <1>1, NothingWritten DEF IInv, Shape, ServerShape, WishShape
<1>3. token \in Nat /\ x \in Targets /\ calls \in [Calls -> CallRow]
  BY DEF IInv, Shape, SessionShape, Targets
<1>4. /\ calls' \in [Calls -> CallRow] /\ overlapped' \in BOOLEAN
      /\ Replaced(c) /\ \A d \in Calls \ {c} : calls'[d] = calls[d]
  BY <1>1, <1>3, LoadStep DEF Select, Reselected
<1>5. query' \in QueryRow /\ query'.rows = query.rows
  BY QueryTypes DEF Select, Reselected, IInv, Shape, ViewShape
<1>6. ViewShape' /\ PastRows(query.rows)'
  BY <1>1, <1>2, <1>3, <1>4, <1>5, ShownStays DEF Select, IInv, Shape, ViewShape
<1>7. Shape' /\ TokenIsUsers'
  BY <1>1, <1>2, <1>4, <1>6 DEF IInv, Shape, SessionShape, WishShape, TokenIsUsers
<1>8. \A d \in Calls \ {c} : Fades(calls[d], calls'[d])
  BY <1>4, Unfaded
<1>9. QED
  BY <1>1, <1>2, <1>4, <1>6, <1>7, <1>8, OneReplaced

LEMMA RetryKeeps ==
  ASSUME IInv, NEW c \in Calls, Retry(c)
  PROVE  IInv'
<1>1. /\ UNCHANGED <<page, token, user, logins, expired, row, created, wish, pursued, lost>>
      /\ user' # 0
  BY DEF Retry, session, server
<1>2. ServerShape' /\ Grows
  BY <1>1, NothingWritten DEF IInv, Shape, ServerShape, WishShape
<1>3. form.busy \in BOOLEAN
  BY DEF IInv, Shape, ViewShape
<1>4. /\ ViewShape' /\ PastRows(query.rows)' /\ calls' \in [Calls -> CallRow]
      /\ Replaced(c) /\ \A d \in Calls \ {c} : Fades(calls[d], calls'[d])
  BY <1>1, <1>2, <1>3, RefetchStep DEF Retry
<1>5. Shape' /\ TokenIsUsers'
  BY <1>1, <1>2, <1>4 DEF IInv, Shape, SessionShape, WishShape, TokenIsUsers
<1>6. QED
  BY <1>1, <1>2, <1>4, <1>5, OneReplaced

LEMMA PatchKeeps ==
  ASSUME IInv, NEW c \in Calls, NEW x \in Items, NEW to, Patch(c, x, to)
  PROVE  IInv'
<1>1. /\ UNCHANGED <<page, token, user, logins, expired, row, created, wish, pursued, lost>>
      /\ user # 0 /\ UNCHANGED <<selected, query, form, overlapped>>
  BY DEF Patch, session, server, wishes
<1>2. ServerShape' /\ Grows
  BY <1>1, NothingWritten DEF IInv, Shape, ServerShape, WishShape
<1>3. PICK r : /\ r = query.rows[x] /\ r # None /\ to \in Offered(r.status)
               /\ r.version < MaxVersion /\ r \in ShownRow /\ Past(r, x)
  BY DEF Patch, IInv, PastRows, Past
<1>4. PICK e : /\ e = [Call("patch", x) EXCEPT !.version = VersionOf(r), !.from = r.status, !.to = to]
               /\ calls' = [calls EXCEPT ![c] = e]
  BY <1>3 DEF Patch
<1>5. Call("patch", x) \in CallRow /\ to \in Statuses /\ r.version \in Nat /\ r.status \in Statuses
  BY <1>3, CallTypes, OfferedAreOfPage DEF IInv, Shape, Targets, ShownRow
<1>6. /\ e.stage = "sent" /\ e.kind = "patch" /\ e.of = x /\ e.version = r.version
      /\ e.from = r.status /\ e.to = to /\ e.answer = None /\ e.rows = NoRows
  BY <1>4 DEF Call, VersionOf
<1>7. e \in CallRow
  BY <1>4, <1>5 DEF CallRow, VersionOf
<1>8. PatchOK(e)
  BY <1>3, <1>6 DEF PatchOK, Past, ShownRow
<1>9. PatchOK(e)'
  BY <1>2, <1>8, PatchStays DEF IInv, Shape
<1>10. CallOK(e)' /\ ~LiveLogin(e)
  BY <1>1, <1>6, <1>9, ScreenAssumption
  DEF CallOK, SessionOK, RefusalOK, Answers, LiveLogin, PastRows, Past, NoRows
<1>11. calls' \in [Calls -> CallRow] /\ Replaced(c) /\ \A d \in Calls \ {c} : Fades(calls[d], calls'[d])
  BY <1>4, <1>7, <1>10, Unfaded DEF Replaced, IInv, Shape
<1>12. busy' \subseteq Items
  BY DEF Patch, BusyWith, IInv, Shape, ViewShape
<1>13. ViewShape' /\ PastRows(query.rows)'
  BY <1>1, <1>2, <1>12, ShownStays DEF IInv, Shape, ViewShape
<1>14. Shape' /\ TokenIsUsers'
  BY <1>1, <1>2, <1>11, <1>13 DEF IInv, Shape, SessionShape, WishShape, TokenIsUsers
<1>15. QED
  BY <1>1, <1>2, <1>11, <1>13, <1>14, OneReplaced

LEMMA PressKeeps ==
  ASSUME IInv, NEW c \in Calls, Press(c)
  PROVE  IInv'
<1>1. /\ UNCHANGED <<page, token, user, logins, expired, row, created, lost>>
      /\ user # 0 /\ UNCHANGED <<selected, query, busy, overlapped>>
  BY DEF Press, session, server
<1>2. PICK w : /\ w = IF pursued THEN wish ELSE wish + 1
               /\ w <= MaxWishes /\ wish' = w /\ pursued' = TRUE
               /\ calls' = [calls EXCEPT ![c] = [Call("post", FormTarget) EXCEPT !.wish = w]]
  BY DEF Press
<1>3. w \in Nat /\ wish <= w /\ w # 0 /\ w \in 1..wish'
  BY <1>2, ScreenAssumption DEF IInv, Shape, WishShape
<1>4. WishShape' /\ ServerShape' /\ Grows
  BY <1>1, <1>2, <1>3, ScreenAssumption, NothingWritten DEF IInv, Shape, ServerShape, WishShape
<1>5. FormTarget \in Targets
  BY DEF FormTarget, IInv, Shape, ViewShape
<1>6. PICK e : /\ e = [Call("post", FormTarget) EXCEPT !.wish = w]
               /\ calls' = [calls EXCEPT ![c] = e]
  BY <1>2
<1>7. Call("post", FormTarget) \in CallRow
  BY <1>5, CallTypes DEF IInv, Shape
<1>8. /\ e.stage = "sent" /\ e.kind = "post" /\ e.wish = w /\ e.answer = None /\ e.rows = NoRows
      /\ e \in CallRow
  BY <1>3, <1>6, <1>7 DEF Call, CallRow
<1>9. CallOK(e)' /\ ~LiveLogin(e)
  BY <1>1, <1>3, <1>8, ScreenAssumption
  DEF CallOK, SessionOK, RefusalOK, Answers, LiveLogin, PastRows, Past, NoRows
<1>10. calls' \in [Calls -> CallRow] /\ Replaced(c) /\ \A d \in Calls \ {c} : Fades(calls[d], calls'[d])
  BY <1>6, <1>8, <1>9, Unfaded DEF Replaced, IInv, Shape
<1>11. ViewShape' /\ PastRows(query.rows)'
  BY <1>1, <1>4, ShownStays DEF Press, IInv, Shape, ViewShape
<1>12. Shape' /\ TokenIsUsers'
  BY <1>1, <1>4, <1>10, <1>11 DEF IInv, Shape, SessionShape, TokenIsUsers
<1>13. QED
  BY <1>1, <1>4, <1>10, <1>11, <1>12, OneReplaced

LEMMA LogoutKeeps ==
  ASSUME IInv, Logout
  PROVE  IInv'
<1>1. /\ UNCHANGED <<page, logins, expired, row, created, wish, pursued, lost>>
      /\ token' = 0 /\ user' = 0 /\ Unmount(Left("gone"))
  BY DEF Logout, server, NoToken
<1>2. ServerShape' /\ Grows
  BY <1>1, NothingWritten DEF IInv, Shape, ServerShape, WishShape
<1>3. ViewShape' /\ PastRows(query.rows)' /\ calls' = Left("gone")
  BY <1>1, UnmountStep
<1>4. /\ calls' \in [Calls -> CallRow]
      /\ \A d \in Calls : /\ Fades(calls[d], calls'[d])
                          /\ calls'[d].stage # "free" => calls'[d].live # "page"
  BY <1>3, LeftFades DEF IInv, Shape
<1>5. Shape' /\ TokenIsUsers'
  BY <1>1, <1>2, <1>3, <1>4 DEF IInv, Shape, SessionShape, WishShape, TokenIsUsers
<1>6. QED
  BY <1>2, <1>3, <1>4, <1>5, NoneReplaced

LEMMA ReloadKeeps ==
  ASSUME IInv, NEW c \in Calls, Reload(c)
  PROVE  IInv'
<1>1. UNCHANGED <<page, token, logins, expired, row, created, wish, pursued, lost>>
  BY DEF Reload, server
<1>2. ServerShape' /\ Grows
  BY <1>1, NothingWritten DEF IInv, Shape, ServerShape, WishShape
<1>3. /\ Left("aborted") \in [Calls -> CallRow] /\ token \in Nat
      /\ \A d \in Calls : LET e == Left("aborted")[d] IN
           Fades(calls[d], e) /\ (e.stage # "free" => e.live # "page")
  BY LeftFades DEF IInv, Shape, SessionShape
<1>4. user' \in 0..logins' /\ TokenIsUsers'
  BY <1>1 DEF Reload, IInv, Shape, SessionShape, TokenIsUsers
<1>5. CASE user' = 0
  <2>1. ViewShape' /\ PastRows(query.rows)' /\ calls' = Left("aborted")
    BY <1>5, UnmountStep DEF Reload
  <2>2. Shape'
    BY <1>1, <1>2, <1>3, <1>4, <2>1 DEF IInv, Shape, SessionShape, WishShape
  <2>3. QED
    BY <1>2, <1>3, <1>4, <2>1, <2>2, NoneReplaced
<1>6. CASE user' # 0
  <2>1. /\ ViewShape' /\ PastRows(query.rows)' /\ calls' \in [Calls -> CallRow]
        /\ Replaced(c) /\ \A d \in Calls \ {c} : calls'[d] = Left("aborted")[d]
    BY <1>3, <1>6, MountStep DEF Reload
  <2>2. Shape'
    BY <1>1, <1>2, <1>4, <2>1 DEF IInv, Shape, SessionShape, WishShape
  <2>3. QED
    BY <1>2, <1>3, <1>4, <2>1, <2>2, OneReplaced
<1>7. QED
  BY <1>5, <1>6

\* The only action that calls for the login page.
LEMMA LoginKeeps ==
  ASSUME IInv, NEW c \in Calls, Login(c)
  PROVE  IInv'
<1>1. /\ UNCHANGED <<page, token, user, logins, expired, row, created, wish, pursued, lost>>
      /\ user = 0 /\ logins < MaxLogins /\ UNCHANGED <<selected, query, form, busy, overlapped>>
      /\ \A d \in Calls : ~LiveLogin(calls[d])
  BY DEF Login, session, server, wishes, view, LiveLogin, Kind
<1>2. ServerShape' /\ Grows
  BY <1>1, NothingWritten DEF IInv, Shape, ServerShape, WishShape
<1>3. PICK e : e = Call("login", None) /\ calls' = [calls EXCEPT ![c] = e]
  BY DEF Login
<1>4. /\ e \in CallRow /\ e.stage = "sent" /\ e.kind = "login" /\ e.answer = None
      /\ e.rows = NoRows /\ e.token = token
  BY <1>3, CallTypes DEF IInv, Shape, Targets, Call
<1>5. token = 0
  BY <1>1 DEF IInv, TokenIsUsers
<1>6. CallOK(e)'
  BY <1>1, <1>4, <1>5, ScreenAssumption
  DEF CallOK, SessionOK, RefusalOK, Answers, PastRows, Past, NoRows
<1>7. calls' \in [Calls -> CallRow]
  BY <1>3, <1>4 DEF IInv, Shape
<1>8. ViewShape' /\ PastRows(query.rows)'
  BY <1>1, <1>2, ShownStays DEF IInv, Shape, ViewShape
<1>9. Shape' /\ TokenIsUsers'
  BY <1>1, <1>2, <1>7, <1>8 DEF IInv, Shape, SessionShape, WishShape, TokenIsUsers
<1>10. ASSUME NEW d \in Calls, d # c
       PROVE  \E i : i = calls'[d] /\ CallOK(i)' /\ ~LiveLogin(i)
  <2>1. PICK i : i = calls'[d] /\ i = calls[d] /\ CallOK(i) /\ ~LiveLogin(i)
    BY <1>1, <1>3, <1>10 DEF IInv, Shape
  <2>2. CallOK(i)'
    BY <1>1, <1>2, <1>9, <2>1, Unfaded, FadedIsOK DEF IInv, Shape
  <2>3. QED
    BY <2>1, <2>2
<1>11. \A d \in Calls : \E i : i = calls'[d] /\ CallOK(i)' /\ (LiveLogin(i) => d = c)
  BY <1>3, <1>6, <1>10 DEF IInv, Shape
<1>12. (\A d \in Calls : CallOK(calls[d]))'
  BY <1>11 DEF CallOK, SessionOK, RefusalOK, PastRows, Past, PatchOK
<1>13. OneLogin'
  BY <1>11 DEF OneLogin, LiveLogin
<1>14. QED
  BY <1>8, <1>9, <1>12, <1>13 DEF IInv

LEMMA StutterKeeps == ASSUME IInv, UNCHANGED vars PROVE IInv'
<1>1. /\ UNCHANGED <<page, token, user, logins, expired, row, created, wish, pursued, lost>>
      /\ UNCHANGED <<selected, query, form, busy, overlapped, calls>>
  BY DEF vars, session, view, server, wishes
<1>2. ServerShape' /\ Grows
  BY <1>1, NothingWritten DEF IInv, Shape, ServerShape, WishShape
<1>3. ViewShape' /\ PastRows(query.rows)'
  BY <1>1, <1>2, ShownStays DEF IInv, Shape, ViewShape
<1>4. Shape' /\ TokenIsUsers'
  BY <1>1, <1>2, <1>3 DEF IInv, Shape, SessionShape, WishShape, TokenIsUsers
<1>5. \A d \in Calls : Fades(calls[d], calls'[d])
  BY <1>1, Unfaded
<1>6. QED
  BY <1>1, <1>2, <1>3, <1>4, <1>5, NoneReplaced

LEMMA CollapseKeeps == ASSUME IInv, Collapse PROVE IInv'
<1>1. /\ UNCHANGED <<page, token, user, logins, expired, row, created, wish, pursued, lost>>
      /\ UNCHANGED <<selected, query, form, overlapped, calls>> /\ busy' = {}
  BY DEF Collapse, session, server, wishes
<1>2. ServerShape' /\ Grows
  BY <1>1, NothingWritten DEF IInv, Shape, ServerShape, WishShape
<1>3. ViewShape' /\ PastRows(query.rows)'
  BY <1>1, <1>2, ShownStays DEF IInv, Shape, ViewShape
<1>4. Shape' /\ TokenIsUsers'
  BY <1>1, <1>2, <1>3 DEF IInv, Shape, SessionShape, WishShape, TokenIsUsers
<1>5. \A d \in Calls : Fades(calls[d], calls'[d])
  BY <1>1, Unfaded
<1>6. QED
  BY <1>1, <1>2, <1>3, <1>4, <1>5, NoneReplaced

-----------------------------------------------------------------------------
(* The server and the network *)

LEMMA ExpireKeeps == ASSUME IInv, Expire PROVE IInv'
<1>1. /\ UNCHANGED <<page, token, user, logins, row, created, wish, pursued, lost>>
      /\ UNCHANGED <<selected, query, form, busy, overlapped, calls>>
      /\ expired' = expired \cup {token} /\ token # 0
  BY DEF Expire, view, server, wishes
<1>2. ServerShape' /\ Grows
  BY <1>1, NothingWritten DEF IInv, Shape, ServerShape, WishShape
<1>3. ViewShape' /\ PastRows(query.rows)'
  BY <1>1, <1>2, ShownStays DEF IInv, Shape, ViewShape
<1>4. Shape' /\ TokenIsUsers'
  BY <1>1, <1>2, <1>3 DEF IInv, Shape, SessionShape, WishShape, TokenIsUsers
<1>5. \A d \in Calls : Fades(calls[d], calls'[d])
  BY <1>1, Unfaded
<1>6. QED
  BY <1>1, <1>2, <1>3, <1>4, <1>5, NoneReplaced

LEMMA OtherWritesKeeps ==
  ASSUME IInv, NEW x \in Items, NEW to \in Offered(row[x].status), OtherWrites(x, to)
  PROVE  IInv'
<1>1. /\ UNCHANGED <<page, token, user, logins, expired, created, wish, pursued, lost>>
      /\ UNCHANGED <<selected, query, form, busy, overlapped, calls>>
      /\ row[x].version < MaxVersion
      /\ row' = [row EXCEPT ![x].status = to, ![x].version = @ + 1]
  BY DEF OtherWrites, session, view, wishes
<1>2. to \in StatusesOf(page) /\ to \in Statuses
  BY OfferedAreOfPage DEF IInv, Shape
<1>3. ServerShape' /\ Grows
  BY <1>1, <1>2, RowWritten DEF IInv
<1>4. ViewShape' /\ PastRows(query.rows)'
  BY <1>1, <1>3, ShownStays DEF IInv, Shape, ViewShape
<1>5. Shape' /\ TokenIsUsers'
  BY <1>1, <1>3, <1>4 DEF IInv, Shape, SessionShape, WishShape, TokenIsUsers
<1>6. \A d \in Calls : Fades(calls[d], calls'[d])
  BY <1>1, Unfaded
<1>7. QED
  BY <1>1, <1>3, <1>4, <1>5, <1>6, NoneReplaced

\* A call is answered, whatever the server wrote for it.
LEMMA AnsweredKeeps ==
  ASSUME IInv, NEW c \in Calls, ~IsFree(c), NEW answer \in Answers, Answer(c, answer),
         answer = "unauthorized" => calls[c].token \in {0} \cup expired,
         ServerShape', Grows, lost' \in 0..MaxLost,
         UNCHANGED <<page, token, user, logins, expired, wish, pursued>>,
         UNCHANGED <<selected, query, form, busy, overlapped>>
  PROVE  IInv'
<1>1. WishShape'
  BY DEF IInv, Shape, WishShape
<1>2. calls' \in [Calls -> CallRow] /\ Replaced(c) /\ \A d \in Calls \ {c} : calls'[d] = calls[d]
  BY <1>1, AnswerStep
<1>3. ViewShape' /\ PastRows(query.rows)'
  BY ShownStays DEF IInv, Shape, ViewShape
<1>4. Shape' /\ TokenIsUsers'
  BY <1>1, <1>2, <1>3 DEF IInv, Shape, SessionShape, TokenIsUsers
<1>5. \A d \in Calls \ {c} : Fades(calls[d], calls'[d])
  BY <1>2, Unfaded
<1>6. QED
  BY <1>2, <1>3, <1>4, <1>5, OneReplaced

LEMMA UnauthorizedKeeps == ASSUME IInv, NEW c \in Calls, Unauthorized(c) PROVE IInv'
<1>1. /\ UNCHANGED <<page, token, user, logins, expired, row, created, wish, pursued, lost>>
      /\ UNCHANGED <<selected, query, form, busy, overlapped>>
      /\ ~IsFree(c) /\ Answer(c, "unauthorized") /\ calls[c].token \in {0} \cup expired
  BY DEF Unauthorized, Authorized, IsFree, session, view, server, wishes
<1>2. ServerShape' /\ Grows
  BY <1>1, NothingWritten DEF IInv, Shape, ServerShape, WishShape
<1>3. QED
  BY <1>1, <1>2, AnsweredKeeps DEF Answers, IInv, Shape

LEMMA ServeGetKeeps == ASSUME IInv, NEW c \in Calls, ServeGet(c) PROVE IInv'
<1>1. /\ UNCHANGED <<page, token, user, logins, expired, row, created, wish, pursued, lost>>
      /\ UNCHANGED <<selected, query, form, busy, overlapped>>
  BY DEF ServeGet, session, view, server, wishes
<1>2. ServerShape' /\ Grows
  BY <1>1, NothingWritten DEF IInv, Shape, ServerShape, WishShape
<1>3. PICK d : /\ d = calls[c] /\ d \in CallRow /\ CallOK(d)
               /\ d.stage # "free" /\ d.kind = "get"
  BY DEF ServeGet, Sent, Kind, IInv, Shape
<1>4. PICK rows : rows = [x \in Items |-> IF d.of \in {"all", x} THEN row[x] ELSE None]
  OBVIOUS
<1>5. rows \in Rows /\ PastRows(rows)'
  BY <1>1, <1>4 DEF Rows, PastRows, Past, IInv, Shape, ServerShape, ShownRow
<1>6. PICK e : /\ e = [d EXCEPT !.stage = "answered", !.answer = "ok", !.rows = rows]
               /\ calls' = [calls EXCEPT ![c] = e]
  BY <1>3, <1>4 DEF ServeGet
<1>7. /\ e.stage = "answered" /\ e.answer = "ok" /\ e.kind = "get" /\ e.rows = rows
      /\ e.live = d.live
  BY <1>3, <1>6 DEF CallRow
<1>8. e \in CallRow
  BY <1>3, <1>5, <1>6 DEF CallRow, Answers
<1>9. CallOK(e)' /\ ~LiveLogin(e)
  BY <1>1, <1>3, <1>5, <1>7, ScreenAssumption DEF CallOK, SessionOK, RefusalOK, LiveLogin, Answers
<1>10. calls' \in [Calls -> CallRow] /\ Replaced(c) /\ \A i \in Calls \ {c} : Fades(calls[i], calls'[i])
  BY <1>6, <1>8, <1>9, Unfaded DEF Replaced, IInv, Shape
<1>11. ViewShape' /\ PastRows(query.rows)'
  BY <1>1, <1>2, ShownStays DEF IInv, Shape, ViewShape
<1>12. Shape' /\ TokenIsUsers'
  BY <1>1, <1>2, <1>10, <1>11 DEF IInv, Shape, SessionShape, WishShape, TokenIsUsers
<1>13. QED
  BY <1>1, <1>2, <1>10, <1>11, <1>12, OneReplaced

\* A status that is written was offered for the status that it replaces.
LEMMA ServePatchWrites ==
  ASSUME IInv, NEW c \in Calls, Sent(c, "patch"), calls[c].version = row[calls[c].of].version
  PROVE  /\ calls[c].of \in Items /\ row[calls[c].of].version < MaxVersion
         /\ calls[c].from = row[calls[c].of].status
         /\ calls[c].to \in Offered(row[calls[c].of].status)
         /\ calls[c].to \in StatusesOf(page) /\ calls[c].to \in Statuses
<1>1. PatchOK(calls[c])
  BY DEF Sent, Kind, IInv, CallOK
<1>2. calls[c].to \in Offered(row[calls[c].of].status)
  BY <1>1 DEF PatchOK
<1>3. QED
  BY <1>1, <1>2, OfferedAreOfPage DEF PatchOK, IInv, Shape

LEMMA ServePatchKeeps == ASSUME IInv, NEW c \in Calls, ServePatch(c) PROVE IInv'
<1>1. /\ UNCHANGED <<page, token, user, logins, expired, created, wish, pursued, lost>>
      /\ UNCHANGED <<selected, query, form, busy, overlapped>>
      /\ ~IsFree(c) /\ Sent(c, "patch")
  BY DEF ServePatch, Sent, Kind, IsFree, session, view, wishes
<1>2. CASE /\ calls[c].version = row[calls[c].of].version /\ Answer(c, "ok")
           /\ row' = [row EXCEPT ![calls[c].of].status = calls[c].to,
                                 ![calls[c].of].version = @ + 1]
  <2>1. /\ calls[c].of \in Items /\ row[calls[c].of].version < MaxVersion
        /\ calls[c].to \in StatusesOf(page) /\ calls[c].to \in Statuses
    BY <1>1, <1>2, ServePatchWrites
  <2>2. ServerShape' /\ Grows
    BY <1>1, <1>2, <2>1, RowWritten DEF IInv
  <2>3. QED
    BY <1>1, <1>2, <2>2, AnsweredKeeps DEF Answers, IInv, Shape
<1>3. CASE Answer(c, "refused") /\ UNCHANGED row
  <2>1. ServerShape' /\ Grows
    BY <1>1, <1>3, NothingWritten DEF IInv, Shape, ServerShape, WishShape
  <2>2. QED
    BY <1>1, <1>3, <2>1, AnsweredKeeps DEF Answers, IInv, Shape
<1>4. QED
  BY <1>2, <1>3 DEF ServePatch, Stands, Move

\* A row that is created is counted for its wish.
LEMMA CreateTypes ==
  ASSUME IInv, NEW c \in Calls, created' = created \/ Create(calls[c])
  PROVE  created' \in [1..MaxWishes -> Nat]
<1>1. CASE created' = created
  BY <1>1 DEF IInv, Shape, ServerShape
<1>2. CASE Create(calls[c])
  <2>1. PICK w \in Nat : w = calls[c].wish
    BY DEF IInv, Shape, CallRow
  <2>2. created \in [1..MaxWishes -> Nat] /\ created' = [created EXCEPT ![w] = @ + 1]
    BY <1>2, <2>1 DEF Create, IInv, Shape, ServerShape
  <2>3. CASE w \in 1..MaxWishes
    BY <2>2, <2>3
  <2>4. CASE w \notin 1..MaxWishes
    BY <2>2, <2>4
  <2> QED
    BY <2>3, <2>4
<1> QED
  BY <1>1, <1>2

LEMMA ServePostKeeps == ASSUME IInv, NEW c \in Calls, ServePost(c) PROVE IInv'
<1>1. /\ UNCHANGED <<page, token, user, logins, expired, row, wish, pursued, lost>>
      /\ UNCHANGED <<selected, query, form, busy, overlapped>>
      /\ ~IsFree(c)
      /\ Answer(c, "ok") \/ Answer(c, "refused")
  BY DEF ServePost, Sent, Kind, IsFree, session, view, wishes
<1>2. created' \in [1..MaxWishes -> Nat]
  BY CreateTypes DEF ServePost
<1>3. ServerShape' /\ Grows
  BY <1>1, <1>2, NothingWritten DEF IInv, Shape, ServerShape, WishShape
<1>4. QED
  BY <1>1, <1>3, AnsweredKeeps DEF Answers, IInv, Shape

LEMMA ServeLoginKeeps == ASSUME IInv, NEW c \in Calls, ServeLogin(c) PROVE IInv'
<1>1. /\ UNCHANGED <<page, token, user, logins, expired, row, created, wish, pursued, lost>>
      /\ UNCHANGED <<selected, query, form, busy, overlapped>>
      /\ ~IsFree(c) /\ Kind(c, "login")
  BY DEF ServeLogin, Sent, Kind, IsFree, session, view, server, wishes
<1>2. ServerShape' /\ Grows
  BY <1>1, NothingWritten DEF IInv, Shape, ServerShape, WishShape
<1>3. calls[c].token = 0
  BY <1>1 DEF Kind, IInv, CallOK, RefusalOK
<1>4. PICK answer \in {"ok", "unauthorized"} : Answer(c, answer)
  BY DEF ServeLogin
<1>5. QED
  BY <1>1, <1>2, <1>3, <1>4, AnsweredKeeps DEF Answers, IInv, Shape

LEMMA FailKeeps == ASSUME IInv, NEW c \in Calls, Fail(c) PROVE IInv'
<1>1. /\ UNCHANGED <<page, token, user, logins, expired, wish, pursued>>
      /\ UNCHANGED <<selected, query, form, busy, overlapped>>
      /\ ~IsFree(c) /\ Answer(c, "failed") /\ lost < MaxLost /\ lost' = lost + 1
  BY DEF Fail, IsFree, session, view, wishes
<1>2. lost' \in 0..MaxLost
  BY <1>1, ScreenAssumption DEF IInv, Shape
<1>3. ServerShape' /\ Grows
  <2>1. CASE UNCHANGED row /\ (created' = created \/ Create(calls[c]))
    BY <1>1, <2>1, CreateTypes, NothingWritten DEF IInv, Shape, ServerShape, WishShape
  <2>2. CASE Kind(c, "patch") /\ Stands(calls[c]) /\ Move(calls[c]) /\ UNCHANGED created
    <3>1. Sent(c, "patch") /\ calls[c].version = row[calls[c].of].version
      BY <2>2 DEF Fail, Sent, Stands
    <3>2. /\ calls[c].of \in Items /\ row[calls[c].of].version < MaxVersion
          /\ calls[c].to \in StatusesOf(page) /\ calls[c].to \in Statuses
      BY <3>1, ServePatchWrites
    <3> QED
      BY <1>1, <2>2, <3>2, RowWritten DEF IInv, Move
  <2> QED
    BY <2>1, <2>2 DEF Fail, server
<1>4. QED
  BY <1>1, <1>2, <1>3, AnsweredKeeps DEF Answers

LEMMA LoseKeeps == ASSUME IInv, NEW c \in Calls, Lose(c) PROVE IInv'
<1>1. /\ UNCHANGED <<page, token, user, logins, expired, row, created, wish, pursued>>
      /\ UNCHANGED <<selected, query, form, busy, overlapped>>
      /\ ~IsFree(c) /\ Answer(c, "unreachable") /\ lost < MaxLost /\ lost' = lost + 1
  BY DEF Lose, session, view, server, wishes
<1>2. ServerShape' /\ Grows
  BY <1>1, NothingWritten DEF IInv, Shape, ServerShape, WishShape
<1>3. lost' \in 0..MaxLost
  BY <1>1, ScreenAssumption DEF IInv, Shape
<1>4. QED
  BY <1>1, <1>2, <1>3, AnsweredKeeps DEF Answers

-----------------------------------------------------------------------------
(* Answers reach the browser *)

LEMMA TokenKeptOrCleared ==
  ASSUME Shape, TokenIsUsers, token' = token \/ token' = 0, UNCHANGED <<user, logins, expired>>
  PROVE  SessionShape' /\ TokenIsUsers'
BY DEF Shape, SessionShape, TokenIsUsers

LEMMA PageHasUser ==
  ASSUME IInv, NEW c \in Calls, NEW kind, Answered(c, kind), kind # "login"
  PROVE  user # 0
BY DEF IInv, CallOK, SessionOK, Answered, Kind

LEMMA GetAnsweredKeeps == ASSUME IInv, NEW c \in Calls, GetAnswered(c) PROVE IInv'
<1>1. /\ UNCHANGED <<page, user, logins, expired, row, created, wish, pursued, lost>>
      /\ UNCHANGED <<selected, form, busy, overlapped>>
      /\ token' = token \/ token' = 0
  BY DEF GetAnswered, AfterAnswer, server, wishes
<1>2. ServerShape' /\ Grows
  BY <1>1, NothingWritten DEF IInv, Shape, ServerShape, WishShape
<1>3. PICK d : /\ d = calls[c] /\ d \in CallRow /\ CallOK(d) /\ d.stage # "free"
               /\ query' = Received(query, d)
  BY DEF GetAnswered, Answered, IInv, Shape
<1>4. query' \in QueryRow /\ query'.rows \in {query.rows, d.rows}
  BY <1>3 DEF Received, QueryRow, CallRow, IInv, Shape, ViewShape
<1>5. PICK rows : rows = query'.rows /\ PastRows(rows)
  BY <1>3, <1>4 DEF IInv, CallOK
<1>6. PastRows(rows)'
  BY <1>2, <1>5, PastStays DEF IInv, Shape
<1>7. PastRows(query.rows)'
  BY <1>5, <1>6 DEF PastRows, Past
<1>8. /\ calls' \in [Calls -> CallRow] /\ Replaced(c)
      /\ \A i \in Calls \ {c} : Fades(calls[i], calls'[i])
  BY FreedStep, Unfaded DEF GetAnswered, Freed, IInv, Shape
<1>9. SessionShape' /\ TokenIsUsers'
  BY <1>1, TokenKeptOrCleared DEF IInv
<1>10. Shape'
  BY <1>1, <1>2, <1>4, <1>8, <1>9 DEF IInv, Shape, ViewShape, WishShape
<1>11. QED
  BY <1>1, <1>2, <1>7, <1>8, <1>9, <1>10, OneReplaced

LEMMA PatchAnsweredKeeps == ASSUME IInv, NEW c \in Calls, PatchAnswered(c) PROVE IInv'
<1>1. /\ UNCHANGED <<page, user, logins, expired, row, created, wish, pursued, lost>>
      /\ UNCHANGED selected
      /\ token' = token \/ token' = 0
  BY DEF PatchAnswered, AfterAnswer, server
<1>2. ServerShape' /\ Grows
  BY <1>1, NothingWritten DEF IInv, Shape, ServerShape, WishShape
<1>3. SessionShape' /\ TokenIsUsers'
  BY <1>1, TokenKeptOrCleared DEF IInv
<1>4. user' # 0
  BY <1>1, PageHasUser DEF PatchAnswered
<1>5. busy' \subseteq Items
  BY DEF PatchAnswered, BusyWithout, IInv, Shape, ViewShape
<1>6. CASE Ok(c)
  <2>1. query' = Loading(query) /\ query' \in QueryRow /\ query'.rows = query.rows
    BY <1>6, QueryTypes DEF PatchAnswered, IInv, Shape, ViewShape
  <2>2. form' \in [of : Targets, busy : BOOLEAN]
    BY <1>6 DEF PatchAnswered, IInv, Shape, ViewShape
  <2>3. PICK table \in [Calls -> CallRow] :
          /\ StartLoad(c, table, selected, token)
          /\ \A d \in Calls : Fades(calls[d], table[d])
    BY <1>6, FormLeftFades, Unfaded DEF PatchAnswered, IInv, Shape
  <2>4. token \in Nat /\ selected \in Targets
    BY DEF IInv, Shape, SessionShape, ViewShape
  <2>5. /\ calls' \in [Calls -> CallRow] /\ overlapped' \in BOOLEAN
        /\ Replaced(c) /\ \A d \in Calls \ {c} : calls'[d] = table[d]
    BY <1>4, <2>3, <2>4, LoadStep
  <2>6. PastRows(query.rows)'
    BY <1>2, <2>1, ShownStays
  <2>7. Shape'
    BY <1>1, <1>2, <1>3, <1>5, <2>1, <2>2, <2>5 DEF IInv, Shape, ViewShape, WishShape
  <2>8. QED
    BY <1>1, <1>2, <1>3, <2>3, <2>5, <2>6, <2>7, OneReplaced
<1>7. CASE ~Ok(c)
  <2>1. /\ calls' \in [Calls -> CallRow] /\ Replaced(c)
        /\ \A i \in Calls \ {c} : Fades(calls[i], calls'[i])
    BY <1>7, FreedStep, Unfaded DEF PatchAnswered, Freed, IInv, Shape
  <2>2. UNCHANGED <<query, form, overlapped>>
    BY <1>7 DEF PatchAnswered
  <2>3. PastRows(query.rows)'
    BY <1>2, <2>2, ShownStays
  <2>4. Shape'
    BY <1>1, <1>2, <1>3, <1>5, <2>1, <2>2 DEF IInv, Shape, ViewShape, WishShape
  <2>5. QED
    BY <1>1, <1>2, <1>3, <2>1, <2>3, <2>4, OneReplaced
<1>8. QED
  BY <1>6, <1>7

LEMMA PostAnsweredKeeps == ASSUME IInv, NEW c \in Calls, PostAnswered(c) PROVE IInv'
<1>1. /\ UNCHANGED <<page, user, logins, expired, row, created, wish, lost>>
      /\ token' = token \/ token' = 0
  BY DEF PostAnswered, AfterAnswer, server
<1>2. ServerShape' /\ Grows
  BY <1>1, NothingWritten DEF IInv, Shape, ServerShape, WishShape
<1>3. SessionShape' /\ TokenIsUsers'
  BY <1>1, TokenKeptOrCleared DEF IInv
<1>4. user' # 0
  BY <1>1, PageHasUser DEF PostAnswered
<1>5. WishShape'
  <2>1. pursued' = pursued \/ pursued' = (pursued /\ calls[c].wish # wish)
    BY DEF PostAnswered
  <2>2. pursued \in BOOLEAN
    BY DEF IInv, Shape, WishShape
  <2>3. CASE pursued' = pursued
    BY <1>1, <2>3 DEF IInv, Shape, WishShape
  <2>4. CASE pursued' = (pursued /\ calls[c].wish # wish)
    <3>1. pursued' = pursued \/ pursued' = FALSE
      BY <2>2, <2>4
    <3>2. CASE pursued' = FALSE
      BY <1>1, <3>2 DEF IInv, Shape, WishShape
    <3>3. QED
      BY <2>3, <3>1, <3>2
  <2>5. QED
    BY <2>1, <2>3, <2>4
<1>6. form.busy \in BOOLEAN /\ calls[c].seen \in BOOLEAN
  BY DEF IInv, Shape, ViewShape, CallRow
<1>7. CASE Ok(c)
  <2>1. PICK formBusy \in BOOLEAN : Refetch(c, formBusy)
    BY <1>6, <1>7 DEF PostAnswered
  <2>2. /\ ViewShape' /\ PastRows(query.rows)' /\ calls' \in [Calls -> CallRow]
        /\ Replaced(c) /\ \A d \in Calls \ {c} : Fades(calls[d], calls'[d])
    BY <1>2, <1>4, <2>1, RefetchStep
  <2>3. Shape'
    BY <1>1, <1>2, <1>3, <1>5, <2>2 DEF IInv, Shape
  <2>4. QED
    BY <1>1, <1>2, <1>3, <2>2, <2>3, OneReplaced
<1>8. CASE ~Ok(c)
  <2>1. /\ calls' \in [Calls -> CallRow] /\ Replaced(c)
        /\ \A i \in Calls \ {c} : Fades(calls[i], calls'[i])
    BY <1>8, FreedStep, Unfaded DEF PostAnswered, Freed, IInv, Shape
  <2>2. UNCHANGED <<selected, query, busy, overlapped>> /\ form' \in [of : Targets, busy : BOOLEAN]
    BY <1>6, <1>8 DEF PostAnswered, IInv, Shape, ViewShape
  <2>3. PastRows(query.rows)'
    BY <1>2, <2>2, ShownStays
  <2>4. Shape'
    BY <1>1, <1>2, <1>3, <1>5, <2>1, <2>2 DEF IInv, Shape, ViewShape
  <2>5. QED
    BY <1>1, <1>2, <1>3, <2>1, <2>3, <2>4, OneReplaced
<1>9. QED
  BY <1>7, <1>8

\* Without a user only the login page has a call, and one at most.
LEMMA OnlyLoginIsLive ==
  ASSUME IInv, user = 0, NEW c \in Calls, LiveLogin(calls[c]), NEW d \in Calls \ {c}
  PROVE  calls[d].stage # "free" => calls[d].live # "page"
BY DEF IInv, CallOK, SessionOK, OneLogin, LiveLogin

LEMMA LoginAnsweredKeeps == ASSUME IInv, NEW c \in Calls, LoginAnswered(c) PROVE IInv'
<1>1. UNCHANGED <<page, expired, row, created, wish, pursued, lost>>
  BY DEF LoginAnswered, server, wishes
<1>2. ServerShape' /\ Grows
  BY <1>1, NothingWritten DEF IInv, Shape, ServerShape, WishShape
<1>3. LiveLogin(calls[c]) /\ user = 0 /\ logins < MaxLogins
  BY DEF LoginAnswered, Answered, Kind, LiveLogin, IInv, CallOK, SessionOK
<1>4. CASE Ok(c)
  <2>1. logins' = logins + 1 /\ token' = logins' /\ user' = logins' /\ Mount(c, calls, token')
    BY <1>4 DEF LoginAnswered
  <2>2. logins' \in 1..MaxLogins /\ token' \in Nat /\ user' # 0 /\ SessionShape' /\ TokenIsUsers'
    BY <1>1, <1>3, <2>1, ScreenAssumption DEF IInv, Shape, SessionShape, TokenIsUsers
  <2>3. /\ ViewShape' /\ PastRows(query.rows)' /\ calls' \in [Calls -> CallRow]
        /\ Replaced(c) /\ \A d \in Calls \ {c} : calls'[d] = calls[d]
    BY <2>1, <2>2, MountStep DEF IInv, Shape
  <2>4. Shape'
    BY <1>1, <1>2, <2>2, <2>3 DEF IInv, Shape, WishShape
  <2>5. \A d \in Calls \ {c} : /\ Fades(calls[d], calls'[d])
                               /\ calls'[d].stage # "free" => calls'[d].live # "page"
    BY <1>3, <2>3, Unfaded, OnlyLoginIsLive
  <2>6. QED
    BY <1>2, <2>2, <2>3, <2>4, <2>5, OneReplaced
<1>5. CASE ~Ok(c)
  <2>1. /\ UNCHANGED <<logins, user, selected, query, form, busy, overlapped>>
        /\ calls' = Freed(c) /\ (token' = token \/ token' = 0)
    BY <1>5 DEF LoginAnswered, AfterAnswer, view
  <2>2. /\ calls' \in [Calls -> CallRow] /\ Replaced(c)
        /\ \A i \in Calls \ {c} : Fades(calls[i], calls'[i])
    BY <2>1, FreedStep, Unfaded DEF Freed, IInv, Shape
  <2>3. SessionShape' /\ TokenIsUsers'
    BY <1>1, <2>1, TokenKeptOrCleared DEF IInv
  <2>4. ViewShape' /\ PastRows(query.rows)'
    BY <1>2, <2>1, ShownStays DEF IInv, Shape, ViewShape
  <2>5. Shape'
    BY <1>1, <1>2, <2>2, <2>3, <2>4 DEF IInv, Shape, WishShape
  <2>6. QED
    BY <1>2, <2>1, <2>2, <2>3, <2>4, <2>5, OneReplaced
<1>6. QED
  BY <1>4, <1>5

LEMMA DroppedKeeps == ASSUME IInv, NEW c \in Calls, Dropped(c) PROVE IInv'
<1>1. /\ UNCHANGED <<page, user, logins, expired, row, created, wish, pursued, lost>>
      /\ UNCHANGED <<selected, query, form, busy, overlapped>>
      /\ token' = token \/ token' = 0
  BY DEF Dropped, view, server, wishes
<1>2. ServerShape' /\ Grows
  BY <1>1, NothingWritten DEF IInv, Shape, ServerShape, WishShape
<1>3. /\ calls' \in [Calls -> CallRow] /\ Replaced(c)
      /\ \A i \in Calls \ {c} : Fades(calls[i], calls'[i])
  BY FreedStep, Unfaded DEF Dropped, Freed, IInv, Shape
<1>4. SessionShape' /\ TokenIsUsers'
  BY <1>1, TokenKeptOrCleared DEF IInv
<1>5. ViewShape' /\ PastRows(query.rows)'
  BY <1>1, <1>2, ShownStays DEF IInv, Shape, ViewShape
<1>6. Shape'
  BY <1>1, <1>2, <1>3, <1>4, <1>5 DEF IInv, Shape, WishShape
<1>7. QED
  BY <1>1, <1>2, <1>3, <1>4, <1>5, <1>6, OneReplaced

-----------------------------------------------------------------------------
(* Types, and what is sent is what was shown and offered *)

LEMMA InvInit == Init => IInv
<1> SUFFICES ASSUME Init PROVE IInv
  OBVIOUS
<1>1. PICK start \in Starts :
        /\ page = start.page /\ row = start.row
        /\ logins = start.logins /\ lost = start.lost /\ wish = start.wish
  BY DEF Init
<1>2. page \in ListPages \cup DetailPages /\ lost \in 0..MaxLost
  BY <1>1, ScreenAssumption
<1>3. SessionShape
  BY <1>1, ScreenAssumption DEF Init, SessionShape
<1>4. ViewShape
  BY QueryTypes DEF Init, ViewShape, Targets
<1>5. ServerShape
  BY <1>1, ScreenAssumption DEF Init, ServerShape
<1>6. WishShape
  BY <1>1, ScreenAssumption DEF Init, WishShape
<1>7. Shape
  BY <1>2, <1>3, <1>4, <1>5, <1>6, FreeTypes DEF Init, Shape
<1>8. TokenIsUsers /\ PastRows(query.rows)
  BY QueryTypes DEF Init, TokenIsUsers, PastRows, Past, NoRows
<1>9. (\A c \in Calls : CallOK(calls[c])) /\ OneLogin
  BY FreeTypes DEF Init, CallOK, OneLogin, LiveLogin
<1>10. QED
  BY <1>7, <1>8, <1>9 DEF IInv

LEMMA InvStep == IInv /\ [Next]_vars => IInv'
<1> SUFFICES ASSUME IInv, [Next]_vars PROVE IInv'
  OBVIOUS
<1>1. CASE UNCHANGED vars
  BY <1>1, StutterKeeps
<1>2. ASSUME NEW c \in Calls, Serve(c) PROVE IInv'
  BY <1>2, UnauthorizedKeeps, ServeGetKeeps, ServePatchKeeps, ServePostKeeps, ServeLoginKeeps
  DEF Serve
<1>3. ASSUME NEW c \in Calls, Deliver(c) PROVE IInv'
  BY <1>3, GetAnsweredKeeps, PatchAnsweredKeeps, PostAnsweredKeeps, LoginAnsweredKeeps,
     DroppedKeeps DEF Deliver
<1>4. ASSUME NEW c \in Calls, UserActs(c) PROVE IInv'
  BY <1>4, RemountKeeps, RetryKeeps, PressKeeps, LoginKeeps, ReloadKeeps, SelectKeeps, PatchKeeps
  DEF UserActs
<1>5. ASSUME NEW c \in Calls, Lose(c) \/ Fail(c) PROVE IInv'
  BY <1>5, LoseKeeps, FailKeeps
<1>6. CASE ReopenForm \/ Collapse \/ Logout \/ Expire
  BY <1>6, ReopenFormKeeps, CollapseKeeps, LogoutKeeps, ExpireKeeps
<1>7. ASSUME NEW x \in Items, NEW to \in Chosen \cap Offered(row[x].status), OtherWrites(x, to)
      PROVE  IInv'
  BY <1>7, OtherWritesKeeps
<1>8. QED
  BY <1>1, <1>2, <1>3, <1>4, <1>5, <1>6, <1>7 DEF Next

LEMMA Invariance == Spec => []IInv
BY InvInit, InvStep, PTL DEF Spec

\* The page, the calls and the rows keep their shape, and no call names a
\* version that its row never had: every updateStatus is asked about versions of
\* the past or of the present.
THEOREM TypeCorrect == Spec => []TypeOK
<1>1. ASSUME IInv PROVE TypeOK
  <2>1. Shape /\ \A c \in Calls : CallOK(calls[c])
    BY <1>1 DEF IInv
  <2>2. /\ page \in ListPages \cup DetailPages
        /\ {token, user, logins} \subseteq 0..MaxLogins /\ expired \subseteq 1..logins
    BY <2>1, ScreenAssumption DEF Shape, SessionShape
  <2>3. /\ selected \in Targets
        /\ query \in [of : Targets, rows : Rows, error : BOOLEAN, loading : BOOLEAN]
        /\ form \in [of : Targets, busy : BOOLEAN] /\ busy \subseteq Items
    BY <2>1 DEF Shape, ViewShape, QueryRow
  <2>4. ASSUME NEW c \in Calls
        PROVE  /\ calls[c].stage \in {"free", "sent", "answered"}
               /\ calls[c].of \in Targets /\ calls[c].rows \in Rows
               /\ (Kind(c, "post") => calls[c].wish \in 1..wish)
               /\ (Kind(c, "patch") => calls[c].version \in 1..row[calls[c].of].version)
    BY <2>1 DEF Shape, CallRow, CallOK, PatchOK, Kind
  <2>5. /\ row \in [Items -> ShownRow]
        /\ wish \in 0..MaxWishes /\ lost \in 0..MaxLost /\ {pursued, overlapped} \subseteq BOOLEAN
    BY <2>1 DEF Shape, ServerShape, WishShape, ViewShape
  <2>6. QED
    BY <2>2, <2>3, <2>4, <2>5 DEF TypeOK
<1>2. QED
  BY Invariance, <1>1, PTL

\* However many users and reloads come between what was shown and the click
\* (ChangeStatusControl), and between the click and the update, a status is only
\* written over the one that the user saw.
THEOREM NobodyOverwritesUnseen == Spec => []MovesFromWhatWasShown
<1>1. IInv => MovesFromWhatWasShown
  BY DEF IInv, CallOK, PatchOK, Kind, MovesFromWhatWasShown
<1>2. QED
  BY Invariance, <1>1, PTL

\* What the status controls offer, by the frontend's copies of the transition
\* tables, the server's tables accept unless the row changed or is not ready.
THEOREM OffersHold == Spec => []OfferStands
<1>1. ASSUME IInv PROVE OfferStands
  <2>1. SUFFICES ASSUME NEW c \in Calls, Kind(c, "patch"), calls[c].stage = "sent",
                        calls[c].version = row[calls[c].of].version, row[calls[c].of].ready
                 PROVE  Accepted(row[calls[c].of], calls[c].to)
    BY DEF OfferStands
  <2>2. PatchOK(calls[c])
    BY <1>1, <2>1 DEF Kind, IInv, CallOK
  <2>3. PICK r : /\ r = row[calls[c].of] /\ r \in ShownRow /\ r.status \in StatusesOf(page)
                 /\ r.ready /\ calls[c].to \in Offered(r.status)
    BY <1>1, <2>1, <2>2 DEF PatchOK, IInv, Shape, ServerShape
  <2>4. Accepted(r, calls[c].to)
    BY <1>1, <2>3, OfferedAreAccepted DEF IInv, Shape
  <2>5. QED
    BY <2>3, <2>4
<1>2. QED
  BY Invariance, <1>1, PTL

\* api.ts never sends the token of somebody other than the user whom auth.tsx
\* shows.
THEOREM TokenOfUser == Spec => []TokenIsUsers
<1>1. IInv => TokenIsUsers
  BY DEF IInv
<1>2. QED
  BY Invariance, <1>1, PTL

\* A 401 answers a call whose token was not accepted: where request clears a
\* good token on it, the call was made in an earlier session.
THEOREM SessionsEndForAReason == Spec => OnlyOldCallsEndASession
<1> DEFINE Ends == token \notin {0} \cup expired /\ token' = 0
           OldCall == \E c \in Calls : /\ calls[c].answer = "unauthorized"
                                       /\ calls[c].token # token
                                       /\ calls'[c].stage = "free"
<1>1. ASSUME IInv, NEW c \in Calls, Ends, calls[c].stage # "free", ClearsToken(calls[c]),
             calls' = Freed(c)
      PROVE  OldCall
  <2>1. calls[c].answer = "unauthorized"
    BY <1>1 DEF ClearsToken
  <2>2. calls[c].token \in {0} \cup expired
    BY <1>1, <2>1 DEF IInv, CallOK, RefusalOK
  <2>3. calls'[c].stage = "free"
    BY <1>1, FreeTypes DEF Freed, IInv, Shape
  <2>4. QED
    BY <1>1, <2>1, <2>2, <2>3
<1>2. ASSUME IInv, [Next]_vars, Ends PROVE user' = 0 \/ OldCall
  <2>1. token' # token
    BY <1>2
  <2>2. CASE Logout
    BY <2>2 DEF Logout
  <2>3. ASSUME NEW c \in Calls, GetAnswered(c) \/ Dropped(c) PROVE OldCall
    <3>1. calls[c].stage # "free" /\ ClearsToken(calls[c]) /\ calls' = Freed(c)
      BY <2>1, <2>3 DEF GetAnswered, Dropped, Answered, AfterAnswer
    <3>2. QED
      BY <1>1, <1>2, <3>1
  <2>4. ASSUME NEW c \in Calls, PatchAnswered(c) \/ PostAnswered(c) PROVE OldCall
    <3>1. calls[c].stage # "free" /\ ClearsToken(calls[c])
      BY <2>1, <2>4 DEF PatchAnswered, PostAnswered, Answered, AfterAnswer
    <3>2. ~Ok(c)
      BY <3>1 DEF Ok, ClearsToken
    <3>3. calls' = Freed(c)
      BY <2>4, <3>2 DEF PatchAnswered, PostAnswered
    <3>4. QED
      BY <1>1, <1>2, <3>1, <3>3
  <2>5. ASSUME NEW c \in Calls, LoginAnswered(c) PROVE FALSE
    <3>1. user = 0
      BY <1>2, <2>5 DEF LoginAnswered, Answered, Kind, IInv, CallOK, SessionOK
    <3>2. token = 0
      BY <1>2, <3>1 DEF IInv, TokenIsUsers
    <3>3. QED
      BY <1>2, <3>2
  <2>6. ASSUME NEW c \in Calls, Serve(c) \/ Lose(c) \/ Fail(c) PROVE token' = token
    <3>1. ASSUME Serve(c) PROVE token' = token
      BY <3>1 DEF Serve, Unauthorized, ServeGet, ServePatch, ServePost, ServeLogin, session
    <3>2. QED
      BY <2>6, <3>1 DEF Lose, Fail, session
  <2>7. ASSUME NEW c \in Calls, UserActs(c) PROVE token' = token
    BY <2>7 DEF UserActs, Remount, Retry, Press, Login, Reload, Select, Patch, session
  <2>8. CASE ReopenForm \/ Collapse \/ Expire
    BY <2>1, <2>8 DEF ReopenForm, Collapse, Expire, session
  <2>9. CASE \E x \in Items : \E to \in Chosen \cap Offered(row[x].status) : OtherWrites(x, to)
    BY <2>1, <2>9 DEF OtherWrites, session
  <2>10. CASE UNCHANGED vars
    BY <2>1, <2>10 DEF vars, session
  <2>11. QED
    BY <1>2, <2>1, <2>2, <2>3, <2>4, <2>5, <2>6, <2>7, <2>8, <2>9, <2>10 DEF Next, Deliver
<1>3. IInv /\ [Next]_vars =>
        [token \notin {0} \cup expired /\ token' = 0
           => \/ user' = 0
              \/ \E c \in Calls : calls[c].answer = "unauthorized" /\ calls[c].token # token
                                 /\ calls'[c].stage = "free"]_vars
  BY <1>2
<1>4. QED
  BY Invariance, <1>3, PTL DEF Spec, OnlyOldCallsEndASession

-----------------------------------------------------------------------------
(* What is shown belongs to what is selected *)

IsLoad(d) == d.stage # "free" /\ d.kind = "get" /\ d.live = "page"

\* Until two loads are under way at once, every load is one of the selection; the
\* loads of a list all are.
LInv == /\ ShownIsSelected
        /\ ~overlapped => \A c \in Calls : IsLoad(calls[c]) => calls[c].of = selected
        /\ page \in ListPages => ~overlapped

\* A load begins, and forgets the error before it.
LEMMA LoadOfSelection ==
  ASSUME Shape, page' = page, NEW c \in Calls, NEW table \in [Calls -> CallRow],
         NEW of \in Targets, NEW with, StartLoad(c, table, of, with), selected' = of,
         page \in ListPages =>
           \A d \in Calls \ {c} : IsLoad(table[d]) => table[d].of = of,
         query'.loading
  PROVE  LInv'
<1>1. PICK e : e = [Call("get", of) EXCEPT !.token = with]
  OBVIOUS
<1>2. e.of = of
  BY <1>1 DEF Call
<1>3. calls' = [table EXCEPT ![c] = e]
  BY <1>1 DEF StartLoad
<1>4. overlapped' = (page \in DetailPages /\ Loads([table EXCEPT ![c] = Free]) # {})
  BY DEF StartLoad
<1>5. ASSUME NEW d \in Calls, ~overlapped', IsLoad(calls'[d]) PROVE calls'[d].of = of
  <2>1. CASE d = c
    BY <1>2, <1>3, <2>1
  <2>2. CASE d # c
    <3>1. IsLoad(table[d]) /\ calls'[d] = table[d]
      BY <1>3, <1>5, <2>2
    <3>2. page \in DetailPages => d \in Loads([table EXCEPT ![c] = Free])
      BY <2>2, <3>1 DEF Loads, IsLoad
    <3>3. page \in ListPages
      BY <1>4, <1>5, <3>2 DEF Shape
    <3>4. QED
      BY <2>2, <3>1, <3>3
  <2>3. QED
    BY <2>1, <2>2
<1>6. page \in ListPages => ~overlapped'
  BY <1>4 DEF ListPages, DetailPages
<1>7. QED
  BY <1>5, <1>6 DEF LInv, ShownIsSelected, Shown, IsLoad

\* Nothing is loaded, shown or selected anew; calls are answered, made or faded.
LEMMA SameSelection ==
  ASSUME LInv, UNCHANGED <<page, query, selected, overlapped>>,
         \A d \in Calls : IsLoad(calls'[d]) => IsLoad(calls[d]) /\ calls'[d].of = calls[d].of
  PROVE  LInv'
BY DEF LInv, ShownIsSelected, Shown, IsLoad

LEMMA MountLoads ==
  ASSUME Shape, page' = page, NEW c \in Calls, NEW table \in [Calls -> CallRow],
         \A d \in Calls \ {c} : ~IsLoad(table[d]),
         NEW with, Mount(c, table, with)
  PROVE  LInv'
<1>1. CASE page \in ListPages
  <2>1. StartLoad(c, table, "all", with) /\ selected' = "all" /\ query' = Loading(FreshQuery)
    BY <1>1 DEF Mount
  <2>2. query'.loading
    BY <2>1, QueryTypes
  <2>3. QED
    BY <2>1, <2>2, LoadOfSelection DEF Targets
<1>2. CASE page \notin ListPages
  <2>1. calls' = [table EXCEPT ![c] = Free] /\ query' = FreshQuery /\ ~overlapped'
    BY <1>2 DEF Mount
  <2>2. \A d \in Calls : ~IsLoad(calls'[d])
    BY <2>1, FreeTypes DEF IsLoad
  <2>3. QED
    BY <1>2, <2>1, <2>2, QueryTypes DEF LInv, ShownIsSelected, Shown, IsLoad
<1>3. QED
  BY <1>1, <1>2

LEMMA UnmountLoads ==
  ASSUME page' = page, NEW table, \A d \in Calls : ~IsLoad(table[d]), Unmount(table)
  PROVE  LInv'
<1>1. query'.of = None /\ ~overlapped' /\ calls' = table
  BY QueryTypes DEF Unmount
<1>2. QED
  BY <1>1 DEF LInv, ShownIsSelected, Shown, IsLoad

\* refetch: the same selection is loaded again.
LEMMA ReloadsSelection ==
  ASSUME IInv, LInv, page' = page, NEW c \in Calls,
         StartLoad(c, IF page \in ModalPages THEN FormLeft ELSE calls, selected, token),
         query' = Loading(query), selected' = selected
  PROVE  LInv'
<1>1. PICK table \in [Calls -> CallRow] :
        /\ StartLoad(c, table, selected, token)
        /\ \A d \in Calls : IsLoad(table[d]) => IsLoad(calls[d]) /\ table[d].of = calls[d].of
  BY FormLeftFades DEF IInv, Shape, IsLoad
<1>2. page \in ListPages => \A d \in Calls \ {c} : IsLoad(table[d]) => table[d].of = selected
  BY <1>1 DEF LInv
<1>3. query'.loading /\ selected \in Targets
  BY QueryTypes DEF IInv, Shape, ViewShape
<1>4. QED
  BY <1>1, <1>2, <1>3, LoadOfSelection DEF IInv

LEMMA AnswersAreNoLoads ==
  ASSUME Shape, NEW c \in Calls, NEW answer \in Answers, Answer(c, answer), NEW d \in Calls,
         IsLoad(calls'[d]), ~IsFree(c)
  PROVE  IsLoad(calls[d]) /\ calls'[d].of = calls[d].of
<1>1. PICK i : i = calls[c] /\ i \in CallRow
  BY DEF Shape
<1>2. PICK e : e = [i EXCEPT !.stage = "answered", !.answer = answer]
  OBVIOUS
<1>3. e.kind = i.kind /\ e.of = i.of /\ e.live = i.live
  BY <1>1, <1>2 DEF CallRow
<1>4. calls' = [calls EXCEPT ![c] = e]
  BY <1>1, <1>2 DEF Answer
<1>5. QED
  BY <1>1, <1>3, <1>4 DEF Shape, IsLoad, IsFree

LEMMA FreedAreNoLoads ==
  ASSUME Shape, NEW c \in Calls, calls' = Freed(c), NEW d \in Calls, IsLoad(calls'[d])
  PROVE  IsLoad(calls[d]) /\ calls'[d].of = calls[d].of
BY FreeTypes DEF Freed, Shape, IsLoad

LEMMA ServerLoads ==
  ASSUME IInv, LInv, NEW c \in Calls, Serve(c) \/ Lose(c) \/ Fail(c)
  PROVE  LInv'
<1>1. ASSUME NEW answer \in Answers, Answer(c, answer), ~IsFree(c),
             UNCHANGED <<page, selected, query, overlapped>>
      PROVE  LInv'
  BY <1>1, SameSelection, AnswersAreNoLoads DEF IInv
<1>2. CASE Unauthorized(c)
  BY <1>1, <1>2 DEF Unauthorized, Answers, IsFree, view
<1>3. CASE ServePatch(c)
  BY <1>1, <1>3 DEF ServePatch, Sent, Kind, Answers, IsFree, view
<1>4. CASE ServePost(c)
  BY <1>1, <1>4 DEF ServePost, Sent, Kind, Answers, IsFree, view
<1>5. CASE ServeLogin(c)
  BY <1>1, <1>5 DEF ServeLogin, Sent, Kind, Answers, IsFree, view
<1>6. CASE Lose(c) \/ Fail(c)
  BY <1>1, <1>6 DEF Lose, Fail, Answers, IsFree, view
<1>7. CASE ServeGet(c)
  <2>1. UNCHANGED <<page, selected, query, overlapped>> /\ calls[c].stage # "free"
    BY <1>7 DEF ServeGet, Sent, Kind, view
  <2>2. PICK i : i = calls[c] /\ i \in CallRow
    BY DEF IInv, Shape
  <2>3. PICK e : /\ \E rows : e = [i EXCEPT !.stage = "answered", !.answer = "ok", !.rows = rows]
                 /\ calls' = [calls EXCEPT ![c] = e]
    BY <1>7, <2>2 DEF ServeGet
  <2>4. e.kind = i.kind /\ e.of = i.of /\ e.live = i.live
    BY <2>2, <2>3 DEF CallRow
  <2>5. \A d \in Calls : IsLoad(calls'[d]) => IsLoad(calls[d]) /\ calls'[d].of = calls[d].of
    BY <2>1, <2>2, <2>3, <2>4 DEF IInv, Shape, IsLoad
  <2>6. QED
    BY <2>1, <2>5, SameSelection
<1>8. QED
  BY <1>2, <1>3, <1>4, <1>5, <1>6, <1>7 DEF Serve

LEMMA DeliveryLoads ==
  ASSUME IInv, LInv, NEW c \in Calls, Deliver(c)
  PROVE  LInv'
<1>1. ASSUME calls' = Freed(c), UNCHANGED <<page, selected, query, overlapped>> PROVE LInv'
  BY <1>1, SameSelection, FreedAreNoLoads DEF IInv
<1>2. CASE GetAnswered(c)
  <2>1. /\ UNCHANGED <<page, selected, overlapped>> /\ calls' = Freed(c)
        /\ query' = Received(query, calls[c]) /\ IsLoad(calls[c])
    BY <1>2 DEF GetAnswered, Answered, Kind, IsLoad
  <2>2. ~overlapped => calls[c].of = selected
    BY <2>1 DEF LInv
  <2>3. Shown' => query'.of = calls[c].of
    BY <2>1 DEF Received, Shown, IInv, Shape, ViewShape, QueryRow
  <2>4. \A d \in Calls : IsLoad(calls'[d]) => IsLoad(calls[d]) /\ calls'[d].of = calls[d].of
    BY <2>1, FreedAreNoLoads DEF IInv
  <2>5. QED
    BY <2>1, <2>2, <2>3, <2>4 DEF LInv, ShownIsSelected, IsLoad
<1>3. CASE PatchAnswered(c)
  BY <1>1, <1>3, ReloadsSelection DEF PatchAnswered
<1>4. CASE PostAnswered(c)
  BY <1>1, <1>4, ReloadsSelection DEF PostAnswered, Refetch
<1>5. CASE LoginAnswered(c)
  <2>1. LiveLogin(calls[c]) /\ user = 0 /\ page' = page
    BY <1>5 DEF LoginAnswered, Answered, Kind, LiveLogin, IInv, CallOK, SessionOK
  <2>2. CASE Ok(c)
    <3>1. Mount(c, calls, token')
      BY <1>5, <2>2 DEF LoginAnswered
    <3>2. \A d \in Calls \ {c} : ~IsLoad(calls[d])
      BY <2>1, OnlyLoginIsLive DEF IsLoad
    <3>3. QED
      BY <2>1, <3>1, <3>2, MountLoads DEF IInv, Shape
  <2>3. CASE ~Ok(c)
    BY <1>1, <1>5, <2>3 DEF LoginAnswered, view
  <2>4. QED
    BY <2>2, <2>3
<1>6. CASE Dropped(c)
  BY <1>1, <1>6 DEF Dropped, view
<1>7. QED
  BY <1>2, <1>3, <1>4, <1>5, <1>6 DEF Deliver

LEMMA UserLoads ==
  ASSUME IInv, LInv, NEW c \in Calls, UserActs(c)
  PROVE  LInv'
<1>1. ASSUME NEW e, calls' = [calls EXCEPT ![c] = e], e.kind # "get",
             UNCHANGED <<page, selected, query, overlapped>>
      PROVE  LInv'
  BY <1>1, SameSelection DEF IInv, Shape, IsLoad
<1>2. \A how \in {"gone", "aborted"} :
        Left(how) \in [Calls -> CallRow] /\ \A d \in Calls : ~IsLoad(Left(how)[d])
  BY LeftFades DEF IInv, IsLoad
<1>3. CASE Remount(c)
  BY <1>2, <1>3, MountLoads DEF Remount, IInv
<1>4. CASE Reload(c)
  BY <1>2, <1>4, MountLoads, UnmountLoads DEF Reload, IInv
<1>5. CASE Retry(c)
  BY <1>5, ReloadsSelection DEF Retry, Refetch
<1>6. CASE Press(c)
  <2>1. PICK e : /\ \E w : e = [Call("post", FormTarget) EXCEPT !.wish = w]
                 /\ calls' = [calls EXCEPT ![c] = e]
    BY <1>6 DEF Press
  <2>2. e.kind = "post"
    BY <2>1 DEF Call
  <2>3. QED
    BY <1>1, <1>6, <2>1, <2>2 DEF Press
<1>7. CASE Login(c)
  <2>1. PICK e : e = Call("login", None) /\ calls' = [calls EXCEPT ![c] = e]
    BY <1>7 DEF Login
  <2>2. e.kind = "login"
    BY <2>1 DEF Call
  <2>3. QED
    BY <1>1, <1>7, <2>1, <2>2 DEF Login, view
<1>8. ASSUME NEW x \in Items, Select(c, x) PROVE LInv'
  <2>1. /\ StartLoad(c, calls, x, token) /\ selected' = x /\ page' = page
        /\ query' = Loading(query) /\ page \in DetailPages
    BY <1>8 DEF Select, Reselected
  <2>2. query'.loading /\ page \notin ListPages /\ x \in Targets
    BY <2>1, QueryTypes DEF IInv, Shape, ViewShape, ListPages, DetailPages, Targets
  <2>3. QED
    BY <2>1, <2>2, LoadOfSelection DEF IInv, Shape
<1>9. ASSUME NEW x \in Items, NEW to, Patch(c, x, to) PROVE LInv'
  <2>1. PICK e : /\ \E r : e = [Call("patch", x) EXCEPT !.version = VersionOf(r), !.from = r.status,
                                                      !.to = to]
                 /\ calls' = [calls EXCEPT ![c] = e]
    BY <1>9 DEF Patch
  <2>2. e.kind = "patch"
    BY <2>1 DEF Call
  <2>3. QED
    BY <1>1, <1>9, <2>1, <2>2 DEF Patch
<1>10. QED
  BY <1>3, <1>4, <1>5, <1>6, <1>7, <1>8, <1>9 DEF UserActs

LEMMA LoadsStep == IInv /\ LInv /\ [Next]_vars => LInv'
<1> SUFFICES ASSUME IInv, LInv, [Next]_vars PROVE LInv'
  OBVIOUS
<1>1. CASE Logout
  BY <1>1, LeftFades, UnmountLoads DEF Logout, IInv, IsLoad
<1>2. CASE ReopenForm
  BY <1>2, FormLeftFades, SameSelection DEF ReopenForm, IInv, IsLoad
<1>3. CASE Collapse \/ Expire \/ UNCHANGED vars
  <2>1. UNCHANGED <<page, query, selected, overlapped, calls>>
    BY <1>3 DEF Collapse, Expire, vars, view
  <2>2. QED
    BY <2>1, SameSelection
<1>4. CASE \E x \in Items : \E to \in Chosen \cap Offered(row[x].status) : OtherWrites(x, to)
  <2>1. UNCHANGED <<page, query, selected, overlapped, calls>>
    BY <1>4 DEF OtherWrites, view
  <2>2. QED
    BY <2>1, SameSelection
<1>5. CASE \E c \in Calls : Serve(c) \/ Fail(c) \/ Deliver(c) \/ UserActs(c) \/ Lose(c)
  BY <1>5, ServerLoads, DeliveryLoads, UserLoads
<1>6. QED
  BY <1>1, <1>2, <1>3, <1>4, <1>5 DEF Next

\* useApiQuery.ts:18-31: rows are shown below the selection that they were loaded
\* for, whatever is late, lost or selected meanwhile, unless two loads were under
\* way at once, which is where the hook's answers do overtake each other.
THEOREM RowsOfSelection == Spec => []ShownIsSelected
<1>1. Init => LInv
  BY FreeTypes, QueryTypes DEF Init, LInv, ShownIsSelected, Shown, IsLoad
<1>2. LInv => ShownIsSelected
  BY DEF LInv
<1>3. QED
  BY Invariance, LoadsStep, <1>1, <1>2, PTL DEF Spec

-----------------------------------------------------------------------------
(* One row per wish *)

Post(d) == d.stage # "free" /\ d.kind = "post"
\* The form that sent d still listens.
Mine(d) == Post(d) /\ d.seen

\* Calls that may still create a row for w.
Coming(w) == {c \in Calls : Post(calls[c]) /\ calls[c].stage = "sent" /\ calls[c].wish = w}
\* A form listens to a call that may have created a row for w.
Awaits(d, w) == Mine(d) /\ d.wish = w /\ d.answer \notin {"refused", "unauthorized"}
Awaited(w) == \E c \in Calls : Awaits(calls[c], w)
\* The user has seen w fulfilled.
Fulfilled(w) == w < wish \/ (w = wish /\ ~pursued)
\* The rows that w may have: for each outcome that the user was not told, and one more
\* while a form waits or once the user has seen it.
Excused(w) == unseen[w] + (IF Awaited(w) \/ Fulfilled(w) THEN 1 ELSE 0)
Wishes == 1..MaxWishes

FInv == /\ unseen \in [Wishes -> Nat]
        /\ \A c \in Calls : Mine(calls[c]) => form.busy /\ calls[c].live = "page"
        /\ \A c, d \in Calls : Mine(calls[c]) /\ Mine(calls[d]) => c = d
        /\ \A w \in Wishes : created[w] + Cardinality(Coming(w)) <= Excused(w)

\* What may be excused of w does not become less.
StillExcused(w) ==
  /\ unseen'[w] >= unseen[w]
  /\ Awaited(w) \/ Fulfilled(w) => Awaited(w)' \/ Fulfilled(w)' \/ unseen'[w] >= unseen[w] + 1

LEMMA ComingCount ==
  ASSUME IsFiniteSet(Calls), NEW w
  PROVE  IsFiniteSet(Coming(w)) /\ Cardinality(Coming(w)) \in Nat
BY FS_Subset, FS_CardinalityType DEF Coming

LEMMA ExcusedTypes ==
  ASSUME FInv, NEW w \in Wishes
  PROVE  /\ unseen[w] \in Nat /\ Excused(w) \in Nat
         /\ Excused(w) = IF Awaited(w) \/ Fulfilled(w) THEN unseen[w] + 1 ELSE unseen[w]
<1>1. unseen[w] \in Nat
  BY DEF FInv
<1>2. QED
  BY <1>1 DEF Excused

\* A step that sends no form and creates no row.
LEMMA Calmly ==
  ASSUME IsFiniteSet(Calls), IInv, FInv, created' = created, unseen' \in [Wishes -> Nat],
         \A d \in Calls : Mine(calls'[d]) =>
            Mine(calls[d]) /\ calls'[d].live = calls[d].live /\ form'.busy,
         \A w \in Wishes : Coming(w)' \subseteq Coming(w) /\ StillExcused(w)
  PROVE  FInv'
<1>1. ASSUME NEW w \in Wishes
      PROVE  created'[w] + Cardinality(Coming(w)') <= Excused(w)'
  <2> DEFINE n == Cardinality(Coming(w))
             m == Cardinality(Coming(w)')
  <2>1. n \in Nat /\ m \in Nat /\ m <= n
    BY ComingCount, FS_Subset, FS_CardinalityType
  <2>2. created[w] \in Nat /\ created[w] + n <= Excused(w)
    BY DEF FInv, IInv, Shape, ServerShape, Wishes
  <2>3. unseen[w] \in Nat /\ unseen'[w] \in Nat
    BY DEF FInv
  <2> HIDE DEF n, m
  <2>4. Excused(w) <= Excused(w)'
    BY <2>3 DEF StillExcused, Excused
  <2>5. Excused(w) \in Nat /\ Excused(w)' \in Nat
    BY <2>3 DEF Excused
  <2>6. created[w] + m <= Excused(w)'
    BY <2>1, <2>2, <2>4, <2>5
  <2>7. QED
    BY <2>6 DEF m
<1>2. QED
  BY <1>1 DEF FInv, Mine, Post

\* The forms and their calls are as before; others begin, end, or are answered.
LEMMA SameForms ==
  ASSUME IsFiniteSet(Calls), IInv, FInv, UNCHANGED <<created, unseen, wish, pursued>>,
         \A d \in Calls : Mine(calls[d]) => form'.busy = form.busy,
         \A d \in Calls : /\ Post(calls'[d]) => Post(calls[d])
                          /\ Mine(calls[d]) \/ Post(calls'[d]) => calls'[d] = calls[d]
  PROVE  FInv'
<1>1. \A d \in Calls : Mine(calls'[d]) =>
        Mine(calls[d]) /\ calls'[d].live = calls[d].live /\ form'.busy
  BY DEF FInv, Mine
<1>2. ASSUME NEW w \in Wishes PROVE Coming(w)' \subseteq Coming(w) /\ StillExcused(w)
  <2>1. Coming(w)' \subseteq Coming(w)
    BY DEF Coming
  <2>2. unseen'[w] >= unseen[w]
    BY DEF FInv
  <2>3. Awaited(w) => Awaited(w)'
    BY DEF Awaited, Awaits, Mine
  <2>4. Fulfilled(w) => Fulfilled(w)'
    BY DEF Fulfilled
  <2>5. QED
    BY <2>1, <2>2, <2>3, <2>4 DEF StillExcused
<1>3. unseen' \in [Wishes -> Nat]
  BY DEF FInv
<1>4. QED
  BY <1>1, <1>2, <1>3, Calmly

LEMMA UnseenCounts ==
  ASSUME IsFiniteSet(Calls), FInv, NEW C \in SUBSET Calls, Unseen(C)
  PROVE  /\ unseen' \in [Wishes -> Nat]
         /\ \A w \in Wishes : /\ unseen'[w] >= unseen[w]
                              /\ (\E c \in C : calls[c].wish = w) => unseen'[w] >= unseen[w] + 1
<1>1. ASSUME NEW w \in Wishes
      PROVE  /\ unseen'[w] \in Nat /\ unseen'[w] >= unseen[w]
             /\ (\E c \in C : calls[c].wish = w) => unseen'[w] >= unseen[w] + 1
  <2> DEFINE T == {c \in C : calls[c].wish = w}
             n == Cardinality(T)
  <2>1. IsFiniteSet(T) /\ n \in Nat
    BY FS_Subset, FS_CardinalityType
  <2>2. T # {} => n # 0
    BY <2>1, FS_EmptySet
  <2>3. unseen[w] \in Nat /\ unseen'[w] = unseen[w] + n
    BY DEF FInv, Unseen
  <2>4. (\E c \in C : calls[c].wish = w) => T # {}
    OBVIOUS
  <2> HIDE DEF n, T
  <2>5. QED
    BY <2>1, <2>2, <2>3, <2>4
<1>2. unseen' = [w \in Wishes |-> unseen'[w]]
  BY DEF FInv, Unseen
<1>3. QED
  BY <1>1, <1>2

\* The user leaves every form, or each is replaced by a fresh one.
LEMMA FormsLeft ==
  ASSUME IsFiniteSet(Calls), IInv, FInv, UNCHANGED <<created, wish, pursued>>, Unseen(Forgotten),
         \A d \in Calls : Post(calls'[d]) => /\ ~calls'[d].seen /\ Post(calls[d])
                                             /\ calls'[d].stage = calls[d].stage
                                             /\ calls'[d].wish = calls[d].wish
  PROVE  FInv'
<1>1. /\ unseen' \in [Wishes -> Nat]
      /\ \A w \in Wishes : /\ unseen'[w] >= unseen[w]
                           /\ (\E c \in Forgotten : calls[c].wish = w) => unseen'[w] >= unseen[w] + 1
  BY UnseenCounts DEF Forgotten
<1>2. ASSUME NEW w \in Wishes PROVE Coming(w)' \subseteq Coming(w) /\ StillExcused(w)
  <2>1. Coming(w)' \subseteq Coming(w)
    BY DEF Coming
  <2>2. Awaited(w) => unseen'[w] >= unseen[w] + 1
    BY <1>1 DEF Awaited, Awaits, Mine, Post, Forgotten, Kind
  <2>3. Fulfilled(w) => Fulfilled(w)'
    BY DEF Fulfilled
  <2>4. QED
    BY <1>1, <2>1, <2>2, <2>3 DEF StillExcused
<1>3. \A d \in Calls : ~Mine(calls'[d])
  BY DEF Mine
<1>4. QED
  BY <1>1, <1>2, <1>3, Calmly

\* The server answers a call for w0 that could still create a row, or never will.
LEMMA PostSettled ==
  ASSUME IsFiniteSet(Calls), IInv, FInv, UNCHANGED <<unseen, wish, pursued, form>>,
         NEW w0 \in Wishes, NEW c \in Coming(w0), NEW answer \in Answers, Answer(c, answer),
         \/ answer \in {"ok", "failed", "unreachable"} /\ created' = [created EXCEPT ![w0] = @ + 1]
         \/ created' = created
  PROVE  FInv'
<1>1. PICK d : /\ d = calls[c] /\ d \in CallRow /\ d.stage = "sent" /\ d.kind = "post"
               /\ d.wish = w0 /\ d.answer = None
  BY DEF Coming, Post, IInv, Shape, CallOK
<1>2. PICK e : e = [d EXCEPT !.stage = "answered", !.answer = answer]
  OBVIOUS
<1>3. /\ e.stage = "answered" /\ e.answer = answer /\ e.kind = d.kind /\ e.wish = d.wish
      /\ e.live = d.live /\ e.seen = d.seen
  BY <1>1, <1>2 DEF CallRow
<1>4. calls' = [calls EXCEPT ![c] = e] /\ c \in Calls /\ calls \in [Calls -> CallRow]
  BY <1>1, <1>2 DEF Answer, Coming, IInv, Shape
<1>5. \A i \in Calls : /\ Mine(calls'[i]) <=> Mine(calls[i])
                       /\ calls'[i].live = calls[i].live
  BY <1>1, <1>3, <1>4 DEF Mine, Post
<1>6. ASSUME NEW w \in Wishes
      PROVE  created'[w] + Cardinality(Coming(w)') <= Excused(w)'
  <2> DEFINE n == Cardinality(Coming(w))
             m == Cardinality(Coming(w)')
  <2>1. n \in Nat /\ m \in Nat
    BY ComingCount, FS_Subset, FS_CardinalityType DEF Coming
  <2>2. created[w] \in Nat /\ created[w] + n <= Excused(w)
    BY DEF FInv, IInv, Shape, ServerShape, Wishes
  <2>3. unseen[w] \in Nat /\ unseen'[w] = unseen[w]
    BY DEF FInv
  <2>4. Fulfilled(w)' = Fulfilled(w)
    BY DEF Fulfilled
  <2>5. CASE w # w0
    <3>1. Coming(w)' = Coming(w)
      BY <1>1, <1>3, <1>4, <2>5 DEF Coming, Post
    <3>2. Awaited(w) => Awaited(w)'
      BY <1>1, <1>3, <1>4, <2>5 DEF Awaited, Awaits, Mine, Post
    <3>3. Excused(w)' >= Excused(w)
      BY <2>3, <2>4, <3>2 DEF Excused
    <3>4. created'[w] = created[w]
      BY <2>5 DEF IInv, Shape, ServerShape, Wishes
    <3>5. Excused(w) \in Nat /\ Excused(w)' \in Nat
      BY <2>3 DEF Excused
    <3> HIDE DEF n
    <3>6. created[w] + n <= Excused(w)'
      BY <2>1, <2>2, <3>3, <3>5
    <3>7. QED
      BY <3>1, <3>4, <3>6 DEF n
  <2>6. CASE w = w0
    <3>1. Coming(w)' = Coming(w) \ {c}
      BY <1>1, <1>3, <1>4, <2>6 DEF Coming, Post
    <3>2. m = n - 1
      BY <2>6, <3>1, ComingCount, FS_RemoveElement
    <3>3. CASE answer \in {"ok", "failed", "unreachable"}
      <4>1. Awaited(w) => Awaited(w)'
        BY <1>1, <1>3, <1>4, <3>3 DEF Awaited, Awaits, Mine, Post
      <4>2. Excused(w)' >= Excused(w)
        BY <2>3, <2>4, <4>1 DEF Excused
      <4>3. created'[w] \in {created[w], created[w] + 1}
        BY <2>6 DEF IInv, Shape, ServerShape, Wishes
      <4>4. Excused(w) \in Nat /\ Excused(w)' \in Nat
        BY <2>3 DEF Excused
      <4> HIDE DEF n, m
      <4>5. created'[w] + m <= Excused(w)'
        BY <2>1, <2>2, <3>2, <4>2, <4>3, <4>4
      <4>6. QED
        BY <4>5 DEF m
    <3>4. CASE answer \notin {"ok", "failed", "unreachable"}
      <4>1. created'[w] = created[w]
        BY <3>4
      <4>2. Excused(w) <= Excused(w)' + 1
        BY <2>3, <2>4 DEF Excused
      <4>3. Excused(w) \in Nat /\ Excused(w)' \in Nat
        BY <2>3 DEF Excused
      <4> HIDE DEF n, m
      <4>4. created'[w] + m <= Excused(w)'
        BY <2>1, <2>2, <3>2, <4>1, <4>2, <4>3
      <4>5. QED
        BY <4>4 DEF m
    <3>5. QED
      BY <3>3, <3>4
  <2>7. QED
    BY <2>5, <2>6
<1>7. QED
  BY <1>5, <1>6 DEF FInv, Mine, Post

\* Of a form that is sent the user knows nothing yet, and of no other.
LEMMA PressCounts ==
  ASSUME IsFiniteSet(Calls), IInv, FInv, NEW c \in Calls, Press(c)
  PROVE  FInv'
<1>1. PICK w0 : /\ w0 = IF pursued THEN wish ELSE wish + 1
                /\ w0 <= MaxWishes /\ wish' = w0 /\ pursued' = TRUE
                /\ calls' = [calls EXCEPT ![c] = [Call("post", FormTarget) EXCEPT !.wish = w0]]
  BY DEF Press
<1>2. w0 \in Wishes /\ wish \in Nat /\ w0 \in {wish, wish + 1}
  BY <1>1, ScreenAssumption DEF Wishes, IInv, Shape, WishShape
<1>3. UNCHANGED <<created, unseen>> /\ ~form.busy /\ form'.busy /\ IsFree(c)
  BY DEF Press, server, FormIsFree, IInv, Shape, ViewShape
<1>4. PICK e : /\ e = [Call("post", FormTarget) EXCEPT !.wish = w0]
               /\ calls' = [calls EXCEPT ![c] = e]
  BY <1>1
<1>5. /\ e.stage = "sent" /\ e.kind = "post" /\ e.wish = w0 /\ e.seen /\ e.live = "page"
      /\ e.answer = None
  BY <1>4 DEF Call
<1>6. \A d \in Calls : ~Mine(calls[d])
  BY <1>3 DEF FInv
<1>7. /\ calls'[c] = e /\ calls[c].stage = "free"
      /\ \A d \in Calls \ {c} : calls'[d] = calls[d]
  BY <1>3, <1>4 DEF IInv, Shape, IsFree
<1>8. \A d \in Calls : Mine(calls'[d]) => d = c /\ calls'[d].live = "page"
  BY <1>5, <1>6, <1>7
<1>9. ASSUME NEW w \in Wishes
      PROVE  created'[w] + Cardinality(Coming(w)') <= Excused(w)'
  <2> DEFINE n == Cardinality(Coming(w))
             m == Cardinality(Coming(w)')
  <2>1. n \in Nat /\ unseen[w] \in Nat /\ unseen'[w] = unseen[w] /\ created'[w] = created[w]
    BY <1>3, ComingCount DEF FInv
  <2>2. created[w] \in Nat /\ created[w] + n <= Excused(w)
    BY DEF FInv, IInv, Shape, ServerShape, Wishes
  <2>3. ~Awaited(w)
    BY <1>6 DEF Awaited, Awaits
  <2>4. CASE w # w0
    <3>1. Coming(w)' = Coming(w)
      BY <1>5, <1>7, <2>4 DEF Coming, Post
    <3>2. Fulfilled(w) => Fulfilled(w)'
      BY <1>1, <1>2, <2>4 DEF Fulfilled, Wishes
    <3>3. Excused(w)' >= Excused(w) /\ Excused(w) \in Nat /\ Excused(w)' \in Nat
      BY <2>1, <2>3, <3>2 DEF Excused
    <3> HIDE DEF n
    <3>4. created[w] + n <= Excused(w)'
      BY <2>1, <2>2, <3>3
    <3>5. QED
      BY <2>1, <3>1, <3>4 DEF n
  <2>5. CASE w = w0
    <3>1. Coming(w)' = Coming(w) \cup {c} /\ c \notin Coming(w)
      BY <1>5, <1>7, <2>5 DEF Coming, Post
    <3>2. m = n + 1
      BY <3>1, ComingCount, FS_AddElement
    <3>3. ~Fulfilled(w)
      BY <1>1, <1>2, <2>5 DEF Fulfilled
    <3>4. Awaits(calls'[c], w)
      BY <1>5, <1>7, <2>5, ScreenAssumption DEF Awaits, Mine, Post, Answers
    <3>5. Awaited(w)'
      BY <3>4 DEF Awaited, Awaits, Mine, Post
    <3>6. Excused(w) = unseen[w] /\ Excused(w)' = unseen[w] + 1
      BY <2>1, <2>3, <3>3, <3>5 DEF Excused
    <3> HIDE DEF n, m
    <3>7. created[w] + m <= Excused(w)'
      BY <2>1, <2>2, <3>2, <3>6
    <3>8. QED
      BY <2>1, <3>7 DEF m
  <2>6. QED
    BY <2>4, <2>5
<1>10. QED
  BY <1>3, <1>8, <1>9 DEF FInv, Mine, Post

\* A form's call is answered: it is a success, or free to be sent again.
LEMMA PostAnsweredCounts ==
  ASSUME IsFiniteSet(Calls), IInv, FInv, NEW c \in Calls, PostAnswered(c)
  PROVE  FInv'
<1>1. UNCHANGED <<created, wish>>
  BY DEF PostAnswered, server
<1>2. PICK a : /\ a = calls[c] /\ a \in CallRow /\ a.stage = "answered" /\ a.kind = "post"
               /\ a.answer # None /\ a.wish \in Nat /\ a.wish <= wish
  BY DEF PostAnswered, Answered, Kind, IInv, Shape, CallOK, CallRow, WishShape
<1>3. a.answer \in Answers
  BY <1>2 DEF CallRow
<1>4. form.busy \in BOOLEAN /\ wish \in Nat /\ pursued \in BOOLEAN
  BY DEF IInv, Shape, ViewShape, WishShape
<1>5. PICK C \in SUBSET Forgotten :
        /\ Unseen(C)
        /\ Mine(a) /\ a.answer \in Unclear => c \in C
        /\ Ok(c) /\ page \in ModalPages => Forgotten \ {c} \subseteq C
  <2>1. CASE Ok(c)
    BY <1>2, <2>1 DEF PostAnswered, Ok, Unclear
  <2>2. CASE ~Ok(c) /\ Mine(a) /\ a.answer \in Unclear
    <3>1. c \in Forgotten
      BY <1>2, <2>2 DEF Forgotten, Kind, Mine
    <3>2. QED
      BY <1>2, <2>2, <3>1 DEF PostAnswered, Mine, Unclear
  <2>3. CASE ~Ok(c) /\ ~(Mine(a) /\ a.answer \in Unclear)
    BY <1>2, <2>3 DEF PostAnswered, Mine, Post
  <2>4. QED
    BY <2>1, <2>2, <2>3
<1>6. /\ unseen' \in [Wishes -> Nat]
      /\ \A w \in Wishes : /\ unseen'[w] >= unseen[w]
                           /\ (\E d \in C : calls[d].wish = w) => unseen'[w] >= unseen[w] + 1
  BY <1>5, UnseenCounts DEF Forgotten
<1>7. ~Post(calls'[c])
  <2>1. ASSUME NEW e, NEW table \in [Calls -> CallRow], calls' = [table EXCEPT ![c] = e],
               e.kind # "post"
        PROVE  ~Post(calls'[c])
    BY <2>1 DEF Post
  <2>2. CASE Ok(c)
    <3>1. PICK table \in [Calls -> CallRow] : StartLoad(c, table, selected, token)
      BY <2>2, FormLeftFades DEF PostAnswered, Refetch, IInv, Shape
    <3>2. PICK e : e = [Call("get", selected) EXCEPT !.token = token] /\ e.kind = "get"
      BY DEF Call
    <3>3. QED
      BY <2>1, <3>1, <3>2 DEF StartLoad
  <2>3. CASE ~Ok(c)
    BY <2>3, FreeTypes DEF PostAnswered, Freed, Post, IInv, Shape
  <2>4. QED
    BY <2>2, <2>3
<1>8. ASSUME NEW d \in Calls \ {c}
      PROVE  /\ Post(calls'[d]) => /\ Post(calls[d]) /\ calls'[d].stage = calls[d].stage
                                   /\ calls'[d].wish = calls[d].wish
             /\ IF Ok(c) /\ page \in ModalPages THEN ~Mine(calls'[d]) ELSE calls'[d] = calls[d]
  <2>1. CASE Ok(c) /\ page \in ModalPages
    <3>1. StartLoad(c, FormLeft, selected, token)
      BY <2>1 DEF PostAnswered, Refetch
    <3>2. calls'[d] = FormLeft[d]
      BY <3>1, FormLeftFades DEF StartLoad, IInv
    <3>3. QED
      BY <2>1, <3>2, FormLeftFades DEF Fades, Post, Mine, IInv
  <2>2. CASE Ok(c) /\ page \notin ModalPages
    <3>1. StartLoad(c, calls, selected, token)
      BY <2>2 DEF PostAnswered, Refetch
    <3>2. calls'[d] = calls[d]
      BY <3>1 DEF StartLoad, IInv, Shape
    <3>3. QED
      BY <2>2, <3>2
  <2>3. CASE ~Ok(c)
    BY <2>3 DEF PostAnswered, Freed, IInv, Shape
  <2>4. QED
    BY <2>1, <2>2, <2>3
<1>9. ASSUME NEW d \in Calls, Mine(calls'[d])
      PROVE  Mine(calls[d]) /\ calls'[d].live = calls[d].live /\ form'.busy
  <2>1. d # c /\ calls'[d] = calls[d] /\ ~(Ok(c) /\ page \in ModalPages)
    <3>1. d # c
      BY <1>7, <1>9 DEF Mine
    <3>2. calls'[d] = calls[d]
      BY <1>8, <1>9, <3>1
    <3>3. QED
      BY <1>8, <1>9, <3>1, <3>2
  <2>2. Mine(calls[d]) /\ form.busy /\ ~calls[c].seen
    BY <1>2, <1>9, <2>1 DEF FInv, Mine, Post
  <2>3. form'.busy
    <3>1. CASE Ok(c)
      BY <2>1, <2>2, <3>1 DEF PostAnswered, Refetch, IInv, Shape, ViewShape
    <3>2. CASE ~Ok(c)
      BY <2>2, <3>2 DEF PostAnswered, IInv, Shape, ViewShape
    <3>3. QED
      BY <3>1, <3>2
  <2>4. QED
    BY <2>1, <2>2, <2>3
<1>10. ASSUME NEW w \in Wishes PROVE Coming(w)' \subseteq Coming(w) /\ StillExcused(w)
  <2>1. Coming(w)' \subseteq Coming(w)
    BY <1>7, <1>8 DEF Coming
  <2>2. Fulfilled(w) => Fulfilled(w)'
    BY <1>1, <1>4 DEF Fulfilled, PostAnswered
  <2>3. ASSUME NEW d \in Calls, Awaits(calls[d], w)
        PROVE  Awaited(w)' \/ Fulfilled(w)' \/ unseen'[w] >= unseen[w] + 1
    <3>1. CASE d = c /\ Ok(c)
      <4>1. pursued' = (pursued /\ a.wish # wish) /\ a.wish = w
        BY <1>2, <2>3, <3>1 DEF PostAnswered, Awaits
      <4>2. a.wish = wish => ~pursued'
        BY <4>1
      <4>3. w < wish \/ (w = wish /\ ~pursued')
        BY <1>2, <1>4, <4>1, <4>2
      <4>4. QED
        BY <1>1, <4>3 DEF Fulfilled
    <3>2. CASE d = c /\ ~Ok(c)
      <4>1. a.answer \in Unclear /\ Mine(a) /\ a.wish = w
        BY <1>2, <1>3, <2>3, <3>2 DEF Awaits, Ok, Answers, Unclear
      <4>2. QED
        BY <1>2, <1>5, <1>6, <4>1
    <3>3. CASE d # c /\ calls'[d] = calls[d]
      <4>1. Awaits(calls'[d], w)
        BY <2>3, <3>3
      <4>2. QED
        BY <4>1 DEF Awaited, Awaits, Mine, Post
    <3>4. CASE d # c /\ Ok(c) /\ page \in ModalPages
      <4>1. d \in Forgotten \ {c} /\ calls[d].wish = w
        BY <2>3, <3>4 DEF Awaits, Mine, Post, Forgotten, Kind
      <4>2. QED
        BY <1>5, <1>6, <3>4, <4>1
    <3>5. QED
      BY <1>8, <3>1, <3>2, <3>3, <3>4
  <2>4. QED
    BY <1>6, <2>1, <2>2, <2>3 DEF StillExcused, Awaited
<1>11. QED
  BY <1>1, <1>6, <1>9, <1>10, Calmly

LEMMA NothingUnseen == ASSUME FInv, Unseen({}) PROVE unseen' = unseen
<1>1. \A w \in Wishes : Cardinality({c \in {} : calls[c].wish = w}) = 0
  <2>1. \A w \in Wishes : {c \in {} : calls[c].wish = w} = {}
    OBVIOUS
  <2>2. QED
    BY <2>1, FS_EmptySet
<1>2. unseen' = [w \in Wishes |-> unseen[w] + 0]
  BY <1>1 DEF Unseen, FInv
<1>3. QED
  BY <1>2 DEF FInv

\* Slot c holds a call of another kind, and the other calls are those of a table.
LEMMA NewLoad ==
  ASSUME NEW c \in Calls, NEW table \in [Calls -> CallRow], NEW of, NEW with,
         StartLoad(c, table, of, with)
  PROVE  ~Post(calls'[c]) /\ \A d \in Calls \ {c} : calls'[d] = table[d]
<1>1. PICK e : e = [Call("get", of) EXCEPT !.token = with]
  OBVIOUS
<1>2. e.kind = "get"
  BY <1>1 DEF Call
<1>3. calls' = [table EXCEPT ![c] = e]
  BY <1>1 DEF StartLoad
<1>4. QED
  BY <1>2, <1>3 DEF Post

LEMMA MountForms ==
  ASSUME NEW c \in Calls, NEW table \in [Calls -> CallRow], NEW with, Mount(c, table, with)
  PROVE  ~Post(calls'[c]) /\ \A d \in Calls \ {c} : calls'[d] = table[d]
<1>1. CASE page \in ListPages
  BY <1>1, NewLoad DEF Mount
<1>2. CASE page \notin ListPages
  BY <1>2, FreeTypes DEF Mount, Post
<1>3. QED
  BY <1>1, <1>2

LEMMA LeavingCounts ==
  ASSUME IsFiniteSet(Calls), IInv, FInv, UNCHANGED <<created, wish, pursued>>, Unseen(Forgotten),
         NEW how \in {"gone", "aborted"},
         \A d \in Calls : calls'[d] = Left(how)[d] \/ ~Post(calls'[d])
  PROVE  FInv'
BY LeftFades, FormsLeft DEF IInv, Fades, Post

LEMMA FreshFormsCount ==
  ASSUME IsFiniteSet(Calls), IInv, FInv, UNCHANGED <<created, wish, pursued>>, Unseen(Forgotten),
         \A d \in Calls : calls'[d] = FormLeft[d] \/ ~Post(calls'[d])
  PROVE  FInv'
BY FormLeftFades, FormsLeft DEF IInv, Fades, Post

LEMMA SlotCounts ==
  ASSUME IsFiniteSet(Calls), IInv, FInv, UNCHANGED <<created, unseen, wish, pursued>>,
         NEW c \in Calls, \A d \in Calls \ {c} : calls'[d] = calls[d],
         ~Post(calls'[c]), ~Mine(calls[c]),
         \A d \in Calls : Mine(calls[d]) => form'.busy = form.busy
  PROVE  FInv'
BY SameForms

LEMMA RefetchCounts ==
  ASSUME IsFiniteSet(Calls), IInv, FInv, UNCHANGED <<created, wish, pursued>>,
         NEW c \in Calls, ~Mine(calls[c]),
         Unseen(IF page \in ModalPages THEN Forgotten ELSE {}),
         StartLoad(c, IF page \in ModalPages THEN FormLeft ELSE calls, selected, token),
         page \notin ModalPages => form'.busy = form.busy
  PROVE  FInv'
<1>1. CASE page \in ModalPages
  <2>1. ~Post(calls'[c]) /\ \A d \in Calls \ {c} : calls'[d] = FormLeft[d]
    BY <1>1, NewLoad, FormLeftFades DEF IInv
  <2>2. QED
    BY <1>1, <2>1, FreshFormsCount
<1>2. CASE page \notin ModalPages
  <2>1. ~Post(calls'[c]) /\ \A d \in Calls \ {c} : calls'[d] = calls[d]
    BY <1>2, NewLoad DEF IInv, Shape
  <2>2. unseen' = unseen
    BY <1>2, NothingUnseen
  <2>3. QED
    BY <1>2, <2>1, <2>2, SlotCounts
<1>3. QED
  BY <1>1, <1>2

LEMMA UserCounts ==
  ASSUME IsFiniteSet(Calls), IInv, FInv, NEW c \in Calls, UserActs(c)
  PROVE  FInv'
<1>1. \A how \in {"gone", "aborted"} : Left(how) \in [Calls -> CallRow]
  BY LeftFades DEF IInv
<1>2. ASSUME IsFree(c) PROVE ~Mine(calls[c])
  BY <1>2 DEF IsFree, Mine, Post
<1>3. ASSUME NEW e, calls' = [calls EXCEPT ![c] = e], e.kind # "post", IsFree(c),
             UNCHANGED <<created, unseen, wish, pursued, form>>
      PROVE  FInv'
  <2>1. ~Post(calls'[c]) /\ \A d \in Calls \ {c} : calls'[d] = calls[d]
    BY <1>3 DEF IInv, Shape, Post
  <2>2. QED
    BY <1>2, <1>3, <2>1, SlotCounts
<1>4. CASE Remount(c)
  BY <1>1, <1>4, MountForms, LeavingCounts DEF Remount, server
<1>5. CASE Reload(c)
  <2>1. UNCHANGED <<created, wish, pursued>> /\ Unseen(Forgotten)
    BY <1>5 DEF Reload, server
  <2>2. CASE user' = 0
    BY <1>5, <2>1, <2>2, LeavingCounts DEF Reload, Unmount
  <2>3. CASE user' # 0
    BY <1>1, <1>5, <2>1, <2>3, MountForms, LeavingCounts DEF Reload
  <2>4. QED
    BY <2>2, <2>3
<1>6. CASE Retry(c)
  <2>1. page \notin ModalPages => form'.busy = form.busy
    BY <1>6 DEF Retry, Refetch, IInv, Shape, ViewShape
  <2>2. QED
    BY <1>2, <1>6, <2>1, RefetchCounts DEF Retry, Refetch, server
<1>7. CASE Press(c)
  BY <1>7, PressCounts
<1>8. CASE Login(c)
  <2>1. PICK e : e = Call("login", None) /\ calls' = [calls EXCEPT ![c] = e]
    BY <1>8 DEF Login
  <2>2. e.kind = "login"
    BY <2>1 DEF Call
  <2>3. QED
    BY <1>3, <1>8, <2>1, <2>2 DEF Login, view, server, wishes
<1>9. ASSUME NEW x \in Items, Select(c, x) PROVE FInv'
  <2>1. StartLoad(c, calls, x, token) /\ UNCHANGED <<created, unseen, wish, pursued>> /\ IsFree(c)
    BY <1>9 DEF Select, Reselected, server, wishes
  <2>2. form'.busy = form.busy
    BY <1>9 DEF Select, IInv, Shape, ViewShape
  <2>3. ~Post(calls'[c]) /\ \A d \in Calls \ {c} : calls'[d] = calls[d]
    BY <2>1, NewLoad DEF IInv, Shape
  <2>4. QED
    BY <1>2, <2>1, <2>2, <2>3, SlotCounts
<1>10. ASSUME NEW x \in Items, NEW to, Patch(c, x, to) PROVE FInv'
  <2>1. PICK e : /\ \E r : e = [Call("patch", x) EXCEPT !.version = VersionOf(r), !.from = r.status,
                                                      !.to = to]
                 /\ calls' = [calls EXCEPT ![c] = e]
    BY <1>10 DEF Patch
  <2>2. e.kind = "patch"
    BY <2>1 DEF Call
  <2>3. QED
    BY <1>3, <1>10, <2>1, <2>2 DEF Patch, server, wishes
<1>11. QED
  BY <1>4, <1>5, <1>6, <1>7, <1>8, <1>9, <1>10 DEF UserActs

LEMMA DeliveryCounts ==
  ASSUME IsFiniteSet(Calls), IInv, FInv, NEW c \in Calls, Deliver(c)
  PROVE  FInv'
<1>1. ASSUME calls' = Freed(c), ~Mine(calls[c]), UNCHANGED <<created, unseen, wish, pursued>>,
             form'.busy = form.busy
      PROVE  FInv'
  <2>1. ~Post(calls'[c]) /\ \A d \in Calls \ {c} : calls'[d] = calls[d]
    BY <1>1, FreeTypes DEF Freed, IInv, Shape, Post
  <2>2. QED
    BY <1>1, <2>1, SlotCounts
<1>2. CASE GetAnswered(c)
  BY <1>1, <1>2 DEF GetAnswered, Answered, Kind, Mine, Post, server, wishes
<1>3. CASE PatchAnswered(c)
  <2>1. ~Mine(calls[c]) /\ UNCHANGED <<created, wish, pursued>>
    BY <1>3 DEF PatchAnswered, Answered, Kind, Mine, Post, server
  <2>2. CASE Ok(c)
    <3>1. page \notin ModalPages => form'.busy = form.busy
      BY <1>3, <2>2 DEF PatchAnswered, IInv, Shape, ViewShape
    <3>2. QED
      BY <1>3, <2>1, <2>2, <3>1, RefetchCounts DEF PatchAnswered
  <2>3. CASE ~Ok(c)
    BY <1>1, <1>3, <2>1, <2>3 DEF PatchAnswered
  <2>4. QED
    BY <2>2, <2>3
<1>4. CASE PostAnswered(c)
  BY <1>4, PostAnsweredCounts
<1>5. CASE LoginAnswered(c)
  <2>1. LiveLogin(calls[c]) /\ user = 0
    BY <1>5 DEF LoginAnswered, Answered, Kind, LiveLogin, IInv, CallOK, SessionOK
  <2>2. \A d \in Calls : ~Mine(calls[d])
    BY <2>1, OnlyLoginIsLive DEF FInv, Mine, Post, LiveLogin
  <2>3. UNCHANGED <<created, unseen, wish, pursued>>
    BY <1>5 DEF LoginAnswered, server, wishes
  <2>4. CASE Ok(c)
    <3>1. Mount(c, calls, token')
      BY <1>5, <2>4 DEF LoginAnswered
    <3>2. ~Post(calls'[c]) /\ \A d \in Calls \ {c} : calls'[d] = calls[d]
      BY <3>1, MountForms DEF IInv, Shape
    <3>3. QED
      BY <2>2, <2>3, <3>2, SlotCounts
  <2>5. CASE ~Ok(c)
    BY <1>1, <1>5, <2>2, <2>3, <2>5 DEF LoginAnswered, view
  <2>6. QED
    BY <2>4, <2>5
<1>6. CASE Dropped(c)
  BY <1>1, <1>6 DEF Dropped, FInv, view, server, wishes
<1>7. QED
  BY <1>2, <1>3, <1>4, <1>5, <1>6 DEF Deliver

LEMMA ServerCounts ==
  ASSUME IsFiniteSet(Calls), IInv, FInv, NEW c \in Calls, Serve(c) \/ Lose(c) \/ Fail(c)
  PROVE  FInv'
<1>1. ASSUME NEW answer \in Answers, Answer(c, answer), ~Post(calls[c]), ~IsFree(c),
             UNCHANGED <<created, unseen, wish, pursued, form>>
      PROVE  FInv'
  <2>1. PICK i : i = calls[c] /\ i \in CallRow
    BY DEF IInv, Shape
  <2>2. PICK e : e = [i EXCEPT !.stage = "answered", !.answer = answer] /\ calls' = [calls EXCEPT ![c] = e]
    BY <1>1, <2>1 DEF Answer
  <2>3. e.kind = i.kind
    BY <2>1, <2>2 DEF CallRow
  <2>4. ~Post(calls'[c]) /\ ~Mine(calls[c]) /\ \A d \in Calls \ {c} : calls'[d] = calls[d]
    BY <1>1, <2>1, <2>2, <2>3 DEF Post, Mine, IsFree, IInv, Shape
  <2>5. QED
    BY <1>1, <2>4, SlotCounts
<1>2. ASSUME Post(calls[c]), calls[c].stage = "sent"
      PROVE  \E w \in Wishes : w = calls[c].wish /\ c \in Coming(w)
  BY <1>2, ScreenAssumption DEF Post, IInv, CallOK, Shape, WishShape, Coming, Wishes
<1>3. CASE Unauthorized(c)
  <2>1. Answer(c, "unauthorized") /\ calls[c].stage = "sent" /\ ~IsFree(c)
        /\ UNCHANGED <<created, unseen, wish, pursued, form>>
    BY <1>3 DEF Unauthorized, IsFree, view, server, wishes
  <2>2. CASE Post(calls[c])
    BY <1>2, <2>1, <2>2, PostSettled DEF Answers
  <2>3. CASE ~Post(calls[c])
    BY <1>1, <2>1, <2>3 DEF Answers
  <2>4. QED
    BY <2>2, <2>3
<1>4. CASE ServePost(c)
  <2>1. Post(calls[c]) /\ calls[c].stage = "sent" /\ UNCHANGED <<unseen, wish, pursued, form>>
    BY <1>4 DEF ServePost, Sent, Kind, Post, view, wishes
  <2>2. PICK w \in Wishes : w = calls[c].wish /\ c \in Coming(w)
    BY <1>2, <2>1
  <2>3. CASE Answer(c, "ok") /\ created' = [created EXCEPT ![w] = @ + 1]
    BY <2>1, <2>2, <2>3, PostSettled DEF Answers
  <2>4. CASE Answer(c, "refused") /\ created' = created
    BY <2>1, <2>2, <2>4, PostSettled DEF Answers
  <2>5. QED
    BY <1>4, <2>2, <2>3, <2>4 DEF ServePost, Create
<1>5. CASE Lose(c)
  <2>1. Answer(c, "unreachable") /\ ~IsFree(c) /\ UNCHANGED <<created, unseen, wish, pursued, form>>
    BY <1>5 DEF Lose, view, server, wishes
  <2>2. CASE ~Post(calls[c])
    BY <1>1, <2>1, <2>2 DEF Answers
  <2>3. CASE Post(calls[c]) /\ calls[c].stage = "sent"
    BY <1>2, <2>1, <2>3, PostSettled DEF Answers
  <2>4. CASE Post(calls[c]) /\ calls[c].stage # "sent"
    <3>1. PICK i : i = calls[c] /\ i \in CallRow /\ i.stage = "answered"
      BY <2>4 DEF IInv, Shape, CallRow, Post
    <3>2. PICK e : e = [i EXCEPT !.stage = "answered", !.answer = "unreachable"]
      OBVIOUS
    <3>3. /\ e.stage = "answered" /\ e.kind = i.kind /\ e.wish = i.wish /\ e.seen = i.seen
          /\ e.live = i.live /\ e.answer = "unreachable"
      BY <3>1, <3>2 DEF CallRow
    <3>4. calls' = [calls EXCEPT ![c] = e]
      BY <2>1, <3>1, <3>2 DEF Answer
    <3>5. \A d \in Calls : Mine(calls'[d]) => Mine(calls[d]) /\ calls'[d].live = calls[d].live /\ form'.busy
      BY <2>1, <3>1, <3>3, <3>4 DEF Mine, Post, FInv, IInv, Shape
    <3>6. ASSUME NEW w \in Wishes PROVE Coming(w)' \subseteq Coming(w) /\ StillExcused(w)
      <4>1. Coming(w)' \subseteq Coming(w)
        BY <3>1, <3>3, <3>4 DEF Coming, Post, IInv, Shape
      <4>2. Awaited(w) => Awaited(w)'
        BY <3>1, <3>3, <3>4 DEF Awaited, Awaits, Mine, Post, IInv, Shape
      <4>3. (Fulfilled(w) => Fulfilled(w)') /\ unseen'[w] >= unseen[w]
        BY <2>1 DEF Fulfilled, FInv
      <4>4. QED
        BY <4>1, <4>2, <4>3 DEF StillExcused
    <3>7. QED
      BY <2>1, <3>5, <3>6, Calmly DEF FInv
  <2>5. QED
    BY <2>2, <2>3, <2>4
<1>6. CASE ServePatch(c)
  <2>1. ~Post(calls[c]) /\ ~IsFree(c) /\ UNCHANGED <<created, unseen, wish, pursued, form>>
    BY <1>6 DEF ServePatch, Sent, Kind, IsFree, Post, view, wishes
  <2>2. Answer(c, "ok") \/ Answer(c, "refused")
    BY <1>6 DEF ServePatch
  <2>3. QED
    BY <1>1, <2>1, <2>2 DEF Answers
<1>7. CASE ServeLogin(c)
  <2>1. ~Post(calls[c]) /\ ~IsFree(c) /\ UNCHANGED <<created, unseen, wish, pursued, form>>
    BY <1>7 DEF ServeLogin, Sent, Kind, IsFree, Post, view, server, wishes
  <2>2. Answer(c, "ok") \/ Answer(c, "unauthorized")
    BY <1>7 DEF ServeLogin
  <2>3. QED
    BY <1>1, <2>1, <2>2 DEF Answers
<1>8. CASE ServeGet(c)
  <2>1. /\ calls[c].kind = "get" /\ calls[c].stage # "free"
        /\ UNCHANGED <<created, unseen, wish, pursued, form>>
    BY <1>8 DEF ServeGet, Sent, Kind, view, server, wishes
  <2>2. PICK i : i = calls[c] /\ i \in CallRow
    BY DEF IInv, Shape
  <2>3. PICK e : /\ \E rows : e = [i EXCEPT !.stage = "answered", !.answer = "ok", !.rows = rows]
                 /\ calls' = [calls EXCEPT ![c] = e]
    BY <1>8, <2>2 DEF ServeGet
  <2>4. e.kind = "get"
    BY <2>1, <2>2, <2>3 DEF CallRow
  <2>5. ~Post(calls'[c]) /\ ~Mine(calls[c]) /\ \A d \in Calls \ {c} : calls'[d] = calls[d]
    BY <2>1, <2>3, <2>4 DEF Post, Mine, IInv, Shape
  <2>6. QED
    BY <2>1, <2>5, SlotCounts
<1>9. CASE Fail(c)
  <2>1. /\ Answer(c, "failed") /\ calls[c].stage = "sent" /\ ~IsFree(c)
        /\ UNCHANGED <<unseen, wish, pursued, form>>
        /\ created' = created \/ (Kind(c, "post") /\ Create(calls[c]))
    BY <1>9 DEF Fail, IsFree, view, server, wishes
  <2>2. CASE Post(calls[c])
    <3>1. PICK w \in Wishes : w = calls[c].wish /\ c \in Coming(w)
      BY <1>2, <2>1, <2>2
    <3>2. created' = created \/ created' = [created EXCEPT ![w] = @ + 1]
      BY <2>1, <3>1 DEF Create
    <3> QED
      BY <2>1, <3>1, <3>2, PostSettled DEF Answers
  <2>3. CASE ~Post(calls[c])
    BY <1>1, <2>1, <2>3 DEF Answers, Post, Kind
  <2> QED
    BY <2>2, <2>3
<1>10. QED
  BY <1>3, <1>4, <1>5, <1>6, <1>7, <1>8, <1>9 DEF Serve

LEMMA CountsStep == IsFiniteSet(Calls) /\ IInv /\ FInv /\ [Next]_vars => FInv'
<1> SUFFICES ASSUME IsFiniteSet(Calls), IInv, FInv, [Next]_vars PROVE FInv'
  OBVIOUS
<1>1. CASE Logout
  BY <1>1, LeavingCounts DEF Logout, Unmount, server
<1>2. CASE ReopenForm
  BY <1>2, FreshFormsCount DEF ReopenForm, server
<1>3. CASE Collapse \/ Expire \/ UNCHANGED vars
  <2>1. UNCHANGED <<created, unseen, wish, pursued, form, calls>>
    BY <1>3 DEF Collapse, Expire, vars, view, server, wishes
  <2>2. QED
    BY <2>1, SameForms
<1>4. CASE \E x \in Items : \E to \in Chosen \cap Offered(row[x].status) : OtherWrites(x, to)
  <2>1. UNCHANGED <<created, unseen, wish, pursued, form, calls>>
    BY <1>4 DEF OtherWrites, view, wishes
  <2>2. QED
    BY <2>1, SameForms
<1>5. CASE \E c \in Calls : Serve(c) \/ Fail(c) \/ Deliver(c) \/ UserActs(c) \/ Lose(c)
  BY <1>5, ServerCounts, DeliveryCounts, UserCounts
<1>6. QED
  BY <1>1, <1>2, <1>3, <1>4, <1>5 DEF Next

LEMMA CountsInit == Init => FInv
<1> SUFFICES ASSUME Init PROVE FInv
  OBVIOUS
<1>1. \A c \in Calls : ~Post(calls[c])
  BY FreeTypes DEF Init, Post
<1>2. unseen = [w \in Wishes |-> 0] /\ created = [w \in Wishes |-> 0]
  BY DEF Init, Wishes
<1>3. \A w \in Wishes : Coming(w) = {} /\ Cardinality(Coming(w)) = 0
  BY <1>1, FS_EmptySet DEF Coming
<1>4. \A w \in Wishes : Excused(w) >= 0
  BY <1>2 DEF Excused
<1>5. QED
  BY <1>1, <1>2, <1>3, <1>4 DEF FInv, Mine

\* The disabled button of a form (isSubmitting) and a reload after each success
\* keep a wish to one row, and one more for each outcome that the user was not
\* told: a call that the network lost, an error of the server, which may come after
\* the row was written, or a form that was left or replaced while it waited.  The
\* server remembers no call, so that this is all that keeps it.
THEOREM RowsPerWish ==
  ASSUME IsFiniteSet(Calls)
  PROVE  Spec => []OneRowPerPress
<1>1. ASSUME IInv, FInv PROVE OneRowPerPress
  <2>1. SUFFICES ASSUME NEW w \in Wishes PROVE created[w] <= 1 + unseen[w]
    BY DEF OneRowPerPress, Wishes
  <2> DEFINE n == Cardinality(Coming(w))
  <2>2. n \in Nat /\ created[w] \in Nat /\ created[w] + n <= Excused(w)
    BY <1>1, ComingCount DEF FInv, IInv, Shape, ServerShape, Wishes
  <2>3. unseen[w] \in Nat /\ Excused(w) \in {unseen[w], unseen[w] + 1}
    BY <1>1 DEF FInv, Excused
  <2> HIDE DEF n
  <2>4. QED
    BY <2>2, <2>3
<1>2. IInv /\ FInv => OneRowPerPress
  BY <1>1
<1>3. IInv /\ FInv /\ [Next]_vars => FInv'
  BY CountsStep
<1>4. QED
  BY Invariance, CountsInit, <1>2, <1>3, PTL DEF Spec
=============================================================================

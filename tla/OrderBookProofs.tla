-------------------------- MODULE OrderBookProofs --------------------------
(***************************************************************************)
(* Proofs about OrderBook, for any ids, terms and number of messages.      *)
(***************************************************************************)
EXTENDS OrderBook, TLAPS

(* An order that may stand in the book under k.                            *)
Keyed(o, k) ==
    /\ o \in Order
    /\ o.ClOrdID = k
    /\ o.fields.ClOrdID = k
    /\ o.fields.OrigClOrdID = o.OrigClOrdID

(* The invariant: BookIsKeyed together with the types, as a statement      *)
(* about each order.                                                       *)
Inv ==
    /\ DOMAIN orders \subseteq Ids
    /\ orders = [k \in DOMAIN orders |-> orders[k]]
    /\ \A k \in DOMAIN orders : Keyed(orders[k], k)

-----------------------------------------------------------------------------
(* The functions of order keep an order keyed.                             *)

LEMMA NewOrderKeyed ==
    ASSUME NEW id \in Ids, NEW original \in Optional(Ids), NEW terms \in Terms
    PROVE  Keyed(order(id, original, terms), id)
BY DEF Keyed, order, Order, Fields, Optional

LEMMA SetStatusKeyed ==
    ASSUME NEW o, NEW k, Keyed(o, k), NEW status \in Statuses
    PROVE  Keyed(set_status(o, status), k)
BY DEF Keyed, set_status, Order, Fields, Optional

LEMMA ReportKeyed ==
    ASSUME NEW o, NEW k, Keyed(o, k), NEW report \in Reports
    PROVE  Keyed(update_with_report(o, report), k)
<1>1. report.OrdStatus \in Optional(Statuses) /\ report.terms \in Optional(Terms)
  BY BookAssumption DEF Report
<1>2. Keyed(update_fields(o, report), k)
  BY <1>1 DEF Keyed, update_fields, Order, Fields, Optional
<1> QED
  BY <1>2 DEF Keyed, update_with_report, Order

LEMMA PendingKeyed ==
    ASSUME NEW o, NEW k, Keyed(o, k), NEW terms \in Optional(Terms)
    PROVE  Keyed(update_pending(o, terms), k)
<1>1. /\ o.fields.OrdStatus \in Optional(Statuses)
      /\ o.pending \in Optional(Terms) /\ o.messages + 1 \in Nat
  BY DEF Keyed, Order, Fields
<1> QED
  BY <1>1 DEF Keyed, update_pending, Order

LEMMA CommitKeyed ==
    ASSUME NEW o, NEW k, Keyed(o, k)
    PROVE  Keyed(commit(o), k)
BY DEF Keyed, commit, Order, Fields, Optional

LEMMA RollbackKeyed ==
    ASSUME NEW o, NEW k, Keyed(o, k)
    PROVE  Keyed(rollback(o), k)
<1> DEFINE cleared == [o EXCEPT !.pending = None]
<1>1. Keyed(cleared, k)
  BY DEF Keyed, Order, Optional
<1>2. CASE o.PreviousOrdStatus = None
  BY <1>1, <1>2 DEF rollback
<1>3. CASE o.PreviousOrdStatus # None
  <2>1. o.PreviousOrdStatus \in Statuses
    BY <1>3 DEF Keyed, Order, Optional
  <2> DEFINE back == set_status(cleared, o.PreviousOrdStatus)
  <2>2. Keyed(back, k)
    BY <1>1, <2>1, SetStatusKeyed
  <2>3. Keyed([back EXCEPT !.PreviousOrdStatus = None], k)
    <3> HIDE DEF back
    <3> QED
      BY <2>2 DEF Keyed, Order, Optional
  <2> QED
    BY <1>3, <2>3 DEF rollback
<1> QED
  BY <1>2, <1>3

LEMMA RenameKeyed ==
    ASSUME NEW o, NEW k \in Ids, Keyed(o, k), NEW id \in Ids
    PROVE  Keyed(rename(o, id), id)
BY DEF Keyed, rename, Order, Fields, Optional

(* The replacement is keyed under the id it has got.                       *)
LEMMA ReplacementKeyed ==
    ASSUME NEW o, NEW k \in Ids, Keyed(o, k), NEW report \in Reports
    PROVE  /\ replacement(o, report).ClOrdID \in Ids
           /\ Keyed(replacement(o, report), replacement(o, report).ClOrdID)
<1> DEFINE id  == IF o.NewClOrdID = None THEN report.ClOrdID ELSE o.NewClOrdID
           new == commit(update_with_report(o, report))
           named == IF id = None THEN new ELSE rename(new, id)
           j == IF id = None THEN k ELSE id
<1>1. Keyed(new, k)
  BY ReportKeyed, CommitKeyed
<1>2. id \in Optional(Ids)
  BY BookAssumption DEF Keyed, Order, Optional, Report
<1>3. j \in Ids
  BY <1>2 DEF Optional
<1>4. Keyed(named, j)
  <2> HIDE DEF new, id
  <2> QED
    BY <1>1, <1>2, RenameKeyed DEF Optional
<1>5. Keyed(set_status(named, "New"), j)
  <2>1. "New" \in Statuses
    BY DEF Statuses, Reported
  <2> HIDE DEF named, j
  <2> QED
    BY <1>4, <2>1, SetStatusKeyed
<1>6. replacement(o, report) = set_status(named, "New")
  BY DEF replacement
<1> HIDE DEF named, j
<1> QED
  BY <1>3, <1>5, <1>6 DEF Keyed

LEMMA ReplacedKeyed ==
    ASSUME NEW o, NEW k, Keyed(o, k)
    PROVE  Keyed(replaced(o), k)
<1>1. "Replaced" \in Statuses
  BY DEF Statuses
<1>2. Keyed(set_status(rollback(o), "Replaced"), k)
  BY <1>1, RollbackKeyed, SetStatusKeyed
<1> QED
  BY <1>2 DEF Keyed, replaced, Order

-----------------------------------------------------------------------------
(* The book.                                                               *)

(* Changing one order, or adding one, keeps the book keyed.                *)
LEMMA ChangeOne ==
    ASSUME Inv, NEW k \in DOMAIN orders, NEW o, Keyed(o, k),
           orders' = [orders EXCEPT ![k] = o]
    PROVE  Inv'
BY DEF Inv

LEMMA AddOne ==
    ASSUME NEW book, DOMAIN book \subseteq Ids,
           \A k \in DOMAIN book : Keyed(book[k], k),
           NEW id \in Ids, NEW o, Keyed(o, id),
           orders' = With(book, id, o)
    PROVE  Inv'
BY DEF Inv, With

LEMMA ReportInv ==
    ASSUME Inv, NEW report \in Reports, process_execution_report(report)
    PROVE  Inv'
<1> DEFINE k == key(report)
           new == replacement(orders[k], report)
<1>1. CASE ForUnknown(k)
  BY <1>1 DEF ForUnknown, Inv
<1>2. ASSUME Known(k), try_emplace(k, new) PROVE Inv'
  <2> DEFINE book == [orders EXCEPT ![k] = replaced(orders[k])]
  <2>1. k \in DOMAIN orders /\ k \in Ids /\ Keyed(orders[k], k)
    BY <1>2 DEF Known, Inv
  <2>2. Keyed(replaced(orders[k]), k)
    BY <2>1, ReplacedKeyed
  <2>3. new.ClOrdID \in Ids /\ Keyed(new, new.ClOrdID)
    BY <2>1, ReplacementKeyed
  <2>4. DOMAIN book \subseteq Ids /\ \A x \in DOMAIN book : Keyed(book[x], x)
    BY <2>1, <2>2 DEF Inv
  <2>5. orders' = book \/ orders' = With(book, new.ClOrdID, new)
    BY <1>2 DEF try_emplace, Return
  <2>6. CASE orders' = book
    BY <2>1, <2>2, <2>6, ChangeOne
  <2>7. CASE orders' = With(book, new.ClOrdID, new)
    <3> HIDE DEF book, new
    <3> QED
      BY <2>3, <2>4, <2>7, AddOne
  <2> QED
    BY <2>5, <2>6, <2>7
<1>3. ASSUME Known(k), orders' = [orders EXCEPT ![k] = update_with_report(@, report)]
      PROVE  Inv'
  <2>1. k \in DOMAIN orders /\ Keyed(orders[k], k)
    BY <1>3 DEF Known, Inv
  <2>2. Keyed(update_with_report(orders[k], report), k)
    BY <2>1, ReportKeyed
  <2> QED
    BY <1>3, <2>1, <2>2, ChangeOne
<1> QED
  BY <1>1, <1>2, <1>3 DEF process_execution_report, Return

(* A request, accepted or cut short, and a rejection change one order.     *)
LEMMA RequestInv ==
    ASSUME Inv, NEW k \in Optional(Ids), NEW id \in Optional(Ids),
           NEW terms \in Optional(Terms),
           \/ process_order_cancel_request(k, terms)
           \/ process_order_cancel_replace_request(k, id, terms)
           \/ process_order_cancel_reject(k)
    PROVE  Inv'
<1>1. CASE ForUnknown(k)
  BY <1>1 DEF ForUnknown, Inv
<1>2. CASE ~ForUnknown(k)
  <2> DEFINE o == orders[k]
  <2>1. k \in DOMAIN orders /\ Keyed(o, k)
    BY <1>2 DEF Inv, Known, process_order_cancel_request,
       process_order_cancel_replace_request, process_order_cancel_reject
  <2>2. "PendingCancel" \in Statuses /\ "PendingReplace" \in Statuses
    BY DEF Statuses, Pending
  <2>3. Keyed(update_with_cancel_request(o, terms), k)
    BY <2>1, <2>2, PendingKeyed, SetStatusKeyed DEF update_with_cancel_request
  <2>4. Keyed(update_with_replace_request(o, id, terms), k)
    <3> DEFINE p == update_pending(o, terms)
    <3>1. Keyed(p, k)
      BY <2>1, PendingKeyed
    <3>2. Keyed([p EXCEPT !.NewClOrdID = id], k)
      <4> HIDE DEF p
      <4> QED
        BY <3>1 DEF Keyed, Order
    <3> QED
      BY <2>2, <3>2, SetStatusKeyed DEF update_with_replace_request
  <2>5. Keyed(update_cut_short(o), k)
    <3>1. o.fields.OrdStatus \in Optional(Statuses) /\ o.messages + 1 \in Nat
      BY <2>1 DEF Keyed, Order, Fields
    <3> HIDE DEF o
    <3> QED
      BY <2>1, <3>1 DEF Keyed, update_cut_short, Order
  <2>6. Keyed(rollback(o), k)
    BY <2>1, RollbackKeyed
  <2>7. \/ orders' = [orders EXCEPT ![k] = update_with_cancel_request(o, terms)]
        \/ orders' = [orders EXCEPT ![k] = update_with_replace_request(o, id, terms)]
        \/ orders' = [orders EXCEPT ![k] = update_cut_short(o)]
        \/ orders' = [orders EXCEPT ![k] = rollback(o)]
    BY <1>2 DEF process_order_cancel_request, process_order_cancel_replace_request,
       process_order_cancel_reject, Return
  <2> QED
    BY <2>1, <2>3, <2>4, <2>5, <2>6, <2>7, ChangeOne
<1> QED
  BY <1>1, <1>2

LEMMA NextInv == Inv /\ [Next]_vars => Inv'
<1> SUFFICES ASSUME Inv, [Next]_vars PROVE Inv'
  OBVIOUS
<1>1. ASSUME NEW id \in Optional(Ids), NEW original \in Optional(Ids), NEW terms \in Terms,
             process_order_single(id, original, terms)
      PROVE  Inv'
  <2>1. CASE orders' = orders
    BY <2>1 DEF Inv
  <2>2. CASE id \in Ids /\ orders' = With(orders, id, order(id, original, terms))
    BY <2>2, NewOrderKeyed, AddOne DEF Inv
  <2> QED
    BY <1>1, <2>1, <2>2 DEF process_order_single, Return, Optional
<1>2. ASSUME NEW k \in Optional(Ids), NEW terms \in Optional(Terms),
             process_order_cancel_request(k, terms)
      PROVE  Inv'
  BY <1>2, RequestInv
<1>3. ASSUME NEW k \in Optional(Ids), NEW id \in Optional(Ids), NEW terms \in Terms,
             process_order_cancel_replace_request(k, id, terms)
      PROVE  Inv'
  <2>1. terms \in Optional(Terms)
    BY DEF Optional
  <2> QED
    BY <1>3, <2>1, RequestInv
<1>4. ASSUME NEW k \in Optional(Ids), process_order_cancel_reject(k)
      PROVE  Inv'
  <2>1. None \in Optional(Terms) /\ None \in Optional(Ids)
    BY DEF Optional
  <2> QED
    BY <1>4, <2>1, RequestInv
<1>5. ASSUME NEW report \in Reports, process_execution_report(report)
      PROVE  Inv'
  BY <1>5, ReportInv
<1>6. CASE process_unsupported \/ UNCHANGED vars
  BY <1>6 DEF process_unsupported, vars, Inv
<1>7. CASE clear
  BY <1>7 DEF clear, Inv
<1> QED
  BY <1>1, <1>2, <1>3, <1>4, <1>5, <1>6, <1>7 DEF Next

LEMMA InvariantHolds == Spec => []Inv
<1>1. Init => Inv
  BY DEF Init, Inv
<1> QED
  BY <1>1, NextInv, PTL DEF Spec

-----------------------------------------------------------------------------
(* The history of the requests.                                            *)

(* What the story of an order says about the order, unless something has   *)
(* crossed a request.  While a request is open the order has the status it *)
(* would go back to in PreviousOrdStatus, and has a status for it to go    *)
(* back from; rollback needs both.                                         *)
Traced(o, h) ==
    ~h.crossed =>
        IF h.open
        THEN /\ o.PreviousOrdStatus = h.status
             /\ h.status \notin {None, "Canceled"}
             /\ o.fields.OrdStatus # None
        ELSE /\ o.fields.OrdStatus = h.status
             /\ h.status # "Canceled" => o.pending = None

ToldOf(book, history) ==
    /\ history \in [DOMAIN book -> Story]
    /\ \A k \in DOMAIN book : Traced(book[k], history[k])

StoriesTold == ToldOf(orders, story)

ResultTyped == result \in {"ok", "error", "throws"} /\ processed \in Nat

Told == StoriesTold /\ ResultTyped

LEMMA StatusKinds ==
    /\ "Canceled" \in Statuses /\ "New" \in Statuses /\ "Replaced" \in Statuses
    /\ "PendingCancel" \in Statuses /\ "PendingReplace" \in Statuses
    /\ "Canceled" \notin Pending /\ "New" # "Canceled" /\ "Replaced" # "Canceled"
BY DEF Statuses, Pending, Reported

LEMMA NewStoryTraced ==
    ASSUME NEW o, NEW replaces \in BOOLEAN, NEW status \in Optional(Statuses),
           o.fields.OrdStatus = status, o.pending = None
    PROVE  NewStory(replaces, status) \in Story /\ Traced(o, NewStory(replaces, status))
BY DEF NewStory, Story, Traced

(* A request opens the story.                                              *)
LEMMA RequestTraced ==
    ASSUME NEW o, NEW k, Keyed(o, k), NEW h \in Story, Traced(o, h),
           NEW p, Keyed(p, k), NEW status \in Statuses,
           p.PreviousOrdStatus = o.fields.OrdStatus,
           p.fields.OrdStatus = o.fields.OrdStatus
    PROVE  /\ Requested(h) \in Story
           /\ Traced(set_status(p, status), Requested(h))
<1> DEFINE r == Requested(h)
           q == set_status(p, status)
           b == h.crossed \/ h.open \/ h.status \in {None, "Canceled"}
           a == TRUE
<1>1. b \in BOOLEAN /\ a \in BOOLEAN
  OBVIOUS
<1>2. r = [h EXCEPT !.open = a, !.crossed = b]
  BY Zenon DEF Requested
<1>3. r \in Story /\ r.open = a /\ r.crossed = b /\ r.status = h.status
  <2> HIDE DEF a, b, r
  <2> QED
    BY <1>1, <1>2 DEF Story
<1>4. status # None
  BY BookAssumption
<1>5. ASSUME ~r.crossed PROVE Traced(q, r)
  <2>1. /\ ~h.crossed /\ ~h.open /\ h.status \notin {None, "Canceled"}
        /\ r.open /\ r.status = h.status
    <3> HIDE DEF r
    <3> QED
      BY <1>3, <1>5
  <2>2. o.fields.OrdStatus = h.status
    BY <2>1 DEF Traced
  <2>3. q.PreviousOrdStatus = h.status /\ q.fields.OrdStatus = status
    BY <2>1, <2>2 DEF set_status, Keyed, Order, Fields
  <2> HIDE DEF r, q
  <2> QED
    BY <2>1, <2>3, <1>4 DEF Traced
<1>6. r.crossed => Traced(q, r)
  <2> HIDE DEF r, q
  <2> QED
    BY DEF Traced
<1> HIDE DEF r, q
<1> QED
  BY <1>3, <1>5, <1>6 DEF r, q

(* A rejection closes it.                                                  *)
LEMMA RejectionTraced ==
    ASSUME NEW o, NEW k, Keyed(o, k), NEW h \in Story, Traced(o, h)
    PROVE  Rejected(h) \in Story /\ Traced(rollback(o), Rejected(h))
<1> DEFINE r == Rejected(h)
           q == rollback(o)
           b == h.crossed \/ ~h.open
           a == FALSE
<1>1. b \in BOOLEAN /\ a \in BOOLEAN
  OBVIOUS
<1>2. r = [h EXCEPT !.open = a, !.crossed = b]
  BY Zenon DEF Rejected
<1>3. r \in Story /\ r.open = a /\ r.crossed = b /\ r.status = h.status
  <2> HIDE DEF a, b, r
  <2> QED
    BY <1>1, <1>2 DEF Story
<1>5. ASSUME ~r.crossed PROVE Traced(q, r)
  <2>1. ~h.crossed /\ h.open /\ ~r.open /\ r.status = h.status
    <3> HIDE DEF r
    <3> QED
      BY <1>3, <1>5
  <2>2. /\ o.PreviousOrdStatus = h.status /\ h.status # None
        /\ o.fields.OrdStatus # None
    BY <2>1 DEF Traced
  <2>3. q.fields.OrdStatus = h.status /\ q.pending = None
    BY <2>2 DEF rollback, set_status, Keyed, Order, Fields
  <2> HIDE DEF r, q
  <2> QED
    BY <2>1, <2>3 DEF Traced
<1>6. r.crossed => Traced(q, r)
  <2> HIDE DEF r, q
  <2> QED
    BY DEF Traced
<1> HIDE DEF r, q
<1> QED
  BY <1>3, <1>5, <1>6 DEF r, q

(* A request that throws is not followed any further.                      *)
LEMMA CutShortTraced ==
    ASSUME NEW o, NEW h \in Story
    PROVE  CutShort(h) \in Story /\ Traced(o, CutShort(h))
<1> DEFINE r == CutShort(h)
<1>1. r = [h EXCEPT !.crossed = TRUE] /\ TRUE \in BOOLEAN
  BY Zenon DEF CutShort
<1>2. r \in Story /\ r.crossed = TRUE
  <2> HIDE DEF r
  <2> QED
    BY <1>1 DEF Story
<1> HIDE DEF r
<1> QED
  BY <1>2 DEF Traced, r

(* A report has no status or one of three kinds.                           *)
LEMMA ReportTraced ==
    ASSUME NEW o, NEW k, Keyed(o, k), NEW h \in Story, Traced(o, h),
           NEW report \in Reports
    PROVE  /\ HasReported(h, report.OrdStatus) \in Story
           /\ Traced(update_with_report(o, report), HasReported(h, report.OrdStatus))
<1> DEFINE status == report.OrdStatus
           r == HasReported(h, status)
           q == update_with_report(o, report)
<1>1. h.open \in BOOLEAN /\ h.crossed \in BOOLEAN /\ h.status \in Optional(Statuses)
  BY DEF Story
<1>2. status \in Optional(Statuses)
  BY BookAssumption DEF Report
<1>3. /\ q.fields.OrdStatus = IF status = None THEN o.fields.OrdStatus ELSE status
      /\ q.PreviousOrdStatus = o.PreviousOrdStatus
      /\ q.pending = o.pending
  BY DEF update_with_report, update_fields, Keyed, Order, Fields
<1> SUFFICES r \in Story /\ Traced(q, r)
  OBVIOUS
<1> HIDE DEF q, status
<1>4a. None \notin Pending /\ None # "Canceled"
  BY BookAssumption DEF Statuses, Reported
<1>4b. CASE status = None
  <2>1. r = h
    <3>1. status \notin Pending /\ status # "Canceled"
      BY <1>4b, <1>4a
    <3> QED
      BY <1>4b, <3>1, Zenon DEF HasReported
  <2> HIDE DEF r
  <2> QED
    BY <1>1, <1>3, <1>4b, <2>1 DEF Traced
<1>4. CASE status \in Pending
  <2> DEFINE b == h.crossed \/ ~h.open
  <2>1. r = [h EXCEPT !.crossed = b]
    <3>1. status # "Canceled" /\ status # None
      BY <1>4, <1>4a, StatusKinds
    <3> QED
      BY <1>4, <3>1, Zenon DEF HasReported
  <2>2. b \in BOOLEAN
    OBVIOUS
  <2>3. r \in Story /\ r.open = h.open /\ r.crossed = b /\ r.status = h.status
    <3> HIDE DEF b, r
    <3> QED
      BY <2>1, <2>2 DEF Story
  <2> HIDE DEF r
  <2> QED
    BY <1>1, <1>2, <1>3, <1>4, <1>4a, <2>3 DEF Traced
<1>5. CASE status = "Canceled"
  <2>1. status \notin Pending /\ status # None
    BY <1>5, <1>4a, StatusKinds
  <2> DEFINE a == FALSE
  <2>2. r = [h EXCEPT !.open = a, !.status = status]
    BY <1>5, <2>1, Zenon DEF HasReported
  <2>3. r \in Story /\ r.open = a /\ r.crossed = h.crossed /\ r.status = status
    <3>1. a \in BOOLEAN
      OBVIOUS
    <3> HIDE DEF r, a
    <3> QED
      BY <1>2, <2>2, <3>1 DEF Story
  <2> HIDE DEF r
  <2> QED
    BY <1>1, <1>2, <1>3, <1>5, <2>1, <2>3 DEF Traced
<1>6. CASE status \notin Pending /\ status # "Canceled" /\ status # None
  <2> DEFINE b == h.crossed \/ h.open \/ h.status = "Canceled"
  <2>1. r = [h EXCEPT !.crossed = b, !.status = status]
    BY <1>6, Zenon DEF HasReported
  <2>2. b \in BOOLEAN
    OBVIOUS
  <2>3. r \in Story /\ r.open = h.open /\ r.crossed = b /\ r.status = status
    <3> HIDE DEF b, r
    <3> QED
      BY <1>2, <2>1, <2>2 DEF Story
  <2> HIDE DEF r
  <2> QED
    BY <1>1, <1>2, <1>3, <1>6, <2>3 DEF Traced
<1> HIDE DEF r
<1> QED
  BY <1>4b, <1>4, <1>5, <1>6

(* Both orders a replacement leaves have nothing pending.                  *)
LEMMA ReplaceTraced ==
    ASSUME NEW o, NEW k \in Ids, Keyed(o, k), NEW report \in Reports
    PROVE  /\ replaced(o).pending = None
           /\ replacement(o, report).pending = None
           /\ replaced(o).fields.OrdStatus \in Optional(Statuses)
           /\ replacement(o, report).fields.OrdStatus \in Optional(Statuses)
<1>1. Keyed(replaced(o), k) /\ Keyed(replacement(o, report), replacement(o, report).ClOrdID)
  BY ReplacedKeyed, ReplacementKeyed
<1>2. rollback(o).pending = None
  BY DEF rollback, set_status, Keyed, Order, Fields
<1>3. Keyed(rollback(o), k)
  BY RollbackKeyed
<1>4. replaced(o).pending = None
  <2> DEFINE p == rollback(o)
  <2> HIDE DEF p
  <2>1. [set_status(p, "Replaced") EXCEPT !.messages = @ + 1].pending = None
    BY <1>2, <1>3 DEF set_status, Keyed, Order, Fields, p
  <2> QED
    BY <2>1 DEF replaced, p
<1>5. replacement(o, report).pending = None
  <2> DEFINE u == update_with_report(o, report)
             c == commit(u)
  <2>1. Keyed(u, k)
    BY ReportKeyed
  <2>2. Keyed(c, k)
    BY <2>1, CommitKeyed
  <2>3. c.pending = None
    <3> HIDE DEF u
    <3> QED
      BY <2>1 DEF commit, Keyed, Order, Fields
  <2> HIDE DEF c
  <2>4. ASSUME NEW id
        PROVE  /\ rename(c, id).pending = None
               /\ set_status(c, "New").pending = None
               /\ set_status(rename(c, id), "New").pending = None
    BY <2>2, <2>3 DEF rename, set_status, Keyed, Order, Fields
  <2> QED
    BY <2>4 DEF replacement, c
<1> QED
  BY <1>1, <1>4, <1>5 DEF Keyed, Order, Fields

LEMMA ToldAfterChange ==
    ASSUME NEW book, book = [x \in DOMAIN book |-> book[x]], NEW history,
           ToldOf(book, history), NEW k \in DOMAIN book,
           NEW o, NEW h \in Story, Traced(o, h)
    PROVE  ToldOf([book EXCEPT ![k] = o], [history EXCEPT ![k] = h])
<1> DEFINE B == [book EXCEPT ![k] = o]
           H == [history EXCEPT ![k] = h]
<1>1. DOMAIN B = DOMAIN book /\ H \in [DOMAIN B -> Story]
  BY DEF ToldOf
<1>2. ASSUME NEW x \in DOMAIN B PROVE Traced(B[x], H[x])
  <2>1. CASE x = k
    <3>1. B[x] = o /\ H[x] = h
      BY <2>1 DEF ToldOf
    <3> QED
      BY <3>1, Zenon
  <2>2. CASE x # k
    <3>1. B[x] = book[x] /\ H[x] = history[x] /\ x \in DOMAIN book
      BY <1>1, <2>2 DEF ToldOf
    <3>2. Traced(book[x], history[x])
      BY <3>1 DEF ToldOf
    <3> QED
      BY <3>1, <3>2, Zenon
  <2> QED
    BY <2>1, <2>2
<1> QED
  BY <1>1, <1>2 DEF ToldOf

LEMMA ToldAfterAdding ==
    ASSUME NEW book, NEW history, ToldOf(book, history), NEW k,
           NEW o, NEW h \in Story, Traced(o, h)
    PROVE  ToldOf(With(book, k, o), With(history, k, h))
<1> DEFINE B == With(book, k, o)
           H == With(history, k, h)
<1>1. DOMAIN history = DOMAIN book /\ \A x \in DOMAIN book : history[x] \in Story
  BY DEF ToldOf
<1>2. /\ DOMAIN B = DOMAIN book \union {k}
      /\ H = [x \in DOMAIN book \union {k} |-> IF x = k THEN h ELSE history[x]]
  BY <1>1 DEF With
<1>3. H \in [DOMAIN B -> Story]
  BY <1>1, <1>2
<1>4. ASSUME NEW x \in DOMAIN B PROVE Traced(B[x], H[x])
  <2>1. CASE x = k
    <3>1. B[x] = o /\ H[x] = h
      BY <1>2, <2>1 DEF With
    <3> QED
      BY <3>1, Zenon
  <2>2. CASE x # k
    <3>1. B[x] = book[x] /\ H[x] = history[x] /\ x \in DOMAIN book
      BY <1>2, <2>2 DEF With
    <3>2. Traced(book[x], history[x])
      BY <3>1 DEF ToldOf
    <3> QED
      BY <3>1, <3>2, Zenon
  <2> QED
    BY <2>1, <2>2
<1> QED
  BY <1>3, <1>4 DEF ToldOf

(* A message for an order that is in the book.                             *)
LEMMA RequestTold ==
    ASSUME Inv, StoriesTold, NEW k \in Optional(Ids), NEW id \in Optional(Ids),
           NEW terms \in Optional(Terms),
           \/ process_order_cancel_request(k, terms)
           \/ process_order_cancel_replace_request(k, id, terms)
           \/ process_order_cancel_reject(k)
    PROVE  StoriesTold'
<1>1. CASE ForUnknown(k)
  BY <1>1 DEF ForUnknown, StoriesTold, ToldOf
<1>2. CASE ~ForUnknown(k)
  <2> DEFINE o == orders[k]
             h == story[k]
             p == update_pending(o, terms)
  <2>1. k \in DOMAIN orders /\ Keyed(o, k)
    BY <1>2 DEF Inv, Known, process_order_cancel_request,
       process_order_cancel_replace_request, process_order_cancel_reject
  <2>2. h \in Story /\ Traced(o, h)
    BY <2>1 DEF StoriesTold, ToldOf
  <2>3. orders = [x \in DOMAIN orders |-> orders[x]]
    BY DEF Inv
  <2>4. /\ Keyed(p, k)
        /\ p.PreviousOrdStatus = o.fields.OrdStatus
        /\ p.fields.OrdStatus = o.fields.OrdStatus
    <3>1. Keyed(p, k)
      BY <2>1, PendingKeyed
    <3> QED
      BY <2>1, <3>1 DEF update_pending, Keyed, Order
  <2>5. /\ Keyed([p EXCEPT !.NewClOrdID = id], k)
        /\ [p EXCEPT !.NewClOrdID = id].PreviousOrdStatus = o.fields.OrdStatus
        /\ [p EXCEPT !.NewClOrdID = id].fields.OrdStatus = o.fields.OrdStatus
    <3> HIDE DEF p, o
    <3> QED
      BY <2>4 DEF Keyed, Order
  <2>6. /\ Requested(h) \in Story
        /\ Traced(update_with_cancel_request(o, terms), Requested(h))
        /\ Traced(update_with_replace_request(o, id, terms), Requested(h))
    <3> HIDE DEF o, h
    <3>1. /\ Requested(h) \in Story
          /\ Traced(set_status(p, "PendingCancel"), Requested(h))
      BY <2>1, <2>2, <2>4, RequestTraced, StatusKinds
    <3>2. Traced(set_status([p EXCEPT !.NewClOrdID = id], "PendingReplace"), Requested(h))
      BY <2>1, <2>2, <2>5, RequestTraced, StatusKinds
    <3> QED
      BY <3>1, <3>2 DEF update_with_cancel_request, update_with_replace_request
  <2>7. Rejected(h) \in Story /\ Traced(rollback(o), Rejected(h))
    BY <2>1, <2>2, RejectionTraced
  <2>8. CutShort(h) \in Story /\ Traced(update_cut_short(o), CutShort(h))
    BY <2>2, CutShortTraced
  <2>9. \/ /\ orders' = [orders EXCEPT ![k] = update_with_cancel_request(o, terms)]
           /\ story' = [story EXCEPT ![k] = Requested(h)]
        \/ /\ orders' = [orders EXCEPT ![k] = update_with_replace_request(o, id, terms)]
           /\ story' = [story EXCEPT ![k] = Requested(h)]
        \/ /\ orders' = [orders EXCEPT ![k] = update_cut_short(o)]
           /\ story' = [story EXCEPT ![k] = CutShort(h)]
        \/ /\ orders' = [orders EXCEPT ![k] = rollback(o)]
           /\ story' = [story EXCEPT ![k] = Rejected(h)]
    BY <1>2, Zenon DEF process_order_cancel_request, process_order_cancel_replace_request,
       process_order_cancel_reject, Return
  <2> HIDE DEF o, h
  <2>10. \E q, r : /\ r \in Story /\ Traced(q, r)
                   /\ orders' = [orders EXCEPT ![k] = q]
                   /\ story' = [story EXCEPT ![k] = r]
    BY <2>6, <2>7, <2>8, <2>9, Zenon
  <2>11. PICK q, r : /\ r \in Story /\ Traced(q, r)
                     /\ orders' = [orders EXCEPT ![k] = q]
                     /\ story' = [story EXCEPT ![k] = r]
    BY <2>10
  <2>12. ToldOf([orders EXCEPT ![k] = q], [story EXCEPT ![k] = r])
    BY <2>1, <2>3, <2>11, ToldAfterChange, Zenon DEF StoriesTold
  <2> QED
    BY <2>11, <2>12, Zenon DEF StoriesTold, ToldOf
<1> QED
  BY <1>1, <1>2

LEMMA ReportTold ==
    ASSUME Inv, StoriesTold, NEW report \in Reports,
           process_execution_report(report)
    PROVE  StoriesTold'
<1> DEFINE k == key(report)
           o == orders[k]
           new == replacement(o, report)
<1>1. CASE ForUnknown(k)
  BY <1>1 DEF ForUnknown, StoriesTold, ToldOf
<1>2. ASSUME Known(k)
      PROVE  /\ k \in DOMAIN orders /\ k \in Ids /\ Keyed(o, k)
             /\ story[k] \in Story /\ Traced(o, story[k])
             /\ orders = [x \in DOMAIN orders |-> orders[x]]
  BY <1>2 DEF Known, Inv, StoriesTold, ToldOf
<1>3. ASSUME Known(k), try_emplace(k, new) PROVE StoriesTold'
  <2> DEFINE old == replaced(o)
             book == [orders EXCEPT ![k] = old]
             mark == story[k].replaces
             history == [story EXCEPT ![k] = NewStory(mark, old.fields.OrdStatus)]
  <2>1. k \in DOMAIN orders /\ k \in Ids /\ Keyed(o, k) /\ mark \in BOOLEAN
    BY <1>2, <1>3 DEF Story
  <2>2. /\ old.pending = None /\ new.pending = None
        /\ old.fields.OrdStatus \in Optional(Statuses)
        /\ new.fields.OrdStatus \in Optional(Statuses)
    BY <2>1, ReplaceTraced
  <2> HIDE DEF old, new, o, mark
  <2>3. /\ NewStory(mark, old.fields.OrdStatus) \in Story
        /\ Traced(old, NewStory(mark, old.fields.OrdStatus))
        /\ NewStory(TRUE, new.fields.OrdStatus) \in Story
        /\ Traced(new, NewStory(TRUE, new.fields.OrdStatus))
    BY <2>1, <2>2, NewStoryTraced
  <2>4. ToldOf(book, history)
    BY <1>2, <1>3, <2>1, <2>3, ToldAfterChange, Zenon DEF StoriesTold
  <2>5. ToldOf(With(book, new.ClOrdID, new),
               With(history, new.ClOrdID, NewStory(TRUE, new.fields.OrdStatus)))
    <3> HIDE DEF book, history
    <3> QED
      BY <2>3, <2>4, ToldAfterAdding, Zenon
  <2>6. book[k] = old /\ k \in DOMAIN book
    BY <1>2, <1>3, <2>1
  <2>7. CASE Known(new.ClOrdID)
    <3>1. orders' = book
      BY <1>3, <2>7, Zenon DEF try_emplace, old, o
    <3>2. orders'[k] = old
      BY <2>6, <3>1, Zenon
    <3>3. story' = history
      BY <1>3, <2>7, <3>2, Zenon DEF try_emplace, mark
    <3> QED
      BY <2>4, <3>1, <3>3, Zenon DEF StoriesTold, ToldOf
  <2>8. CASE ~Known(new.ClOrdID)
    <3>1. orders' = With(book, new.ClOrdID, new)
      BY <1>3, <2>8, Zenon DEF try_emplace, Return, old, o
    <3>2. new.ClOrdID # k
      BY <1>3, <2>8 DEF Known
    <3>3. orders'[k] = old
      <4> HIDE DEF book
      <4> QED
        BY <2>6, <3>1, <3>2 DEF With
    <3>4. story' = With(history, new.ClOrdID, NewStory(TRUE, new.fields.OrdStatus))
      BY <1>3, <2>8, <3>3, Zenon DEF try_emplace, Return, mark
    <3> QED
      BY <2>5, <3>1, <3>4, Zenon DEF StoriesTold, ToldOf
  <2> QED
    BY <2>7, <2>8
<1>4. ASSUME Known(k),
             orders' = [orders EXCEPT ![k] = update_with_report(@, report)],
             story' = [story EXCEPT ![k] = HasReported(@, report.OrdStatus)]
      PROVE  StoriesTold'
  <2> DEFINE q == update_with_report(o, report)
             r == HasReported(story[k], report.OrdStatus)
  <2>1. r \in Story /\ Traced(q, r)
    BY <1>2, <1>4, ReportTraced, Zenon
  <2>2. orders' = [orders EXCEPT ![k] = q] /\ story' = [story EXCEPT ![k] = r]
    BY <1>4, Zenon
  <2> HIDE DEF q, r
  <2>3. ToldOf([orders EXCEPT ![k] = q], [story EXCEPT ![k] = r])
    BY <1>2, <1>4, <2>1, ToldAfterChange, Zenon DEF StoriesTold
  <2> QED
    BY <2>2, <2>3, Zenon DEF StoriesTold, ToldOf
<1> QED
  BY <1>1, <1>3, <1>4, Zenon DEF process_execution_report, Return

LEMMA NextResult == ResultTyped /\ [Next]_vars => ResultTyped'
<1> SUFFICES ASSUME ResultTyped, [Next]_vars PROVE ResultTyped'
  OBVIOUS
<1>1. ASSUME Process PROVE processed' \in Nat
  BY <1>1 DEF Process, ResultTyped
<1>2. ASSUME NEW k, ForUnknown(k) PROVE result' \in {"ok", "error", "throws"}
  BY <1>2 DEF ForUnknown
<1>3. ASSUME NEW id, NEW original, NEW terms, process_order_single(id, original, terms)
      PROVE  ResultTyped'
  BY <1>1, <1>3 DEF process_order_single, Return, Fail, ResultTyped
<1>4. ASSUME NEW k, NEW terms, process_order_cancel_request(k, terms) PROVE ResultTyped'
  BY <1>1, <1>2, <1>4 DEF process_order_cancel_request, Return, ResultTyped
<1>5. ASSUME NEW k, NEW id, NEW terms, process_order_cancel_replace_request(k, id, terms)
      PROVE  ResultTyped'
  BY <1>1, <1>2, <1>5 DEF process_order_cancel_replace_request, Return, ResultTyped
<1>6. ASSUME NEW k, process_order_cancel_reject(k) PROVE ResultTyped'
  BY <1>1, <1>2, <1>6 DEF process_order_cancel_reject, Return, ResultTyped
<1>7. ASSUME NEW report, process_execution_report(report) PROVE ResultTyped'
  <2>1. Process
    BY <1>7 DEF process_execution_report
  <2>2. ASSUME NEW k, NEW new, try_emplace(k, new)
        PROVE  result' \in {"ok", "error", "throws"}
    BY <2>2 DEF try_emplace, Fail, Return
  <2>3. result' \in {"ok", "error", "throws"}
    BY <1>2, <1>7, <2>2 DEF process_execution_report, Return
  <2> QED
    BY <1>1, <2>1, <2>3 DEF ResultTyped
<1>8. CASE process_unsupported
  BY <1>1, <1>8 DEF process_unsupported, Fail, ResultTyped
<1>9. CASE clear \/ UNCHANGED vars
  BY <1>9 DEF clear, vars, ResultTyped
<1> QED
  BY <1>3, <1>4, <1>5, <1>6, <1>7, <1>8, <1>9 DEF Next

LEMMA NextTold == Inv /\ Told /\ [Next]_vars => Told'
<1> SUFFICES ASSUME Inv, Told, [Next]_vars PROVE Told'
  OBVIOUS
<1> SUFFICES StoriesTold'
  BY NextResult DEF Told
<1>2. StoriesTold
  BY DEF Told
<1>3. ASSUME NEW id \in Optional(Ids), NEW original \in Optional(Ids), NEW terms \in Terms,
             process_order_single(id, original, terms)
      PROVE  StoriesTold'
  <2>1. CASE UNCHANGED <<orders, story>>
    BY <1>2, <2>1 DEF StoriesTold, ToldOf
  <2>2. CASE /\ orders' = With(orders, id, order(id, original, terms))
             /\ story' = With(story, id, NewStory(FALSE, None))
    <3>1. order(id, original, terms).fields.OrdStatus = None /\ order(id, original, terms).pending = None
      BY DEF order
    <3>2. NewStory(FALSE, None) \in Story /\ Traced(order(id, original, terms), NewStory(FALSE, None))
      BY <3>1, NewStoryTraced DEF Optional
    <3>3. ToldOf(With(orders, id, order(id, original, terms)), With(story, id, NewStory(FALSE, None)))
      BY <1>2, <3>2, ToldAfterAdding, Zenon DEF StoriesTold
    <3> QED
      BY <2>2, <3>3, Zenon DEF StoriesTold, ToldOf
  <2> QED
    BY <1>3, <2>1, <2>2 DEF process_order_single, Return
<1>4. ASSUME NEW k \in Optional(Ids), NEW terms \in Optional(Terms),
             process_order_cancel_request(k, terms)
      PROVE  StoriesTold'
  BY <1>2, <1>4, RequestTold
<1>5. ASSUME NEW k \in Optional(Ids), NEW id \in Optional(Ids), NEW terms \in Terms,
             process_order_cancel_replace_request(k, id, terms)
      PROVE  StoriesTold'
  <2>1. terms \in Optional(Terms)
    BY DEF Optional
  <2> QED
    BY <1>2, <1>5, <2>1, RequestTold
<1>6. ASSUME NEW k \in Optional(Ids), process_order_cancel_reject(k)
      PROVE  StoriesTold'
  <2>1. None \in Optional(Terms) /\ None \in Optional(Ids)
    BY DEF Optional
  <2> QED
    BY <1>2, <1>6, <2>1, RequestTold
<1>7. ASSUME NEW report \in Reports, process_execution_report(report)
      PROVE  StoriesTold'
  BY <1>2, <1>7, ReportTold
<1>8. CASE process_unsupported \/ UNCHANGED vars
  <2>1. orders' = orders /\ story' = story
    BY <1>8 DEF process_unsupported, vars
  <2> QED
    BY <1>2, <2>1, Zenon DEF StoriesTold, ToldOf
<1>9. CASE clear
  <2>1. orders' = <<>> /\ story' = <<>>
    BY <1>9 DEF clear
  <2>2. ToldOf(<<>>, <<>>)
    BY DEF ToldOf
  <2> QED
    BY <2>1, <2>2, Zenon DEF StoriesTold, ToldOf
<1> QED
  BY <1>3, <1>4, <1>5, <1>6, <1>7, <1>8, <1>9 DEF Next

LEMMA HistoryHolds == Spec => []Told
<1>1. Init => Told
  BY DEF Init, Told, StoriesTold, ToldOf, ResultTyped
<1> QED
  BY <1>1, InvariantHolds, NextTold, PTL DEF Spec

-----------------------------------------------------------------------------
(* Every state of order_book is well typed, and has a story for each order *)
(* it holds.                                                               *)
THEOREM BookTypeCorrect == Spec => []TypeOK
<1>1. Inv /\ Told => TypeOK
  <2> SUFFICES ASSUME Inv, Told PROVE TypeOK
    OBVIOUS
  <2>1. DOMAIN orders \in SUBSET Ids
    BY DEF Inv
  <2>2. orders \in [DOMAIN orders -> Order]
    BY DEF Inv, Keyed
  <2>3. story \in [DOMAIN orders -> Story]
    BY DEF Told, StoriesTold, ToldOf
  <2> QED
    BY <2>1, <2>2, <2>3, Zenon DEF TypeOK, Told, ResultTyped
<1> QED
  BY <1>1, InvariantHolds, HistoryHolds, PTL

(* rollback takes back everything a request has done: if nothing crosses   *)
(* it, the order has its status again and nothing stays pending, after any *)
(* number of requests, reports and replacements.                           *)
THEOREM RejectionsLeaveNoTrace == Spec => []RejectionLeavesNoTrace
<1>1. Told => RejectionLeavesNoTrace
  BY DEF Told, StoriesTold, ToldOf, Traced, RejectionLeavesNoTrace
<1> QED
  BY <1>1, HistoryHolds, PTL

(* order_book finds every order under its own ClOrdID, and the order's     *)
(* fields never disagree with the ids it keeps, for any messages.          *)
THEOREM BookStaysKeyed == Spec => []BookIsKeyed
<1>1. Inv => BookIsKeyed
  BY DEF Inv, Keyed, BookIsKeyed
<1> QED
  BY <1>1, InvariantHolds, PTL

-----------------------------------------------------------------------------
(* What becomes of an order in one step.                                   *)

Same(o, p) == p.messages >= o.messages /\ p.OrigClOrdID = o.OrigClOrdID

Kept(o, p) == Same(o, p) /\ p.fields.terms = o.fields.terms

LEMMA KeptByRequest ==
    ASSUME NEW o, NEW k, Keyed(o, k), NEW id, NEW terms
    PROVE  /\ Kept(o, update_with_cancel_request(o, terms))
           /\ Kept(o, update_with_replace_request(o, id, terms))
           /\ Kept(o, update_cut_short(o))
           /\ Kept(o, rollback(o))
           /\ Kept(o, replaced(o))
<1>1. o.messages \in Nat /\ o \in Order /\ o.fields \in Fields
  BY DEF Keyed, Order
<1>2. Kept(o, update_with_cancel_request(o, terms))
  BY <1>1 DEF Kept, Same, update_with_cancel_request, update_pending, set_status, Order, Fields
<1>3. Kept(o, update_with_replace_request(o, id, terms))
  BY <1>1 DEF Kept, Same, update_with_replace_request, update_pending, set_status, Order, Fields
<1>4. Kept(o, update_cut_short(o))
  BY <1>1 DEF Kept, Same, update_cut_short, Order, Fields
<1>5. Kept(o, rollback(o))
  BY <1>1 DEF Kept, Same, rollback, set_status, Order, Fields
<1>6. Kept(o, replaced(o))
  <2>1. /\ rollback(o) \in Order /\ rollback(o).messages = o.messages
        /\ rollback(o).OrigClOrdID = o.OrigClOrdID
        /\ rollback(o).fields.terms = o.fields.terms
    BY <1>1, RollbackKeyed DEF rollback, set_status, Order, Fields, Keyed
  <2> DEFINE p == rollback(o)
  <2> HIDE DEF p
  <2>2. Kept(o, [set_status(p, "Replaced") EXCEPT !.messages = @ + 1])
    BY <1>1, <2>1 DEF Kept, Same, set_status, Order, Fields, p
  <2> QED
    BY <2>2 DEF replaced, p
<1> QED
  BY <1>2, <1>3, <1>4, <1>5, <1>6

(* A report changes the terms to those it has, if any.                     *)
LEMMA SameByReport ==
    ASSUME NEW o, NEW k, Keyed(o, k), NEW report \in Reports
    PROVE  LET q == update_with_report(o, report) IN
           /\ Same(o, q)
           /\ q.fields.terms = o.fields.terms \/ q.fields.terms = report.terms
<1> DEFINE u == update_fields(o, report)
           q == update_with_report(o, report)
<1>1. o \in Order /\ o.messages \in Nat
  BY DEF Keyed, Order
<1>2. /\ u \in Order /\ u.messages = o.messages /\ u.OrigClOrdID = o.OrigClOrdID
      /\ u.fields.terms = o.fields.terms \/ u.fields.terms = report.terms
  <2>1. report.OrdStatus \in Optional(Statuses) /\ report.terms \in Optional(Terms)
    BY BookAssumption DEF Report
  <2> QED
    BY <1>1, <2>1 DEF update_fields, Order, Fields, Optional
<1>3. /\ q.messages = o.messages + 1 /\ q.OrigClOrdID = o.OrigClOrdID
      /\ q.fields.terms = o.fields.terms \/ q.fields.terms = report.terms
  <2> HIDE DEF u
  <2>1. q = [u EXCEPT !.messages = @ + 1]
    BY DEF update_with_report, u
  <2> QED
    BY <1>2, <2>1 DEF Order
<1> HIDE DEF q
<1>4. /\ Same(o, q)
      /\ q.fields.terms = o.fields.terms \/ q.fields.terms = report.terms
  BY <1>1, <1>3 DEF Same
<1> QED
  BY <1>4 DEF q

(* The step is an ordinary report for k, with the terms the order has now. *)
TermsReported(k) ==
    \E report \in Reports :
        /\ key(report) = k /\ report.ExecType # "Replaced"
        /\ report.terms = orders'[k].fields.terms
        /\ process_execution_report(report)

KeepsOrders ==
    \A k \in DOMAIN orders :
        /\ k \in DOMAIN orders'
        /\ Same(orders[k], orders'[k])
        /\ orders'[k].fields.terms # orders[k].fields.terms => TermsReported(k)

LEMMA SelfKept ==
    ASSUME NEW o, NEW k, Keyed(o, k) PROVE Kept(o, o)
BY DEF Kept, Same, Keyed, Order

LEMMA KeptByChange ==
    ASSUME Inv, NEW k \in DOMAIN orders, NEW o, NEW x, NEW new,
           Same(orders[k], o),
           o.fields.terms # orders[k].fields.terms => TermsReported(k),
           \/ orders' = [orders EXCEPT ![k] = o]
           \/ /\ x \notin DOMAIN orders
              /\ orders' = With([orders EXCEPT ![k] = o], x, new)
    PROVE  KeepsOrders
<1> SUFFICES ASSUME NEW y \in DOMAIN orders
             PROVE  /\ y \in DOMAIN orders'
                    /\ Same(orders[y], orders'[y])
                    /\ orders'[y].fields.terms # orders[y].fields.terms => TermsReported(y)
  BY DEF KeepsOrders
<1>1. y \in DOMAIN orders' /\ orders'[y] = IF y = k THEN o ELSE orders[y]
  BY DEF With, Inv
<1>2. Same(orders[y], orders[y])
  BY SelfKept DEF Inv, Kept
<1>3. CASE y = k
  BY <1>1, <1>3
<1>4. CASE y # k
  BY <1>1, <1>2, <1>4
<1> QED
  BY <1>3, <1>4

LEMMA KeptByRequests ==
    ASSUME Inv, NEW k \in Optional(Ids), NEW id, NEW terms,
           \/ process_order_cancel_request(k, terms)
           \/ process_order_cancel_replace_request(k, id, terms)
           \/ process_order_cancel_reject(k)
    PROVE  orders' = orders \/ KeepsOrders
<1>1. CASE ForUnknown(k)
  BY <1>1 DEF ForUnknown
<1>2. CASE ~ForUnknown(k)
  <2> DEFINE o == orders[k]
  <2>1. k \in DOMAIN orders /\ Keyed(o, k)
    BY <1>2 DEF Inv, Known, process_order_cancel_request,
       process_order_cancel_replace_request, process_order_cancel_reject
  <2>2. \/ orders' = [orders EXCEPT ![k] = update_with_cancel_request(o, terms)]
        \/ orders' = [orders EXCEPT ![k] = update_with_replace_request(o, id, terms)]
        \/ orders' = [orders EXCEPT ![k] = update_cut_short(o)]
        \/ orders' = [orders EXCEPT ![k] = rollback(o)]
    BY <1>2, Zenon DEF process_order_cancel_request, process_order_cancel_replace_request,
       process_order_cancel_reject, Return
  <2>3. /\ Kept(o, update_with_cancel_request(o, terms))
        /\ Kept(o, update_with_replace_request(o, id, terms))
        /\ Kept(o, update_cut_short(o))
        /\ Kept(o, rollback(o))
    BY <2>1, KeptByRequest
  <2>4. PICK q : orders' = [orders EXCEPT ![k] = q] /\ Kept(o, q)
    BY <2>2, <2>3, Zenon
  <2> QED
    BY <2>1, <2>4, KeptByChange DEF Kept
<1> QED
  BY <1>1, <1>2

LEMMA KeptByExecutionReport ==
    ASSUME Inv, NEW report \in Reports, process_execution_report(report)
    PROVE  orders' = orders \/ KeepsOrders
<1> DEFINE k == key(report)
           o == orders[k]
           new == replacement(o, report)
<1>1. CASE ForUnknown(k)
  BY <1>1 DEF ForUnknown
<1>2. ASSUME Known(k) PROVE k \in DOMAIN orders /\ Keyed(o, k)
  BY <1>2 DEF Known, Inv
<1>3. ASSUME Known(k), try_emplace(k, new) PROVE KeepsOrders
  <2>1. Kept(o, replaced(o))
    BY <1>2, <1>3, KeptByRequest
  <2>2. \/ orders' = [orders EXCEPT ![k] = replaced(o)]
        \/ /\ new.ClOrdID \notin DOMAIN orders
           /\ orders' = With([orders EXCEPT ![k] = replaced(o)], new.ClOrdID, new)
    BY <1>3, Zenon DEF try_emplace, Return, Known
  <2> HIDE DEF new
  <2> QED
    BY <1>2, <1>3, <2>1, <2>2, KeptByChange, Zenon DEF Kept
<1>4. ASSUME Known(k), report.ExecType # "Replaced",
             orders' = [orders EXCEPT ![k] = update_with_report(@, report)]
      PROVE  KeepsOrders
  <2> DEFINE q == update_with_report(o, report)
  <2>1. /\ Same(o, q)
        /\ q.fields.terms = o.fields.terms \/ q.fields.terms = report.terms
    BY <1>2, <1>4, SameByReport, Zenon
  <2>2. orders' = [orders EXCEPT ![k] = q]
    BY <1>4, Zenon
  <2>3. orders'[k] = q
    <3> HIDE DEF q
    <3> QED
      BY <1>2, <1>4, <2>2
  <2>4. q.fields.terms = report.terms => TermsReported(k)
    BY <1>4, <2>3, Zenon DEF TermsReported
  <2> HIDE DEF q
  <2> QED
    BY <1>2, <1>4, <2>1, <2>2, <2>4, KeptByChange, Zenon
<1> QED
  BY <1>1, <1>3, <1>4, Zenon DEF process_execution_report, Return

(* No step but clear loses or spoils an order.                             *)
LEMMA StepKeepsOrders ==
    ASSUME Inv, [Next]_vars
    PROVE  clear \/ KeepsOrders
<1>1. ASSUME orders' = orders PROVE KeepsOrders
  BY <1>1, SelfKept DEF KeepsOrders, Inv, Kept
<1>2. ASSUME NEW id \in Optional(Ids), NEW original \in Optional(Ids), NEW terms \in Terms,
             process_order_single(id, original, terms)
      PROVE  KeepsOrders
  <2>1. CASE id \notin DOMAIN orders /\ orders' = With(orders, id, order(id, original, terms))
    <3>1. ASSUME NEW y \in DOMAIN orders
          PROVE  y \in DOMAIN orders' /\ orders'[y] = orders[y]
      BY <2>1 DEF With
    <3>2. \A y \in DOMAIN orders : Same(orders[y], orders[y])
      BY SelfKept DEF Inv, Kept
    <3> QED
      BY <3>1, <3>2 DEF KeepsOrders
  <2> QED
    BY <1>1, <1>2, <2>1 DEF process_order_single, Return, Known
<1>3. ASSUME NEW k \in Optional(Ids), NEW terms \in Optional(Terms),
             process_order_cancel_request(k, terms)
      PROVE  KeepsOrders
  BY <1>1, <1>3, KeptByRequests
<1>4. ASSUME NEW k \in Optional(Ids), NEW id \in Optional(Ids), NEW terms \in Terms,
             process_order_cancel_replace_request(k, id, terms)
      PROVE  KeepsOrders
  BY <1>1, <1>4, KeptByRequests
<1>5. ASSUME NEW k \in Optional(Ids), process_order_cancel_reject(k)
      PROVE  KeepsOrders
  BY <1>1, <1>5, KeptByRequests
<1>6. ASSUME NEW report \in Reports, process_execution_report(report)
      PROVE  KeepsOrders
  BY <1>1, <1>6, KeptByExecutionReport
<1>7. CASE process_unsupported \/ UNCHANGED vars
  BY <1>1, <1>7 DEF process_unsupported, vars
<1> QED
  BY <1>2, <1>3, <1>4, <1>5, <1>6, <1>7 DEF Next

(* process never loses or overwrites an order, whatever messages arrive    *)
(* and whether it succeeds: the key of a replacement that is taken already *)
(* leaves the order under it alone, and only an ordinary report that has   *)
(* the new terms changes those of an order, never a request or the         *)
(* replacement it leads to.                                                *)
THEOREM NothingIsOverwritten == Spec => NothingOverwritten
<1>1. ASSUME Inv, [Next]_vars
      PROVE  [~clear =>
                \A k \in DOMAIN orders :
                    /\ k \in DOMAIN orders'
                    /\ orders'[k].messages >= orders[k].messages
                    /\ orders'[k].OrigClOrdID = orders[k].OrigClOrdID
                    /\ orders'[k].fields.terms # orders[k].fields.terms =>
                          \E report \in Reports :
                              /\ key(report) = k /\ report.ExecType # "Replaced"
                              /\ report.terms = orders'[k].fields.terms
                              /\ process_execution_report(report)]_vars
  BY <1>1, StepKeepsOrders DEF KeepsOrders, Same, TermsReported
<1> QED
  BY <1>1, InvariantHolds, PTL DEF Spec, NothingOverwritten

-----------------------------------------------------------------------------
(* Chains of replacements.                                                 *)

(* A replacement has the order it replaces as its original, unless it has  *)
(* kept the id.                                                            *)
LEMMA ReplacementLinked ==
    ASSUME NEW o, NEW k \in Ids, Keyed(o, k), NEW report \in Reports,
           replacement(o, report).ClOrdID # k
    PROVE  replacement(o, report).OrigClOrdID = k
<1> DEFINE id  == IF o.NewClOrdID = None THEN report.ClOrdID ELSE o.NewClOrdID
           new == commit(update_with_report(o, report))
<1>1. Keyed(new, k)
  BY ReportKeyed, CommitKeyed
<1>2. replacement(o, report) = set_status(IF id = None THEN new ELSE rename(new, id), "New")
  BY DEF replacement
<1>3. id \in Optional(Ids)
  BY BookAssumption DEF Keyed, Order, Optional, Report
<1> HIDE DEF id, new
<1>4. CASE id = None
  <2>1. set_status(new, "New").ClOrdID = k
    BY <1>1 DEF set_status, Keyed, Order, Fields
  <2> QED
    BY <1>2, <1>4, <2>1
<1>5. CASE id # None
  <2> DEFINE r == rename(new, id)
  <2>1. r.OrigClOrdID = k /\ r \in Order
    BY <1>1, <1>3, <1>5, RenameKeyed DEF rename, Keyed, Order, Optional
  <2> HIDE DEF r
  <2>2. set_status(r, "New").OrigClOrdID = k
    BY <2>1 DEF set_status, Order
  <2> QED
    BY <1>2, <1>5, <2>2 DEF r
<1> QED
  BY <1>4, <1>5

(* What replaced another order has always done so.                         *)
KeepsMarks == \A k \in DOMAIN orders : story'[k].replaces = story[k].replaces

LEMMA MarkKept ==
    ASSUME NEW h \in Story, NEW status
    PROVE  /\ Requested(h).replaces = h.replaces
           /\ CutShort(h).replaces = h.replaces
           /\ Rejected(h).replaces = h.replaces
           /\ HasReported(h, status).replaces = h.replaces
           /\ NewStory(h.replaces, status).replaces = h.replaces
<1>1. ASSUME NEW a, NEW b, NEW c
      PROVE  /\ [h EXCEPT !.open = a, !.crossed = b].replaces = h.replaces
             /\ [h EXCEPT !.crossed = b].replaces = h.replaces
             /\ [h EXCEPT !.open = a, !.status = c].replaces = h.replaces
             /\ [h EXCEPT !.crossed = b, !.status = c].replaces = h.replaces
  BY DEF Story
<1>2. /\ Requested(h).replaces = h.replaces
      /\ CutShort(h).replaces = h.replaces
      /\ Rejected(h).replaces = h.replaces
  BY <1>1, Zenon DEF Requested, CutShort, Rejected
<1>3. HasReported(h, status).replaces = h.replaces
  BY <1>1, Zenon DEF HasReported
<1>4. NewStory(h.replaces, status).replaces = h.replaces
  BY DEF NewStory
<1> QED
  BY <1>2, <1>3, <1>4

LEMMA MarksKeptByChange ==
    ASSUME StoriesTold, NEW k \in DOMAIN orders, NEW h, h.replaces = story[k].replaces,
           NEW x, NEW g,
           \/ story' = [story EXCEPT ![k] = h]
           \/ x \notin DOMAIN orders /\ story' = With([story EXCEPT ![k] = h], x, g)
    PROVE  KeepsMarks
<1> SUFFICES ASSUME NEW y \in DOMAIN orders PROVE story'[y].replaces = story[y].replaces
  BY DEF KeepsMarks
<1>1. story \in [DOMAIN orders -> Story]
  BY DEF StoriesTold, ToldOf
<1>2. story'[y] = IF y = k THEN h ELSE story[y]
  BY <1>1 DEF With
<1> QED
  BY <1>2

LEMMA StepKeepsMarks ==
    ASSUME StoriesTold, [Next]_vars
    PROVE  clear \/ KeepsMarks
<1>1. ASSUME story' = story PROVE KeepsMarks
  BY <1>1 DEF KeepsMarks
<1>2. \A k \in DOMAIN orders : story[k] \in Story
  BY DEF StoriesTold, ToldOf
<1>3. ASSUME NEW id \in Optional(Ids), NEW original \in Optional(Ids), NEW terms \in Terms,
             process_order_single(id, original, terms)
      PROVE  KeepsMarks
  <2>1. CASE /\ id \notin DOMAIN orders
             /\ story' = With(story, id, NewStory(FALSE, None))
    <3>1. DOMAIN story = DOMAIN orders
      BY DEF StoriesTold, ToldOf
    <3> QED
      BY <2>1, <3>1 DEF With, KeepsMarks
  <2> QED
    BY <1>1, <1>3, <2>1 DEF process_order_single, Return, Known
<1>4. ASSUME NEW k, NEW id, NEW terms,
             \/ process_order_cancel_request(k, terms)
             \/ process_order_cancel_replace_request(k, id, terms)
             \/ process_order_cancel_reject(k)
      PROVE  KeepsMarks
  <2>1. CASE ForUnknown(k)
    BY <1>1, <2>1 DEF ForUnknown
  <2>2. CASE ~ForUnknown(k)
    <3>1. k \in DOMAIN orders
      BY <1>4, <2>2 DEF Known, process_order_cancel_request,
         process_order_cancel_replace_request, process_order_cancel_reject
    <3>2. \/ story' = [story EXCEPT ![k] = Requested(story[k])]
          \/ story' = [story EXCEPT ![k] = CutShort(story[k])]
          \/ story' = [story EXCEPT ![k] = Rejected(story[k])]
      BY <1>4, <2>2, Zenon DEF process_order_cancel_request,
         process_order_cancel_replace_request, process_order_cancel_reject, Return
    <3> QED
      BY <1>2, <3>1, <3>2, MarkKept, MarksKeptByChange, Zenon
  <2> QED
    BY <2>1, <2>2
<1>5. ASSUME NEW report \in Reports, process_execution_report(report)
      PROVE  KeepsMarks
  <2> DEFINE k == key(report)
             new == replacement(orders[k], report)
             h == story[k]
  <2>1. CASE ForUnknown(k)
    BY <1>1, <2>1 DEF ForUnknown
  <2>2. ASSUME Known(k), try_emplace(k, new) PROVE KeepsMarks
    <3> DEFINE status == orders'[k].fields.OrdStatus
    <3>1. k \in DOMAIN orders /\ NewStory(h.replaces, status).replaces = h.replaces
      BY <1>2, <2>2, MarkKept, Zenon DEF Known
    <3>2. \/ story' = [story EXCEPT ![k] = NewStory(h.replaces, status)]
          \/ /\ new.ClOrdID \notin DOMAIN orders
             /\ story' = With([story EXCEPT ![k] = NewStory(h.replaces, status)],
                              new.ClOrdID, NewStory(TRUE, new.fields.OrdStatus))
      BY <2>2, Zenon DEF try_emplace, Return, Known
    <3> HIDE DEF k, new, status
    <3> QED
      BY <3>1, <3>2, MarksKeptByChange, Zenon
  <2>3. ASSUME Known(k), story' = [story EXCEPT ![k] = HasReported(@, report.OrdStatus)]
        PROVE  KeepsMarks
    <3>1. k \in DOMAIN orders /\ HasReported(h, report.OrdStatus).replaces = h.replaces
      BY <1>2, <2>3, MarkKept, Zenon DEF Known
    <3> HIDE DEF k
    <3> QED
      BY <2>3, <3>1, MarksKeptByChange, Zenon
  <2> QED
    BY <1>5, <2>1, <2>2, <2>3, Zenon DEF process_execution_report, Return
<1>6. CASE process_unsupported \/ UNCHANGED vars
  BY <1>1, <1>6 DEF process_unsupported, vars
<1> QED
  BY <1>3, <1>4, <1>5, <1>6 DEF Next

(* A book with one order more, whose original is in the book if it is a    *)
(* replacement.                                                            *)
AddsOne ==
    \E x \in Ids \ DOMAIN orders :
        /\ DOMAIN orders' = DOMAIN orders \cup {x}
        /\ story'[x].replaces => orders'[x].OrigClOrdID \in DOMAIN orders

(* A step adds at most one order.                                          *)
LEMMA StepAddsOne ==
    ASSUME Inv, StoriesTold, [Next]_vars
    PROVE  clear \/ DOMAIN orders' = DOMAIN orders \/ AddsOne
<1>1. ASSUME NEW id \in Optional(Ids), NEW original \in Optional(Ids), NEW terms \in Terms,
             process_order_single(id, original, terms)
      PROVE  DOMAIN orders' = DOMAIN orders \/ AddsOne
  <2>1. CASE /\ id \in Ids \ DOMAIN orders
             /\ orders' = With(orders, id, order(id, original, terms))
             /\ story' = With(story, id, NewStory(FALSE, None))
    <3>1. DOMAIN orders' = DOMAIN orders \cup {id} /\ story'[id] = NewStory(FALSE, None)
      BY <2>1 DEF With
    <3>2. ~NewStory(FALSE, None).replaces
      BY DEF NewStory
    <3> QED
      BY <2>1, <3>1, <3>2, Zenon DEF AddsOne
  <2> QED
    BY <1>1, <2>1 DEF process_order_single, Return, Known, Optional
<1>2. ASSUME NEW k \in Optional(Ids), NEW id, NEW terms,
             \/ process_order_cancel_request(k, terms)
             \/ process_order_cancel_replace_request(k, id, terms)
             \/ process_order_cancel_reject(k)
      PROVE  DOMAIN orders' = DOMAIN orders
  BY <1>2 DEF process_order_cancel_request, process_order_cancel_replace_request,
     process_order_cancel_reject, Return, ForUnknown
<1>3. ASSUME NEW report \in Reports, process_execution_report(report)
      PROVE  DOMAIN orders' = DOMAIN orders \/ AddsOne
  <2> DEFINE k == key(report)
             o == orders[k]
             new == replacement(o, report)
             book == [orders EXCEPT ![k] = replaced(o)]
  <2>1. CASE /\ Known(k) /\ new.ClOrdID \notin DOMAIN orders
             /\ orders' = With(book, new.ClOrdID, new)
    <3>1. k \in DOMAIN orders /\ k \in Ids /\ Keyed(o, k)
      BY <2>1 DEF Known, Inv
    <3>2. new.ClOrdID \in Ids
      BY <3>1, ReplacementKeyed
    <3>3. new.OrigClOrdID = k
      BY <2>1, <3>1, ReplacementLinked
    <3>4. DOMAIN book = DOMAIN orders
      OBVIOUS
    <3> HIDE DEF new, book
    <3>5. orders'[new.ClOrdID] = new /\ DOMAIN orders' = DOMAIN orders \cup {new.ClOrdID}
      BY <2>1, <3>4 DEF With
    <3> QED
      BY <2>1, <3>1, <3>2, <3>3, <3>5 DEF AddsOne
  <2>2. \/ DOMAIN orders' = DOMAIN orders
        \/ /\ Known(k) /\ new.ClOrdID \notin DOMAIN orders
           /\ orders' = With(book, new.ClOrdID, new)
    BY <1>3 DEF process_execution_report, ForUnknown, try_emplace, Return, Known
  <2> QED
    BY <2>1, <2>2
<1>4. CASE process_unsupported \/ UNCHANGED vars
  BY <1>4 DEF process_unsupported, vars
<1> QED
  BY <1>1, <1>2, <1>3, <1>4 DEF Next

(* From a replacement OrigClOrdID leads to an order that is in the book,   *)
(* and by however many replacements to one entered by a NewOrderSingle: a  *)
(* replacement replaces an order that was there before it, and no order    *)
(* changes what it has replaced.                                           *)
THEOREM ReplacementChainsDoEnd == Spec => []ReplacementChainsEnd
<1>1. Init => ReplacementChainsEnd
  BY DEF Init, ReplacementChainsEnd, Replacements
<1>2. Inv /\ Told /\ ReplacementChainsEnd /\ [Next]_vars => ReplacementChainsEnd'
  <2> SUFFICES ASSUME Inv, StoriesTold, ReplacementChainsEnd, [Next]_vars
               PROVE  ReplacementChainsEnd'
    BY DEF Told
  <2> DEFINE D == DOMAIN orders
             E == DOMAIN orders'
             R == Replacements
             S == Replacements'
  <2>1. CASE clear
    BY <2>1 DEF clear, ReplacementChainsEnd, Replacements
  <2>2. CASE ~clear
    <3>1. \A k \in D : k \in E /\ orders'[k].OrigClOrdID = orders[k].OrigClOrdID
      BY <2>2, StepKeepsOrders DEF KeepsOrders, Same
    <3>2. \A k \in D : k \in S <=> k \in R
      BY <2>2, <3>1, StepKeepsMarks DEF KeepsMarks, Replacements
    <3>3. S \subseteq E /\ R \subseteq D
      BY DEF Replacements
    <3>4. /\ \A k \in R : orders[k].OrigClOrdID \in D
          /\ \A some \in SUBSET R :
                some # {} => \E k \in some : orders[k].OrigClOrdID \notin some
      BY DEF ReplacementChainsEnd
    <3>5. ASSUME NEW x, x \notin D, S \subseteq R \cup {x},
                 x \in S => orders'[x].OrigClOrdID \in D
          PROVE  ReplacementChainsEnd'
      <4> HIDE DEF R, S
      <4>1. \A k \in R : k \in D /\ orders'[k].OrigClOrdID = orders[k].OrigClOrdID
        BY <3>1, <3>3
      <4>2. \A k \in S : orders'[k].OrigClOrdID \in D
        BY <3>4, <3>5, <4>1
      <4>3. ASSUME NEW some \in SUBSET S, some # {}
            PROVE  \E k \in some : orders'[k].OrigClOrdID \notin some
        <5>1. CASE some \ {x} = {}
          BY <3>5, <4>2, <4>3, <5>1
        <5>2. CASE some \ {x} # {}
          <6>1. some \ {x} \in SUBSET R
            BY <3>5
          <6>2. PICK k \in some \ {x} : orders[k].OrigClOrdID \notin some \ {x}
            BY <3>4, <5>2, <6>1
          <6>3. orders'[k].OrigClOrdID = orders[k].OrigClOrdID /\ orders[k].OrigClOrdID # x
            BY <3>4, <3>5, <4>1, <6>1, <6>2
          <6> QED
            BY <6>2, <6>3
        <5> QED
          BY <5>1, <5>2
      <4>4. \A k \in S : orders'[k].OrigClOrdID \in E
        BY <3>1, <4>2
      <4> QED
        BY <4>3, <4>4 DEF ReplacementChainsEnd, S
    <3>6. CASE E = D
      <4> HIDE DEF R, S
      <4>1. S \subseteq R
        BY <3>2, <3>3, <3>6
      <4>2. None \notin D
        BY BookAssumption DEF Inv
      <4> QED
        BY <3>3, <3>5, <3>6, <4>1, <4>2
    <3>7. CASE AddsOne
      <4>1. PICK x \in Ids \ D :
                /\ E = D \cup {x}
                /\ story'[x].replaces => orders'[x].OrigClOrdID \in D
        BY <3>7 DEF AddsOne
      <4>2. x \in S => story'[x].replaces
        BY DEF Replacements
      <4>3. x \in S => orders'[x].OrigClOrdID \in D
        BY <4>1, <4>2, Zenon
      <4>4. x \notin D /\ E = D \cup {x}
        BY <4>1, Zenon
      <4> HIDE DEF R, S
      <4>5. S \subseteq R \cup {x}
        BY <3>2, <3>3, <4>4
      <4> QED
        BY <3>5, <4>3, <4>4, <4>5, Zenon
    <3> QED
      BY <2>2, <3>6, <3>7, StepAddsOne
  <2> QED
    BY <2>1, <2>2
<1> QED
  BY <1>1, <1>2, InvariantHolds, HistoryHolds, PTL DEF Spec
=============================================================================

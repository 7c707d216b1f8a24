----------------------------- MODULE OrderBook -----------------------------
(***************************************************************************)
(* order and order_book: orders by key, changed by the messages of a       *)
(* client (new orders, requests to cancel or replace) and of its broker    *)
(* (execution reports, rejections), in any order.                          *)
(*                                                                         *)
(* All messages belong to one pair of CompIDs, so that a key is a ClOrdID. *)
(* Of the fields that are not part of the identity OrdStatus is kept by    *)
(* name and the others, price, quantity and so on, are one value: terms.   *)
(***************************************************************************)
EXTENDS Naturals, Sequences, FiniteSets

CONSTANTS
    Ids,            \* ClOrdIDs
    Terms,          \* what an order asks for
    None,           \* an empty optional, or a field that is not there
    Reports,        \* the execution reports the broker may send
    MaxMessages     \* bound on the messages processed

Reported == {"New", "PartiallyFilled", "Filled", "Canceled"}
Pending == {"PendingCancel", "PendingReplace"}
Statuses == Reported \union Pending \union {"Replaced"}

Optional(S) == S \union {None}

(* A report may lack any of its fields, and its ExecType need not go with  *)
(* its OrdStatus.  "Trade" stands for every ExecType but Replaced.         *)
Report == [ClOrdID : Optional(Ids), OrigClOrdID : Optional(Ids), terms : Optional(Terms),
           ExecType : Optional({"Replaced", "Trade"}), OrdStatus : Optional(Statuses)]

ASSUME BookAssumption ==
    /\ None \notin Ids
    /\ None \notin Terms
    /\ None \notin Statuses
    /\ Reports \subseteq Report
    /\ MaxMessages \in Nat

VARIABLES
    orders,         \* m_orders
    result,         \* of process: "ok", "error", or "throws"
    processed,      \* the number of messages processed
    story           \* history: what has become of the requests for an order

vars == <<orders, result, processed, story>>

(* m_fields: an order always has its ClOrdID and its terms.                *)
Fields == [ClOrdID : Ids, OrigClOrdID : Optional(Ids),
           OrdStatus : Optional(Statuses), terms : Terms]

(* pending is m_pending_fields, which identity fields never enter, and in  *)
(* which a request has no OrdStatus.                                       *)
Order == [ClOrdID : Ids, OrigClOrdID : Optional(Ids),
          PreviousOrdStatus : Optional(Statuses), NewClOrdID : Optional(Ids),
          fields : Fields, pending : Optional(Terms), messages : Nat]

-----------------------------------------------------------------------------
(* order.                                                                  *)

(* Constructed from a NewOrderSingle, which has no OrdStatus.  An          *)
(* OrigClOrdID it may have is taken as it is, whatever it names.           *)
order(id, original, terms) ==
    [ClOrdID |-> id, OrigClOrdID |-> original,
     PreviousOrdStatus |-> None, NewClOrdID |-> None,
     fields |-> [ClOrdID |-> id, OrigClOrdID |-> original, OrdStatus |-> None,
                 terms |-> terms],
     pending |-> None, messages |-> 1]

(* replace_first: a field that is not there is not set.                    *)
set_status(o, status) ==
    IF o.fields.OrdStatus = None THEN o ELSE [o EXCEPT !.fields.OrdStatus = status]

(* Mutant: a report also replaces the identity fields of the order.        *)
UpdateIdentity(o, report) ==
    [o EXCEPT !.fields.ClOrdID = report.ClOrdID,
              !.fields.OrdStatus = report.OrdStatus]

(* replace_first_or_append of every field of a report that is not identity.*)
update_fields(o, report) ==
    [o EXCEPT !.fields.OrdStatus = IF report.OrdStatus = None THEN @ ELSE report.OrdStatus,
              !.fields.terms = IF report.terms = None THEN @ ELSE report.terms]

update_with_report(o, report) ==
    [update_fields(o, report) EXCEPT !.messages = @ + 1]

(* OrderCancelReplaceRequest and OrderCancelRequest.                       *)
update_pending(o, terms) ==
    [o EXCEPT !.pending = IF terms = None THEN @ ELSE terms,
              !.PreviousOrdStatus = o.fields.OrdStatus,
              !.messages = @ + 1]

update_with_replace_request(o, id, terms) ==
    set_status([update_pending(o, terms) EXCEPT !.NewClOrdID = id], "PendingReplace")

(* Without a ClOrdID the request throws half way through the update.       *)
update_cut_short(o) ==
    [o EXCEPT !.PreviousOrdStatus = o.fields.OrdStatus, !.messages = @ + 1]

update_with_cancel_request(o, terms) ==
    set_status(update_pending(o, terms), "PendingCancel")

(* Mutant: commit takes the terms although none are pending.               *)
CommitBlindly(o) == [o EXCEPT !.fields.terms = o.pending, !.pending = None]

commit(o) ==
    [o EXCEPT !.fields.terms = IF o.pending = None THEN @ ELSE o.pending,
              !.pending = None]

(* Mutant: the pending fields survive the rejection.                       *)
RollbackStatusOnly(o) ==
    IF o.PreviousOrdStatus = None THEN o
    ELSE [set_status(o, o.PreviousOrdStatus) EXCEPT !.PreviousOrdStatus = None]

rollback(o) ==
    LET cleared == [o EXCEPT !.pending = None]
    IN  IF o.PreviousOrdStatus = None THEN cleared
        ELSE [set_status(cleared, o.PreviousOrdStatus) EXCEPT !.PreviousOrdStatus = None]

(* Mutant: mClOrdID is assigned before mOrigClOrdID is taken from it.      *)
RenameThenLink(o, id) ==
    [o EXCEPT !.fields.ClOrdID = id, !.fields.OrigClOrdID = o.ClOrdID,
              !.ClOrdID = id, !.OrigClOrdID = id]

(* The replacement gets the new id, and the old one as its original.       *)
rename(o, id) ==
    [o EXCEPT !.fields.ClOrdID = id, !.fields.OrigClOrdID = o.ClOrdID,
              !.ClOrdID = id, !.OrigClOrdID = o.ClOrdID]

(* replace: the order that takes the place of o.  The ClOrdID of the last  *)
(* request counts, else that of the report, if it has one.                 *)
replacement(o, report) ==
    LET id  == IF o.NewClOrdID = None THEN report.ClOrdID ELSE o.NewClOrdID
        new == commit(update_with_report(o, report))
    IN  set_status(IF id = None THEN new ELSE rename(new, id), "New")

(* replace: what becomes of o itself.                                      *)
replaced(o) ==
    [set_status(rollback(o), "Replaced") EXCEPT !.messages = @ + 1]

-----------------------------------------------------------------------------
(* History of an order: whether it came by a replacement; whether a        *)
(* request is open, the status it would go back to, and whether the        *)
(* exchange was out of the ordinary: a request before the first report or  *)
(* while another one is open, a report that crosses a request, a rejection *)
(* of nothing, anything after a cancellation.                              *)
Story == [replaces : BOOLEAN, open : BOOLEAN, crossed : BOOLEAN,
          status : Optional(Statuses)]

NewStory(replaces, status) ==
    [replaces |-> replaces, open |-> FALSE, crossed |-> FALSE, status |-> status]

Requested(h) ==
    [h EXCEPT !.open = TRUE,
              !.crossed = @ \/ h.open \/ h.status \in {None, "Canceled"}]

HasReported(h, status) ==
    CASE status = None        -> h
      [] status \in Pending   -> [h EXCEPT !.crossed = @ \/ ~h.open]
      [] status = "Canceled"  -> [h EXCEPT !.open = FALSE, !.status = status]
      [] OTHER -> [h EXCEPT !.crossed = @ \/ h.open \/ h.status = "Canceled",
                            !.status = status]

CutShort(h) == [h EXCEPT !.crossed = TRUE]

Rejected(h) == [h EXCEPT !.open = FALSE, !.crossed = @ \/ ~h.open]

-----------------------------------------------------------------------------
(* order_book.                                                             *)

Init ==
    /\ orders = <<>>
    /\ result = "ok"
    /\ processed = 0
    /\ story = <<>>

Known(k) == k \in DOMAIN orders

Process == processed < MaxMessages /\ processed' = processed + 1

Fail == result' = "error"

Return(book, history) ==
    /\ result' = "ok"
    /\ orders' = book
    /\ story' = history

(* A map with one more key.                                                *)
With(f, k, v) == [x \in DOMAIN f \union {k} |-> IF x = k THEN v ELSE f[x]]

(* The exception of an order without ClOrdID is caught.                    *)
process_order_single(id, original, terms) ==
    /\ Process
    /\ IF id = None \/ Known(id) THEN Fail /\ UNCHANGED <<orders, story>>
       ELSE Return(With(orders, id, order(id, original, terms)),
                   With(story, id, NewStory(FALSE, None)))

(* key_for_message: OrigClOrdID if there is one.                           *)
key(m) == IF m.OrigClOrdID = None THEN m.ClOrdID ELSE m.OrigClOrdID

(* A message for an order the book does not know changes nothing, nor does *)
(* one without any id, whose exception is not caught.                      *)
ForUnknown(k) ==
    /\ ~Known(k)
    /\ result' = IF k = None THEN "throws" ELSE "error"
    /\ UNCHANGED <<orders, story>>

process_order_cancel_request(k, terms) ==
    /\ Process
    /\ \/ ForUnknown(k)
       \/ /\ Known(k)
          /\ Return([orders EXCEPT ![k] = update_with_cancel_request(@, terms)],
                    [story EXCEPT ![k] = Requested(@)])

process_order_cancel_replace_request(k, id, terms) ==
    /\ Process
    /\ \/ ForUnknown(k)
       \/ /\ Known(k) /\ id # None
          /\ Return([orders EXCEPT ![k] = update_with_replace_request(@, id, terms)],
                    [story EXCEPT ![k] = Requested(@)])
       \/ /\ Known(k) /\ id = None
          /\ result' = "throws"
          /\ orders' = [orders EXCEPT ![k] = update_cut_short(@)]
          /\ story' = [story EXCEPT ![k] = CutShort(@)]

process_order_cancel_reject(k) ==
    /\ Process
    /\ \/ ForUnknown(k)
       \/ /\ Known(k)
          /\ Return([orders EXCEPT ![k] = rollback(@)],
                    [story EXCEPT ![k] = Rejected(@)])

(* Mutant: insert_or_assign.                                               *)
EmplaceAnyway(k, new) ==
    Return(With([orders EXCEPT ![k] = replaced(@)], new.ClOrdID, new),
           With([story EXCEPT ![k] = NewStory(@.replaces, orders[k].fields.OrdStatus)],
                new.ClOrdID, NewStory(TRUE, new.fields.OrdStatus)))

(* try_emplace of the replacement; the original has changed already.       *)
try_emplace(k, new) ==
    IF Known(new.ClOrdID)
    THEN /\ Fail
         /\ orders' = [orders EXCEPT ![k] = replaced(@)]
         /\ story' = [story EXCEPT ![k] =
                          NewStory(@.replaces, orders'[k].fields.OrdStatus)]
    ELSE Return(With([orders EXCEPT ![k] = replaced(@)], new.ClOrdID, new),
                With([story EXCEPT ![k] =
                         NewStory(@.replaces, orders'[k].fields.OrdStatus)],
                     new.ClOrdID, NewStory(TRUE, new.fields.OrdStatus)))

process_execution_report(report) ==
    LET k == key(report) IN
    /\ Process
    /\ \/ ForUnknown(k)
       \/ /\ Known(k)
          /\ report.ExecType = "Replaced"
          /\ try_emplace(k, replacement(orders[k], report))
       \/ /\ Known(k)
          /\ report.ExecType # "Replaced"
          /\ Return([orders EXCEPT ![k] = update_with_report(@, report)],
                    [story EXCEPT ![k] = HasReported(@, report.OrdStatus)])

(* A message without MsgType or of another type.                           *)
process_unsupported == Process /\ Fail /\ UNCHANGED <<orders, story>>

clear ==
    /\ orders' = <<>>
    /\ story' = <<>>
    /\ UNCHANGED <<result, processed>>

Next ==
    \/ \E id, original \in Optional(Ids), terms \in Terms :
            process_order_single(id, original, terms)
    \/ \E k \in Optional(Ids), terms \in Optional(Terms) :
            process_order_cancel_request(k, terms)
    \/ \E k, id \in Optional(Ids), terms \in Terms :
            process_order_cancel_replace_request(k, id, terms)
    \/ \E k \in Optional(Ids) : process_order_cancel_reject(k)
    \/ \E report \in Reports : process_execution_report(report)
    \/ process_unsupported
    \/ clear

Spec == Init /\ [][Next]_vars

-----------------------------------------------------------------------------
TypeOK ==
    /\ \E known \in SUBSET Ids : orders \in [known -> Order] /\ story \in [known -> Story]
    /\ result \in {"ok", "error", "throws"}
    /\ processed \in Nat

(* Every order is found under its own id, and its fields say the same id:  *)
(* neither reports, which carry ids of requests, nor the renaming of a     *)
(* replacement take the book, the order and its fields apart.              *)
BookIsKeyed ==
    \A k \in DOMAIN orders :
        /\ orders[k].ClOrdID = k
        /\ orders[k].fields.ClOrdID = k
        /\ orders[k].fields.OrigClOrdID = orders[k].OrigClOrdID

Replacements == {k \in DOMAIN orders : story[k].replaces}

(* From an order that came by a replacement one comes to the order it      *)
(* replaced, which is still in the book, and in the end to one that was    *)
(* entered by a NewOrderSingle, whatever ids requests and reports have     *)
(* named: no replacements have replaced only one another.  (What the       *)
(* OrigClOrdID of a NewOrderSingle names is its sender's affair: it may be *)
(* an id the book does not know, or the order's own.)                      *)
ReplacementChainsEnd ==
    /\ \A k \in Replacements : orders[k].OrigClOrdID \in DOMAIN orders
    /\ \A some \in SUBSET Replacements :
          some # {} => \E k \in some : orders[k].OrigClOrdID \notin some

(* Whether process succeeds or fails, no order is lost, overwritten by     *)
(* another one or relieved of its messages.  What it asks for changes only *)
(* by an ordinary report that names it and says so: what a request asks    *)
(* for is never in the order itself, be the request open, rejected or      *)
(* carried out, when it is in the replacement.                             *)
NothingOverwritten ==
    [][~clear =>
        \A k \in DOMAIN orders :
            /\ k \in DOMAIN orders'
            /\ orders'[k].messages >= orders[k].messages
            /\ orders'[k].OrigClOrdID = orders[k].OrigClOrdID
            /\ orders'[k].fields.terms # orders[k].fields.terms =>
                  \E report \in Reports :
                      /\ key(report) = k /\ report.ExecType # "Replaced"
                      /\ report.terms = orders'[k].fields.terms
                      /\ process_execution_report(report)]_vars

(* A request that was rejected has left no trace: the order is back at the *)
(* status it had and nothing is pending that a later replacement would     *)
(* commit.  Reports that cross the request are another matter.             *)
RejectionLeavesNoTrace ==
    \A k \in DOMAIN orders :
        LET h == story[k] IN
        ~h.open /\ ~h.crossed =>
            /\ orders[k].fields.OrdStatus = h.status
            /\ h.status # "Canceled" => orders[k].pending = None
=============================================================================

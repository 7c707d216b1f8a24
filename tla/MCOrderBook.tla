---------------------------- MODULE MCOrderBook ----------------------------
(* Ids are interchangeable, and so are terms.                              *)
EXTENDS OrderBook, TLC

Symmetry == Permutations(Ids) \union Permutations(Terms)

(* Reports with one status of each kind HasReported tells apart.  Besides  *)
(* an OrigClOrdID the ClOrdID matters only if the order is replaced.       *)
MCReports ==
    {r \in Report :
        /\ r.OrdStatus \in {None, "New", "Canceled", "PendingReplace", "Replaced"}
        /\ r.OrigClOrdID # None /\ r.ClOrdID # None => r.ExecType = "Replaced"}
=============================================================================

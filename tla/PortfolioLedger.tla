--------------------------- MODULE PortfolioLedger ----------------------------
(***************************************************************************)
(* What the virtual sleeve account promises of holdings, without saying    *)
(* how: a book of holdings that moves only when an entry is posted under   *)
(* an id that was never posted before, and that never goes short.  One     *)
(* operation may post two entries at once (a raw fill split over sleeves). *)
(***************************************************************************)
EXTENDS Integers

CONSTANTS Accounts, Assets, Ids, Entries

VARIABLES
  book,     \* [Accounts -> [Assets -> Nat]]
  posted    \* id -> entry, for the ids posted so far

ledger == <<book, posted>>

Delta(e) == IF e.side = "buy" THEN e.quantity ELSE -e.quantity

Covered(b, e) == b[e.sleeve][e.symbol] + Delta(e) >= 0

Moved(b, e) == [b EXCEPT ![e.sleeve][e.symbol] = @ + Delta(e)]

With(p, i, e) == [k \in DOMAIN p \cup {i} |-> IF k = i THEN e ELSE p[k]]

Init == /\ book = [a \in Accounts |-> [y \in Assets |-> 0]]
        /\ posted = [i \in {} |-> i]

Fresh == Ids \ DOMAIN posted

Post(i, e) ==
  /\ e \in Entries
  /\ Covered(book, e)
  /\ posted' = With(posted, i, e)
  /\ book' = Moved(book, e)

PostTwo(i, e, j, f) ==
  /\ i # j
  /\ {e, f} \subseteq Entries
  /\ Covered(book, e)
  /\ Covered(Moved(book, e), f)
  /\ posted' = With(With(posted, i, e), j, f)
  /\ book' = Moved(Moved(book, e), f)

\* The entries of a step are the ones posted' has under the new ids.
Next == \E i, j \in Fresh \cap DOMAIN posted' :
          \/ Post(i, posted'[i])
          \/ PostTwo(i, posted'[i], j, posted'[j])

Spec == Init /\ [][Next]_ledger
===============================================================================

------------------------------- MODULE Reports -------------------------------
(***************************************************************************)
(* Reports, cash cuts and the sales matrix: what each of them makes of the *)
(* sales it has read.  Nothing is stored: every total is computed from a   *)
(* set of rows                                                             *)
(*   [id, seller, state, date, config, total, items, won, paid]            *)
(* where `won` is the winning number of the sale's shift, or NoNumber, and *)
(* amounts are integers (hundredths of a thousand), so that the roundings  *)
(* of addMoney are exact and only an average rounds.                       *)
(***************************************************************************)
EXTENDS Integers, Sequences, FiniteSetsExt

CONSTANT NoNumber

\* The sum of the values of a function.
Total(f) == MapThenSumSet(LAMBDA x : f[x], DOMAIN f)
Sold(S) == Total([x \in S |-> x.total])
Paid(S) == Total([x \in S |-> x.paid])

NotBelowZero(n) == IF n < 0 THEN 0 ELSE n

\* averageMoney: half a hundredth rounds up.
Average(total, count) == IF count <= 0 THEN 0 ELSE (2 * total + count) \div (2 * count)

Active(S) == {x \in S : x.state = "ACTIVA"}
Voided(S) == {x \in S : x.state = "ANULADA"}

ItemsOf(x, n) == {i \in DOMAIN x.items : x.items[i].number = n}
Amount(x, n) == Total([i \in ItemsOf(x, n) |-> x.items[i].miles])

\* Mutant: a voided sale still wins.
WinningPrizeOfAny(x) == IF x.won = NoNumber THEN 0 ELSE Amount(x, x.won)

WinningPrize(x) ==
  IF x.state # "ACTIVA" \/ x.won = NoNumber THEN 0 ELSE Amount(x, x.won)

\* The rows a query asks for: a range of dates, and perhaps one seller or draw.
Matches(x, query) ==
  /\ x.date \in query.from .. query.until
  /\ query.seller \in {NoNumber, x.seller}
  /\ query.config \in {NoNumber, x.config}

\* What each actor may ask for: a seller, only for the own sales.
Scoped(query) ==
  IF query.actor = NoNumber THEN query ELSE [query EXCEPT !.seller = query.actor]

(***************************************************************************)
(* Overview and sellers.                                                   *)
(***************************************************************************)
SumSales(S) ==
  LET won  == Total([x \in S |-> WinningPrize(x)])
      paid == Paid(S)
      net  == Sold(Active(S))
  IN  [sales |-> Cardinality(S), active |-> Cardinality(Active(S)),
       voided |-> Cardinality(Voided(S)),
       gross |-> Sold(S), lost |-> Sold(Voided(S)), net |-> net, winning |-> won, paid |-> paid,
       pending |-> NotBelowZero(won - paid), balance |-> net - paid]

SellersOf(S) == {x.seller : x \in S}
SalesOf(S, seller) == {x \in S : x.seller = seller}

\* Mutant: only the active sales of a seller are added.
ReportOfActive(S, seller) ==
  [field \in DOMAIN SumSales({}) |->
     Total([x \in SalesOf(Active(S), seller) |-> SumSales({x})[field]])]

\* One entry per seller: the sum, field by field, of the totals of each sale.
SellerReport(S, seller) ==
  [field \in DOMAIN SumSales({}) |->
     Total([x \in SalesOf(S, seller) |-> SumSales({x})[field]])]

(***************************************************************************)
(* Analytics.                                                              *)
(***************************************************************************)
NumbersOf(S) == UNION {{x.items[i].number : i \in DOMAIN x.items} : x \in Active(S)}

NumberKpi(S, n) ==
  LET with == {x \in Active(S) : ItemsOf(x, n) # {}}
      tickets == Total([x \in with |-> Cardinality(ItemsOf(x, n))])
      net == Total([x \in with |-> Amount(x, n)])
  IN  [tickets |-> tickets, sellers |-> Cardinality(SellersOf(with)), net |-> net,
       average |-> Average(net, tickets)]

DatesOf(S) == {x.date : x \in S}

\* The ticket average of a day divides by all its sales, the voided ones too.
DayKpi(S, date) ==
  LET day == {x \in S : x.date = date}
      net == Sold(Active(day))
  IN  [sales |-> Cardinality(day), sellers |-> Cardinality(SellersOf(day)), net |-> net,
       gross |-> Sold(day), average |-> Average(net, Cardinality(day))]

NumbersSold(S) == Total([x \in Active(S) |-> Len(x.items)])

(***************************************************************************)
(* Cash cuts.                                                              *)
(***************************************************************************)
CutFields == {"active", "voided", "gross", "lost", "net", "paid", "balance"}

\* Mutant: only the prizes of active sales count as paid.
CutOfActive(S, seller) ==
  LET own == SalesOf(S, seller)
      net == Sold(Active(own))
      paid == Paid(Active(own))
  IN  [active |-> Cardinality(Active(own)), voided |-> Cardinality(Voided(own)),
       gross |-> Sold(own), lost |-> Sold(Voided(own)), net |-> net, paid |-> paid, balance |-> net - paid]

CutSeller(S, seller) ==
  LET own == SalesOf(S, seller)
      net == Sold(Active(own))
      paid == Paid(own)
  IN  [active |-> Cardinality(Active(own)), voided |-> Cardinality(Voided(own)),
       gross |-> Sold(own), lost |-> Sold(Voided(own)), net |-> net, paid |-> paid, balance |-> net - paid]

CutTotals(S) ==
  [field \in CutFields |-> Total([s \in SellersOf(S) |-> CutSeller(S, s)[field]])]

(***************************************************************************)
(* The matrix: one cell per number, over the sales of a state.             *)
(***************************************************************************)
OfState(S, state) == IF state = "TODAS" THEN S ELSE {x \in S : x.state = state}

MatrixCell(S, n) ==
  LET with == {x \in S : ItemsOf(x, n) # {}}
  IN  [amount |-> Total([x \in with |-> Amount(x, n)]), sales |-> Cardinality(with),
       items |-> Total([x \in with |-> Cardinality(ItemsOf(x, n))])]

MatrixSummary(S, numbers) ==
  [total |-> Total([n \in numbers |-> MatrixCell(S, n).amount]),
   sales |-> Cardinality({x \in S : x.items # <<>>}),
   items |-> Total([n \in numbers |-> MatrixCell(S, n).items]),
   sold |-> Cardinality({n \in numbers : MatrixCell(S, n).amount > 0})]

(***************************************************************************)
(* Lists of sales, winners and payments; the summary of a result.          *)
(***************************************************************************)
ListedSales(S, state, n) == {x \in OfState(S, state) : ItemsOf(x, n) # {}}

WinningSales(S, n, paid) == {x \in ListedSales(S, "ACTIVA", n) : (x.paid > 0) \in paid}

ListedPayments(S) == {x \in S : x.paid > 0}

\* Winners are counted among the active sales, payments among all of them.
WinnerSummary(S, n) ==
  LET won   == WinningSales(S, n, BOOLEAN)
      prize == Total([x \in won |-> Amount(x, n)])
      paid  == Paid(ListedPayments(S))
  IN  [sales |-> Cardinality(won), prize |-> prize, paid |-> paid,
       pendingSales |-> NotBelowZero(Cardinality(won) - Cardinality(ListedPayments(S))),
       pending |-> NotBelowZero(prize - paid)]

(***************************************************************************)
(* Pages of a list.                                                        *)
(***************************************************************************)
TotalPages(total, limit) == (total + limit - 1) \div limit
=============================================================================

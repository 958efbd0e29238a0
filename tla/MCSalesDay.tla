------------------------------ MODULE MCSalesDay ------------------------------
(***************************************************************************)
(* Small sales days for TLC: a .cfg names the requests of each kind and    *)
(* chooses the limits and baskets of its question.                         *)
(***************************************************************************)
EXTENDS SalesDayClaims, SalesDayLedger, TLC

CONSTANTS Opening, Moving, Limiting, Editing, Blocking, Unblocking,
          Selling, Voiding, Drawing, Paying,
          Scenarios, \* sets of requests that may arrive in one behaviour
          Am, Pm     \* two draw configurations on one date: the 11 am and the 3 pm draw

MCRequests == Opening \cup Moving \cup Limiting \cup Editing \cup Blocking \cup Unblocking
                \cup Selling \cup Voiding \cup Drawing \cup Paying

MCKind ==
  [r \in MCRequests |->
     CASE r \in Opening    -> "openShifts"
       [] r \in Moving     -> "moveShift"
       [] r \in Limiting   -> "createLimits"
       [] r \in Editing    -> "editLimit"
       [] r \in Blocking   -> "blockNumbers"
       [] r \in Unblocking -> "unblockNumber"
       [] r \in Selling    -> "createSale"
       [] r \in Voiding    -> "voidSale"
       [] r \in Drawing    -> "createResult"
       [] r \in Paying     -> "payPrize"]

\* One run asks several questions: the requests of a behaviour are of one
\* scenario, an edit is of a limit that the scenario has created, and a sale is
\* of a shift that the scenario can have open.
Together == {r \in Requests : phase[r] # "idle"}
MCNext ==
  \/ \E scenario \in Scenarios : \E r \in scenario :
       /\ Together \subseteq scenario
       /\ Handle(r) \/ Finish(r) \/ Fault(r)
       /\ r \in Editing /\ cmd[r] # cmd'[r] => cmd'[r].limit \notin DOMAIN InitialLimits
       /\ r \in Selling /\ cmd[r] # cmd'[r] =>
            cmd'[r].shift \in StartsOpen \/ scenario \cap Opening # {}
  \/ (\A r \in Together : phase[r] \in Finished) /\ UNCHANGED vars

MCSpec == Init /\ [][MCNext]_vars

\* No arrival is forced, so the fairness of FairSpec stays.
MCFairSpec == MCSpec /\ \A r \in Requests : WF_vars(Proceed(r))

BothShifts == {Am, Pm}
AmOnly == {Am}
OneDate == [t \in BothShifts |-> 1]
OwnConfig == [t \in BothShifts |-> t]
OneTenant == [c \in BothShifts |-> "acme"]
Lists == {<<Am>>, <<Pm>>, <<Am, Pm>>}
AutoList == {<<Am, Pm>>}

Item(n, m) == [number |-> n, miles |-> m]
SingleBaskets == {<<Item(1, 1)>>}
CrossBaskets == {<<Item(1, 1), Item(2, 1)>>, <<Item(2, 1), Item(1, 1)>>}
MixedBaskets == {<<Item(1, 1)>>} \cup CrossBaskets

Limit(seller, config, number, miles) ==
  [tenant |-> "acme", seller |-> seller, config |-> config, number |-> number,
   miles |-> miles, from |-> 1, until |-> None]

\* Number 1 of the 11 am draw: 1 in all, but 2 for seller ana, who has her own.
DrawLimits == (<<"limite", 1>> :> Limit(None, Am, 1, 1)) @@ (<<"limite", 2>> :> Limit("ana", Am, 1, 2))
\* Number 1 of every draw of the date: 1 in all.
DateLimits == <<"limite", 1>> :> Limit(None, None, 1, 1)
NoRows == <<>>

Order(tenant, seller, numbers, from, until) ==
  [tenant |-> tenant, seller |-> seller, config |-> None, numbers |-> numbers,
   miles |-> 1, from |-> from, until |-> until]
\* Limits of number 1 over two days, for one seller or for all.
RangeOrders ==
  {Order("acme", seller, <<1>>, from, until) :
     seller \in {None, "ana"}, from \in {1, 2}, until \in {None, 2}}
\* New ends, a new start, and the expiry of today.
RangeEdits == {[until |-> None], [until |-> 2], [from |-> 1], [until |-> 1]}
\* Limits of both numbers, written in either order.
CrossOrders == {Order("acme", None, numbers, 1, None) : numbers \in {<<1, 2>>, <<2, 1>>}}

\* The same open-ended limit, asked for by two tenants.
TenantOrders == {Order(tenant, None, <<1>>, 1, None) : tenant \in {"acme", "lotto"}}

BlocksOf(numbers) ==
  {[scope |-> scope, numbers |-> numbers] : scope \in {OfDate("acme", 1), OfShift(Am), OfShift(Pm)}}
BlockBoth == BlocksOf(<<1, 2>>) \cup BlocksOf(<<2, 1>>)
\* Number 1 is blocked for the 11 am draw.
AmBlocked == <<"bloqueo", 1>> :> [scope |-> OfShift(Am), number |-> 1]

DaySymmetry == Permutations(Opening) \cup Permutations(Moving) \cup Permutations(Limiting)
                 \cup Permutations(Editing) \cup Permutations(Drawing) \cup Permutations(Paying)
RuleSymmetry == Permutations(Opening) \cup Permutations(Limiting) \cup Permutations(Selling \ Fallible)
DrawSymmetry == DaySymmetry \cup Permutations(BothShifts)
=============================================================================

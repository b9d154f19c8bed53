-------------------------- MODULE SyncEngineProofs --------------------------
(***************************************************************************)
(* Theorems of SyncEngine, for any sizes and bounds.                        *)
(*                                                                         *)
(* What the local picture should be is known only once every report has     *)
(* been handled, so the invariant follows the reports on their way: a view  *)
(* is what the reports up to some point have told of the exchange, and from  *)
(* the view that the local state matches the reports still to come lead to  *)
(* the exchange's own.                                                     *)
(***************************************************************************)
EXTENDS SyncEngine, SequenceTheorems, TLAPS

LEMMA Bounds == /\ MaxSize \in Nat \ {0} /\ MaxOrders \in Nat /\ MaxExecs \in Nat
                /\ MaxRestarts \in Nat /\ MaxRefusals \in Nat
BY BoundsAssumption

-----------------------------------------------------------------------------
(* Types.                                                                  *)
Works(n) == [id : 1 .. n, dir : Directions, left : Nat \ {0}, filled : Nat,
             reduceOnly : BOOLEAN, exec : 0 .. MaxExecs]
OrdersTo(n) == Works(n) \cup {NoOrder}

Statuses == {"NEW", "PARTIALLY_FILLED", "FILLED", "EXPIRED"}
PositionReports == [type : {"position"}, net : Int]
(* Only a bracket order's report, of which nothing is kept, has no id.      *)
OrderReports(n) ==
  {r \in [type : Statuses, id : 0 .. n, dir : Directions, filled : Nat,
          reduceOnly : BOOLEAN, meta : BOOLEAN] :
     r.id = 0 => r.type = "NEW" /\ ~ r.meta}
ReportsTo(n) == PositionReports \cup OrderReports(n)

(* At most one entry for each side.                                        *)
Pairs == {h \in Entries \X Entries : h[1].side # h[2].side}
Held == {<<>>} \cup {<<e>> : e \in Entries} \cup {<<h[1], h[2]>> : h \in Pairs}

ExchTypes ==
  /\ exch \in Int /\ placed \in 0 .. MaxOrders
  /\ order \in OrdersTo(placed) /\ opener \in OrdersTo(placed)
  /\ stream \in Seq(ReportsTo(placed))
LocalTypes ==
  /\ positions \in Held
  /\ reduceGuard \in [side : Directions \cup {0}, from : Nat, to : Nat]
  /\ reduceGuard.to <= reduceGuard.from
  /\ partials \subseteq 1 .. placed
  /\ botOpen \in BOOLEAN /\ recent \in BOOLEAN /\ manual \in {"no", "pending", "flagged"}
BracketTypes ==
  /\ brackets \subseteq 1 .. placed /\ tasks \subseteq [order : 1 .. placed, exec : 0 .. MaxExecs]
BotTypes == owner \in 0 .. MaxExecs /\ closing \in BOOLEAN /\ execs \in 0 .. MaxExecs
LinkTypes == link \in {"up", "down", "connecting"}

Types == ExchTypes /\ LocalTypes /\ BracketTypes /\ BotTypes /\ LinkTypes

-----------------------------------------------------------------------------
(* Signs, and lists of one entry.                                          *)
LEMMA Signs ==
  ASSUME NEW n \in Int
  PROVE  /\ Sign(n) \in {-1, 0, 1} /\ Size(n) \in Nat
         /\ n > 0 => Sign(n) = 1 /\ Size(n) = n
         /\ n < 0 => Sign(n) = -1 /\ Size(n) = - n
         /\ n = 0 => Sign(n) = 0 /\ Size(n) = 0
BY DEF Sign, Size

LEMMA Against ==
  ASSUME NEW n \in Int, NEW d \in Directions
  PROVE  /\ n * d < 0 <=> (IF d = 1 THEN n < 0 ELSE n > 0)
         /\ n * d > 0 <=> (IF d = 1 THEN n > 0 ELSE n < 0)
<1>1. d = 1 \/ d = -1
  BY DEF Directions
<1>2. CASE d = 1
  BY <1>2
<1>3. CASE d = -1
  BY <1>3
<1> QED BY <1>1, <1>2, <1>3

Steps(d, q) == IF d = 1 THEN q ELSE - q
LEMMA StepIsSigned ==
  ASSUME NEW d \in Directions, NEW q \in Int
  PROVE  d * q = Steps(d, q) /\ Steps(d, q) \in Int
<1>1. d = 1 \/ d = -1
  BY DEF Directions
<1>2. CASE d = 1
  BY <1>2 DEF Steps
<1>3. CASE d = -1
  BY <1>3 DEF Steps
<1> QED BY <1>1, <1>2, <1>3

LEMMA ListedIsHeld ==
  ASSUME NEW n \in Int
  PROVE  Listed(n) \in Held
<1>1. CASE n = 0
  BY <1>1 DEF Listed, Held
<1>2. CASE n # 0
  <2>1. [side |-> Sign(n), size |-> Size(n)] \in Entries
    BY <1>2, Signs DEF Entries, Directions
  <2> QED BY <1>2, <2>1 DEF Listed, Held
<1> QED BY <1>1, <1>2

(* ApplyEvent, entry by entry.                                             *)
LEMMA ApplyToNone ==
  ASSUME NEW side, NEW size \in Nat
  PROVE  ApplyEvent(<<>>, side, size) =
           IF size = 0 THEN <<>> ELSE <<[side |-> side, size |-> size]>>
BY DEF ApplyEvent

LEMMA ApplyToSame ==
  ASSUME NEW e \in Entries, NEW size \in Nat
  PROVE  ApplyEvent(<<e>>, e.side, size) =
           IF size = 0 THEN <<>> ELSE <<[side |-> e.side, size |-> size]>>
BY DEF ApplyEvent, Entries

LEMMA HeldCases ==
  ASSUME NEW h \in Held
  PROVE  \/ h = <<>>
         \/ \E e \in Entries : h = <<e>>
         \/ \E e \in Entries, f \in Entries : e.side # f.side /\ h = <<e, f>>
<1>1. CASE h \in {<<>>} \cup {<<e>> : e \in Entries}
  BY <1>1
<1>2. CASE h \in {<<p[1], p[2]>> : p \in Pairs}
  <2>1. PICK p \in Pairs : h = <<p[1], p[2]>>
    BY <1>2
  <2>2. p[1] \in Entries /\ p[2] \in Entries /\ p[1].side # p[2].side
    BY DEF Pairs
  <2> QED BY <2>1, <2>2
<1> QED BY <1>1, <1>2 DEF Held

LEMMA PairIsHeld ==
  ASSUME NEW e \in Entries, NEW f \in Entries, e.side # f.side
  PROVE  <<e, f>> \in Held
<1>1. PICK p : p = <<e, f>>
  OBVIOUS
<1>2. p \in Pairs /\ p[1] = e /\ p[2] = f
  BY <1>1 DEF Pairs
<1>3. <<p[1], p[2]>> \in {<<x[1], x[2]>> : x \in Pairs}
  BY <1>2
<1> QED BY <1>2, <1>3 DEF Held

LEMMA HeldIsShort ==
  ASSUME NEW h \in Held
  PROVE  h \in Seq(Entries) /\ Len(h) <= 2 /\ (h # <<>> => Head(h) \in Entries)
<1>1. CASE h = <<>>
  BY <1>1
<1>2. CASE \E e \in Entries : h = <<e>>
  BY <1>2
<1>3. CASE \E e \in Entries, f \in Entries : h = <<e, f>>
  BY <1>3
<1> QED BY <1>1, <1>2, <1>3, HeldCases

LEMMA AppendOne ==
  ASSUME NEW S, NEW e \in S, NEW f \in S
  PROVE  Append(<<e>>, f) = <<e, f>>
<1>1. PICK a : a = Append(<<e>>, f)
  OBVIOUS
<1>2. <<e>> \in Seq(S) /\ Len(<<e>>) = 1 /\ <<e>>[1] = e
  OBVIOUS
<1>3. a \in Seq(S) /\ Len(a) = 2 /\ a[1] = e /\ a[2] = f
  BY <1>1, <1>2, AppendProperties
<1>4. <<e, f>> \in Seq(S) /\ Len(<<e, f>>) = 2
  OBVIOUS
<1>5. a = <<e, f>>
  <2>1. \A i \in 1 .. 2 : a[i] = <<e, f>>[i]
    BY <1>3
  <2> QED BY <1>3, <1>4, <2>1, SeqEqual
<1> QED BY <1>1, <1>5

(* An event leaves at most one entry for each side.                        *)
LEMMA ApplyIsHeld ==
  ASSUME NEW h \in Held, NEW side, NEW size \in Nat, size # 0 => side \in Directions
  PROVE  ApplyEvent(h, side, size) \in Held
<1>1. CASE size = 0
  BY <1>1 DEF ApplyEvent, Held
<1>2. CASE size # 0
  <2>n. PICK n \in Entries : n = [side |-> side, size |-> size]
    BY <1>2 DEF Entries
  <2>1. CASE h = <<>>
    <3>1. ApplyEvent(h, side, size) = <<n>>
      BY <1>2, <2>n, <2>1, ApplyToNone
    <3> QED BY <3>1 DEF Held
  <2>2. ASSUME NEW e \in Entries, h = <<e>>
        PROVE  ApplyEvent(h, side, size) \in Held
    <3>1. CASE e.side = side
      <4>1. ApplyEvent(h, side, size) = <<n>>
        BY <1>2, <2>n, <2>2, <3>1, ApplyToSame
      <4> QED BY <4>1 DEF Held
    <3>2. CASE e.side # side
      <4>1. \A i \in DOMAIN h : h[i].side # side
        BY <2>2, <3>2
      <4>2. ApplyEvent(h, side, size) = Append(<<e>>, n)
        BY <1>2, <2>n, <2>2, <4>1 DEF ApplyEvent
      <4>3. Append(<<e>>, n) = <<e, n>>
        BY AppendOne
      <4>4. e.side # n.side
        BY <2>n, <3>2
      <4> QED BY <4>2, <4>3, <4>4, PairIsHeld
    <3> QED BY <3>1, <3>2
  <2>3. ASSUME NEW e \in Entries, NEW f \in Entries, e.side # f.side, h = <<e, f>>
        PROVE  ApplyEvent(h, side, size) \in Held
    <3>1. CASE e.side = side
      <4>1. ApplyEvent(h, side, size) = <<n, f>>
        BY <1>2, <2>n, <2>3, <3>1 DEF ApplyEvent, Entries
      <4>2. n.side # f.side
        BY <2>n, <2>3, <3>1
      <4> QED BY <4>1, <4>2, PairIsHeld
    <3>2. CASE e.side # side
      <4>1. f.side = side
        BY <1>2, <2>3, <3>2 DEF Entries, Directions
      <4>2. ApplyEvent(h, side, size) = <<e, n>>
        BY <1>2, <2>n, <2>3, <3>2, <4>1 DEF ApplyEvent, Entries
      <4>3. n.side # e.side
        BY <2>n, <3>2
      <4> QED BY <4>2, <4>3, PairIsHeld
    <3> QED BY <3>1, <3>2
  <2> QED BY <2>1, <2>2, <2>3, HeldCases
<1> QED BY <1>1, <1>2

-----------------------------------------------------------------------------
(* The types hold at every step.                                           *)
LEMMA Widens ==
  ASSUME NEW S, NEW T, S \subseteq T, NEW q \in Seq(S)
  PROVE  q \in Seq(T)
<1>1. Len(q) \in Nat /\ q \in [1 .. Len(q) -> T]
  BY LenProperties
<1> QED BY <1>1

LEMMA OrdersGrow ==
  ASSUME NEW n \in Nat, NEW m \in Nat, n <= m
  PROVE  OrdersTo(n) \subseteq OrdersTo(m) /\ ReportsTo(n) \subseteq ReportsTo(m)
<1>1. 1 .. n \subseteq 1 .. m /\ 0 .. n \subseteq 0 .. m
  OBVIOUS
<1>2. Works(n) \subseteq Works(m)
  BY <1>1 DEF Works
<1>3. OrderReports(n) \subseteq OrderReports(m)
  BY <1>1 DEF OrderReports
<1> QED BY <1>2, <1>3 DEF OrdersTo, ReportsTo

LEMMA ReportIsTyped ==
  ASSUME NEW n \in Nat, NEW o, NEW status \in Statuses,
         o \in Works(n) \/ (o = NoOrder /\ status = "NEW")
  PROVE  OrderReport(o, status) \in ReportsTo(n)
<1>1. o.id \in 0 .. n /\ o.dir \in Directions /\ o.filled \in Nat /\ o.reduceOnly \in BOOLEAN
      /\ (o.exec # 0) \in BOOLEAN
  <2>1. CASE o \in Works(n)
    BY <2>1 DEF Works
  <2>2. CASE o = NoOrder
    BY <2>2 DEF NoOrder, Directions
  <2> QED BY <2>1, <2>2
<1>2. o.id = 0 => status = "NEW" /\ ~ (o.exec # 0)
  BY DEF Works, NoOrder
<1>3. OrderReport(o, status) \in OrderReports(n)
  BY <1>1, <1>2 DEF OrderReport, OrderReports
<1> QED BY <1>3 DEF ReportsTo

LEMMA SendTypes ==
  ASSUME NEW S, stream \in Seq(S), NEW reports \in Seq(S), Sends(reports)
  PROVE  stream' \in Seq(S)
BY ConcatProperties DEF Sends

LEMMA NoOrderId ==
  ASSUME NEW n \in Nat, NEW o \in OrdersTo(n)
  PROVE  o # NoOrder <=> o \in Works(n)
BY DEF OrdersTo, Works, NoOrder

LEMMA AcceptTypes ==
  ASSUME ExchTypes, NEW o \in Works(placed + 1), Accepts(o)
  PROVE  ExchTypes' /\ placed' = placed + 1
<1>1. /\ placed \in Nat /\ placed' = placed + 1 /\ placed' \in 0 .. MaxOrders /\ placed' \in Nat
      /\ exch \in Int /\ exch' = exch /\ opener' = opener
  BY Bounds DEF ExchTypes, Accepts
<1>2. OrdersTo(placed) \subseteq OrdersTo(placed') /\ ReportsTo(placed) \subseteq ReportsTo(placed')
  BY <1>1, OrdersGrow
<1>3. opener' \in OrdersTo(placed')
  BY <1>1, <1>2 DEF ExchTypes
<1>4. order' \in OrdersTo(placed')
  <2>1. CASE o.reduceOnly /\ o.left > Size(exch)
    <3>1. exch # 0
      BY <1>1, <2>1, Against DEF Accepts, Works, Directions
    <3>2. Size(exch) \in Nat \ {0}
      BY <1>1, <3>1, Signs
    <3>3. order' = [o EXCEPT !.left = Size(exch)]
      BY <2>1 DEF Accepts
    <3> QED BY <1>1, <3>2, <3>3 DEF OrdersTo, Works
  <2>2. CASE ~ (o.reduceOnly /\ o.left > Size(exch))
    <3>1. order' = o
      BY <2>2 DEF Accepts
    <3> QED BY <1>1, <3>1 DEF OrdersTo
  <2> QED BY <2>1, <2>2
<1>5. stream' \in Seq(ReportsTo(placed'))
  <2>1. stream \in Seq(ReportsTo(placed'))
    BY <1>2, Widens DEF ExchTypes
  <2>2. OrderReport(o, "NEW") \in ReportsTo(placed')
    BY <1>1, ReportIsTyped DEF Statuses
  <2>3. <<OrderReport(o, "NEW")>> \in Seq(ReportsTo(placed'))
    BY <2>2
  <2>4. Sends(<<OrderReport(o, "NEW")>>)
    BY DEF Accepts
  <2> QED BY <2>1, <2>3, <2>4, SendTypes
<1> QED BY <1>1, <1>3, <1>4, <1>5 DEF ExchTypes

(* What grows with the number of orders accepted stays in range.           *)
LEMMA OthersKeepTypes ==
  ASSUME Types, placed' \in 0 .. MaxOrders, placed <= placed'
  PROVE  /\ UNCHANGED localVars => LocalTypes'
         /\ UNCHANGED <<brackets, tasks>> => BracketTypes'
         /\ UNCHANGED botVars => BotTypes'
         /\ UNCHANGED linkVars => LinkTypes'
<1>1. placed \in Nat /\ placed' \in Nat
  BY Bounds DEF Types, ExchTypes
<1>2. 1 .. placed \subseteq 1 .. placed'
  BY <1>1
<1>3. UNCHANGED localVars => LocalTypes'
  BY <1>2 DEF Types, LocalTypes, localVars
<1>4. UNCHANGED <<brackets, tasks>> => BracketTypes'
  BY <1>2 DEF Types, BracketTypes
<1>5. UNCHANGED botVars => BotTypes'
  BY DEF Types, BotTypes, botVars
<1>6. UNCHANGED linkVars => LinkTypes'
  BY DEF Types, LinkTypes, linkVars
<1> QED BY <1>3, <1>4, <1>5, <1>6

LEMMA FillTypes ==
  ASSUME Types, NEW qty \in 1 .. MaxSize, Fill(qty)
  PROVE  Types'
<1>1. /\ placed' = placed /\ placed \in Nat /\ placed' \in 0 .. MaxOrders /\ exch \in Int
      /\ order \in OrdersTo(placed) /\ opener \in OrdersTo(placed) /\ order # NoOrder
      /\ stream \in Seq(ReportsTo(placed))
  BY Bounds DEF Fill, Types, ExchTypes
<1>2. order \in Works(placed)
  BY <1>1, NoOrderId
<1>3. qty \in Nat /\ order.left \in Nat /\ order.filled \in Nat /\ qty <= order.left
      /\ order.dir \in Directions
  BY <1>2, Bounds DEF Fill, Works
<1>4. PICK net \in Int : net = exch + order.dir * qty
  BY <1>1, <1>3, StepIsSigned
<1>5. PICK f : f = [order EXCEPT !.left = order.left - qty, !.filled = order.filled + qty]
  OBVIOUS
<1>6. /\ f.left = order.left - qty /\ f.left \in Nat
      /\ f.left # 0 => f \in Works(placed)
      /\ f.id = order.id /\ f.dir = order.dir /\ f.filled \in Nat /\ f.exec = order.exec
      /\ f.reduceOnly = order.reduceOnly
  <2>1. order = [id |-> order.id, dir |-> order.dir, left |-> order.left,
                 filled |-> order.filled, reduceOnly |-> order.reduceOnly, exec |-> order.exec]
    BY <1>2 DEF Works
  <2>2. f = [id |-> order.id, dir |-> order.dir, left |-> order.left - qty,
             filled |-> order.filled + qty, reduceOnly |-> order.reduceOnly, exec |-> order.exec]
    BY <1>5, <2>1
  <2>3. order.left - qty \in Nat /\ order.filled + qty \in Nat
    BY <1>3
  <2>4. order.left - qty # 0 => f \in Works(placed)
    BY <1>2, <1>3, <2>2, <2>3 DEF Works
  <2> QED BY <2>2, <2>3, <2>4
<1>7. PICK report : report = OrderReport(f, IF f.left = 0 THEN "FILLED" ELSE "PARTIALLY_FILLED")
  OBVIOUS
<1>8. report \in ReportsTo(placed)
  <2>1. /\ report.type \in {"FILLED", "PARTIALLY_FILLED"} /\ report.id = order.id
        /\ report.dir = order.dir /\ report.filled \in Nat /\ report.meta \in BOOLEAN
        /\ report.reduceOnly = order.reduceOnly
        /\ report = [type |-> report.type, id |-> report.id, dir |-> report.dir,
                     filled |-> report.filled, reduceOnly |-> report.reduceOnly,
                     meta |-> report.meta]
    BY <1>6, <1>7 DEF OrderReport
  <2>2. order.id \in 1 .. placed /\ order.reduceOnly \in BOOLEAN
    BY <1>2 DEF Works
  <2>3. report.id \in 0 .. placed /\ report.id # 0
    BY <1>1, <2>1, <2>2
  <2>4. report \in OrderReports(placed)
    BY <1>3, <2>1, <2>2, <2>3 DEF OrderReports, Statuses
  <2> QED BY <2>4 DEF ReportsTo
<1>9. PositionReport(net) \in ReportsTo(placed)
  BY DEF PositionReport, ReportsTo, PositionReports
<1>10. /\ exch' = net
       /\ opener' \in {NoOrder, order, opener}
       /\ order' = NoOrder \/ (f.left # 0 /\ order' = f)
       /\ Sends(<<PositionReport(net), report>>) \/ Sends(<<report, PositionReport(net)>>)
  BY <1>4, <1>5, <1>7 DEF Fill
<1>11. order' \in OrdersTo(placed) /\ opener' \in OrdersTo(placed)
  <2>1. NoOrder \in OrdersTo(placed)
    BY DEF OrdersTo
  <2>2. f.left # 0 => f \in OrdersTo(placed)
    BY <1>6 DEF OrdersTo
  <2> QED BY <1>1, <1>10, <2>1, <2>2
<1>12. stream' \in Seq(ReportsTo(placed))
  <2>1. /\ <<PositionReport(net), report>> \in Seq(ReportsTo(placed))
        /\ <<report, PositionReport(net)>> \in Seq(ReportsTo(placed))
    BY <1>8, <1>9
  <2> QED BY <1>1, <1>10, <2>1, SendTypes
<1>13. ExchTypes'
  BY <1>1, <1>10, <1>11, <1>12 DEF ExchTypes
<1>14. UNCHANGED <<linkVars, localVars, brackets, tasks, botVars>>
  BY DEF Fill, bracketVars
<1> QED BY <1>1, <1>13, <1>14, OthersKeepTypes DEF Types

LEMMA ExpireTypes ==
  ASSUME Types, Expire
  PROVE  Types'
<1>1. /\ placed' = placed /\ placed \in Nat /\ placed' \in 0 .. MaxOrders
      /\ exch' = exch /\ opener' = opener /\ order' = NoOrder
      /\ order \in OrdersTo(placed) /\ order # NoOrder
      /\ stream \in Seq(ReportsTo(placed))
  BY Bounds DEF Expire, Types, ExchTypes
<1>2. order \in Works(placed)
  BY <1>1, NoOrderId
<1>3. OrderReport(order, "EXPIRED") \in ReportsTo(placed)
  BY <1>1, <1>2, ReportIsTyped DEF Statuses
<1>4. stream' \in Seq(ReportsTo(placed))
  <2>1. <<OrderReport(order, "EXPIRED")>> \in Seq(ReportsTo(placed))
    BY <1>3
  <2>2. Sends(<<OrderReport(order, "EXPIRED")>>)
    BY DEF Expire
  <2> QED BY <1>1, <2>1, <2>2, SendTypes
<1>5. ExchTypes'
  BY <1>1, <1>4 DEF Types, ExchTypes, OrdersTo
<1>6. UNCHANGED <<linkVars, localVars, brackets, tasks, botVars>>
  BY DEF Expire, bracketVars
<1> QED BY <1>1, <1>5, <1>6, OthersKeepTypes DEF Types

LEMMA HandTypes ==
  ASSUME Types, NEW dir \in Directions, NEW qty \in 1 .. MaxSize, HandTrade(dir, qty)
  PROVE  Types'
<1>1. placed \in Nat /\ qty \in Nat \ {0} /\ ExchTypes
  BY Bounds DEF Types, ExchTypes
<1>2. PICK o : o = [id |-> placed + 1, dir |-> dir, left |-> qty, filled |-> 0,
                    reduceOnly |-> FALSE, exec |-> 0]
  OBVIOUS
<1>3. o \in Works(placed + 1)
  BY <1>1, <1>2, Bounds DEF Works
<1>4. Accepts(o) /\ UNCHANGED <<linkVars, localVars, bracketVars, botVars>>
  BY <1>2 DEF HandTrade
<1>5. ExchTypes' /\ placed' = placed + 1
  BY <1>1, <1>3, <1>4, AcceptTypes
<1>6. placed <= placed' /\ placed' \in 0 .. MaxOrders
  BY <1>1, <1>5 DEF ExchTypes
<1> QED BY <1>4, <1>5, <1>6, OthersKeepTypes DEF Types, bracketVars

LEMMA ClosingIsTyped ==
  ASSUME Types, positions # <<>>, NEW side \in Directions, NEW exec \in 0 .. MaxExecs
  PROVE  ClosingOrder(side, exec) \in Works(placed + 1)
<1>1. placed \in Nat /\ Head(positions) \in Entries
  BY Bounds, HeldIsShort DEF Types, ExchTypes, LocalTypes
<1>2. Head(positions).size \in Nat \ {0} /\ - side \in Directions
  BY <1>1 DEF Entries, Directions
<1> QED BY <1>1, <1>2 DEF ClosingOrder, Works

LEMMA BotCloseTypes ==
  ASSUME Types, BotCloses
  PROVE  Types'
<1>1. placed \in Nat /\ ExchTypes /\ positions # <<>> /\ Head(positions) \in Entries
      /\ owner \in 0 .. MaxExecs
  BY Bounds, HeldIsShort DEF Types, ExchTypes, LocalTypes, BotTypes, BotCloses
<1>2. PICK side \in Directions : side = Head(positions).side
  BY <1>1 DEF Entries
<1>3. PICK o : o = ClosingOrder(side, owner)
  OBVIOUS
<1>4. o \in Works(placed + 1)
  BY <1>1, <1>3, ClosingIsTyped
<1>5. Accepts(o) /\ UNCHANGED <<linkVars, localVars, bracketVars, botVars>>
  BY <1>2, <1>3 DEF BotCloses
<1>6. ExchTypes' /\ placed' = placed + 1
  BY <1>1, <1>4, <1>5, AcceptTypes
<1>7. placed <= placed' /\ placed' \in 0 .. MaxOrders
  BY <1>1, <1>6 DEF ExchTypes
<1> QED BY <1>5, <1>6, <1>7, OthersKeepTypes DEF Types, bracketVars

LEMMA BotOpenTypes ==
  ASSUME Types, NEW dir \in Directions, NEW qty \in 1 .. MaxSize, BotOpens(dir, qty)
  PROVE  Types'
<1>1. placed \in Nat /\ qty \in Nat \ {0} /\ ExchTypes /\ owner \in 0 .. MaxExecs
  BY Bounds DEF Types, ExchTypes, BotTypes
<1>2. PICK o : o = [id |-> placed + 1, dir |-> dir, left |-> qty, filled |-> 0,
                    reduceOnly |-> FALSE, exec |-> owner]
  OBVIOUS
<1>3. o \in Works(placed + 1)
  BY <1>1, <1>2 DEF Works
<1>4. Accepts(o) /\ UNCHANGED <<linkVars, localVars, brackets, botVars>>
  BY <1>2 DEF BotOpens
<1>5. ExchTypes' /\ placed' = placed + 1
  BY <1>1, <1>3, <1>4, AcceptTypes
<1>6. placed <= placed' /\ placed' \in 0 .. MaxOrders
  BY <1>1, <1>5 DEF ExchTypes
<1>7. BracketTypes'
  <2>1. 1 .. placed \subseteq 1 .. placed' /\ placed + 1 \in 1 .. placed'
    BY <1>1, <1>5
  <2>2. tasks' \subseteq tasks \cup {[order |-> placed + 1, exec |-> owner]}
    BY DEF BotOpens
  <2>3. tasks' \subseteq [order : 1 .. placed', exec : 0 .. MaxExecs]
    BY <1>1, <2>1, <2>2 DEF Types, BracketTypes
  <2>4. brackets' \subseteq 1 .. placed'
    BY <1>4, <2>1 DEF Types, BracketTypes
  <2> QED BY <2>3, <2>4 DEF BracketTypes
<1> QED BY <1>4, <1>5, <1>6, <1>7, OthersKeepTypes DEF Types

LEMMA ManualCloseTypes ==
  ASSUME Types, ManualClose
  PROVE  Types'
<1>1. placed \in Nat /\ placed \in 0 .. MaxOrders /\ ExchTypes /\ exch \in Int
  BY Bounds DEF Types, ExchTypes
<1>2. closing' = FALSE /\ UNCHANGED <<linkVars, localVars, bracketVars, owner, execs>>
  BY DEF ManualClose
<1>3. ExchTypes' /\ placed <= placed' /\ placed' \in 0 .. MaxOrders
  <2>1. CASE owner = 0 /\ positions # <<>> /\ Accepts(ClosingOrder(Sign(exch), 0))
    <3>1. PICK o : o = ClosingOrder(Sign(exch), 0)
      OBVIOUS
    <3>2. o.reduceOnly /\ o.dir = - Sign(exch) /\ Accepts(o)
      BY <2>1, <3>1 DEF ClosingOrder
    <3>3. exch * o.dir < 0
      BY <3>2 DEF Accepts
    <3>4. exch # 0
      BY <1>1, <3>2, <3>3, Signs
    <3>5. Sign(exch) \in Directions /\ 0 \in 0 .. MaxExecs
      BY <1>1, <3>4, Signs, Bounds DEF Directions
    <3>6. o \in Works(placed + 1)
      BY <2>1, <3>1, <3>5, ClosingIsTyped
    <3>7. ExchTypes' /\ placed' = placed + 1
      BY <1>1, <3>2, <3>6, AcceptTypes
    <3> QED BY <1>1, <3>7 DEF ExchTypes
  <2>2. CASE UNCHANGED <<exchVars, stream, disturbed>>
    BY <1>1, <2>2 DEF ExchTypes, exchVars
  <2> QED BY <2>1, <2>2 DEF ManualClose
<1>4. BotTypes'
  BY <1>2 DEF Types, BotTypes
<1> QED BY <1>2, <1>3, <1>4, OthersKeepTypes DEF Types, bracketVars

LEMMA BotStepTypes ==
  ASSUME Types, BotStarts \/ BotReturns
  PROVE  Types'
<1>1. UNCHANGED <<exchVars, stream, linkVars, localVars, bracketVars, closing>>
  BY DEF BotStarts, BotReturns
<1>2. BotTypes'
  <2>1. CASE BotStarts
    BY <2>1, Bounds DEF Types, BotTypes, BotStarts
  <2>2. CASE BotReturns
    BY <2>2, Bounds DEF Types, BotTypes, BotReturns
  <2> QED BY <2>1, <2>2
<1>3. ExchTypes' /\ placed' = placed /\ placed \in 0 .. MaxOrders /\ placed <= placed'
  BY <1>1, Bounds DEF Types, ExchTypes, exchVars
<1> QED BY <1>1, <1>2, <1>3, OthersKeepTypes DEF Types, bracketVars

LEMMA BracketStepTypes ==
  ASSUME Types, NEW t \in tasks, PlaceBrackets(t)
  PROVE  Types'
<1>1. /\ placed' = placed /\ placed \in Nat /\ placed \in 0 .. MaxOrders /\ placed <= placed'
      /\ exch' = exch /\ opener' = opener /\ order' = order /\ tasks' = tasks \ {t}
      /\ UNCHANGED <<linkVars, localVars, brackets, botVars>>
      /\ stream \in Seq(ReportsTo(placed))
  BY Bounds DEF PlaceBrackets, Types, ExchTypes, exchVars
<1>2. OrderReport(NoOrder, "NEW") \in ReportsTo(placed)
  BY <1>1, ReportIsTyped DEF Statuses
<1>3. stream' \in Seq(ReportsTo(placed))
  <2>1. <<OrderReport(NoOrder, "NEW")>> \in Seq(ReportsTo(placed))
    BY <1>2
  <2>2. Sends(<<OrderReport(NoOrder, "NEW")>>) \/ stream' = stream
    BY DEF PlaceBrackets
  <2> QED BY <1>1, <2>1, <2>2, SendTypes
<1>4. ExchTypes'
  BY <1>1, <1>3 DEF Types, ExchTypes
<1>5. BracketTypes'
  BY <1>1 DEF Types, BracketTypes
<1> QED BY <1>1, <1>4, <1>5, OthersKeepTypes DEF Types

LEMMA LinkStepTypes ==
  ASSUME Types, Elapse \/ StopStream \/ Bootstrap \/ Connect
  PROVE  Types'
<1>1. UNCHANGED <<exchVars, bracketVars, botVars>> /\ (stream' = stream \/ stream' = <<>>)
  BY DEF Elapse, StopStream, Bootstrap, Connect
<1>2. ExchTypes' /\ placed' = placed /\ placed \in 0 .. MaxOrders /\ placed <= placed'
      /\ exch \in Int
  <2>1. <<>> \in Seq(ReportsTo(placed))
    OBVIOUS
  <2>2. stream' \in Seq(ReportsTo(placed))
    BY <1>1, <2>1 DEF Types, ExchTypes
  <2>3. UNCHANGED <<exch, order, opener, placed>>
    BY <1>1 DEF exchVars
  <2> QED BY <2>2, <2>3, Bounds DEF Types, ExchTypes
<1>3. LinkTypes'
  BY DEF Types, LinkTypes, linkVars, Elapse, StopStream, Bootstrap, Connect
<1>4. LocalTypes'
  <2>1. CASE Elapse
    <3>1. /\ UNCHANGED <<positions, partials, botOpen, manual>>
          /\ recent' \in BOOLEAN
          /\ reduceGuard' \in {reduceGuard, NoGuard}
      BY <2>1 DEF Elapse, Types, LocalTypes
    <3> QED BY <1>2, <3>1 DEF Types, LocalTypes, NoGuard
  <2>2. CASE StopStream \/ Connect
    BY <1>2, <2>2 DEF StopStream, Connect, Types, LocalTypes, localVars
  <2>3. CASE Bootstrap
    <3>1. positions' \in Held
      BY <1>2, <2>3, ListedIsHeld DEF Bootstrap
    <3>2. reduceGuard' = NoGuard /\ partials' = {} /\ UNCHANGED <<botOpen, manual, recent>>
      BY <2>3 DEF Bootstrap
    <3> QED BY <3>1, <3>2 DEF Types, LocalTypes, NoGuard
  <2> QED BY <2>1, <2>2, <2>3
<1> QED BY <1>1, <1>2, <1>3, <1>4, OthersKeepTypes DEF Types, bracketVars

(* The reports.                                                            *)
GuardRecords == [side : Directions \cup {0}, from : Nat, to : Nat]

LEMMA OnPositionTypes ==
  ASSUME Types, NEW net \in Int, OnPosition(net), placed' = placed,
         UNCHANGED <<partials, recent>>
  PROVE  LocalTypes'
<1>1. /\ positions \in Held /\ reduceGuard \in GuardRecords /\ reduceGuard.to <= reduceGuard.from
      /\ botOpen \in BOOLEAN /\ manual \in {"no", "pending", "flagged"}
  BY DEF Types, LocalTypes, GuardRecords
<1>2. botOpen' \in BOOLEAN /\ manual' \in {"no", "pending", "flagged"}
  BY <1>1 DEF OnPosition
<1>3. /\ positions' \in {positions, ApplyEvent(positions, Sign(net), Size(net))}
      /\ \/ reduceGuard' = reduceGuard
         \/ /\ positions # <<>>
            /\ net = 0 \/ Size(net) < Head(positions).size
            /\ reduceGuard' = Registered(Head(positions).side, Head(positions).size, Size(net))
  BY DEF OnPosition
<1>4. positions' \in Held
  <2>1. Size(net) \in Nat /\ (Size(net) # 0 => Sign(net) \in Directions)
    BY Signs DEF Directions
  <2>2. ApplyEvent(positions, Sign(net), Size(net)) \in Held
    BY <1>1, <2>1, ApplyIsHeld
  <2> QED BY <1>1, <1>3, <2>2
<1>5. reduceGuard' \in GuardRecords /\ reduceGuard'.to <= reduceGuard'.from
  <2>1. CASE reduceGuard' = reduceGuard
    BY <1>1, <2>1
  <2>2. CASE /\ positions # <<>>
             /\ net = 0 \/ Size(net) < Head(positions).size
             /\ reduceGuard' = Registered(Head(positions).side, Head(positions).size, Size(net))
    <3>1. Head(positions) \in Entries
      BY <1>1, <2>2, HeldIsShort
    <3>2. PICK from \in Nat, to \in Nat, side \in Directions :
            from = Head(positions).size /\ to = Size(net) /\ side = Head(positions).side
      BY <3>1, Signs DEF Entries
    <3>3. to <= from
      BY <2>2, <3>2, Signs
    <3>4. reduceGuard' = Registered(side, from, to)
      BY <2>2, <3>2
    <3> QED BY <1>1, <3>3, <3>4 DEF Registered, GuardRecords
  <2> QED BY <1>3, <2>1, <2>2
<1> QED BY <1>2, <1>4, <1>5 DEF Types, LocalTypes, GuardRecords

LEMMA OnFilledTypes ==
  ASSUME Types, NEW o \in OrderReports(placed), o.type = "FILLED", OnFilled(o), placed' = placed
  PROVE  LocalTypes' /\ BracketTypes' /\ BotTypes'
<1>1. /\ o.id \in 1 .. placed /\ o.dir \in Directions /\ o.filled \in Nat /\ placed \in Nat
      /\ o.reduceOnly \in BOOLEAN
  BY Bounds DEF OrderReports, Types, ExchTypes
<1>2. /\ positions \in Held /\ reduceGuard \in GuardRecords /\ reduceGuard.to <= reduceGuard.from
      /\ partials \subseteq 1 .. placed
      /\ botOpen \in BOOLEAN /\ manual \in {"no", "pending", "flagged"} /\ recent \in BOOLEAN
  BY DEF Types, LocalTypes, GuardRecords
<1>3. positions' \in Held
  <2>1. positions' \in {positions, NetAfterFill(o), ApplyEvent(positions, o.dir, o.filled)}
        /\ (positions' = NetAfterFill(o) => Opposite(o) \/ positions' = positions
               \/ positions' = ApplyEvent(positions, o.dir, o.filled))
    BY DEF OnFilled, FilledPositions
  <2>2. ApplyEvent(positions, o.dir, o.filled) \in Held
    BY <1>1, <1>2, ApplyIsHeld
  <2>3. ASSUME Opposite(o)
        PROVE  NetAfterFill(o) \in Held
    <3>1. positions # <<>> /\ Head(positions) \in Entries
      BY <1>2, <2>3, HeldIsShort DEF Opposite
    <3>2. PICK size \in Nat, side \in Directions :
            size = Head(positions).size /\ side = Head(positions).side
      BY <3>1 DEF Entries
    <3>3. CASE o.filled > size
      <4>1. o.filled - size \in Nat \ {0}
        BY <1>1, <3>2, <3>3
      <4>2. [side |-> o.dir, size |-> o.filled - size] \in Entries
        BY <1>1, <4>1 DEF Entries
      <4>3. <<[side |-> o.dir, size |-> o.filled - size]>> \in Held
        BY <4>2 DEF Held
      <4> QED BY <1>2, <3>2, <3>3, <4>3 DEF NetAfterFill
    <3>4. CASE o.filled <= size
      <4>1. PICK rest \in Nat : rest = size - o.filled
        BY <1>1, <3>2, <3>4
      <4>2. NetAfterFill(o) = ApplyEvent(positions, side, rest)
        BY <1>1, <3>2, <3>4, <4>1 DEF NetAfterFill
      <4> QED BY <1>2, <4>2, ApplyIsHeld
    <3> QED BY <1>1, <3>2, <3>3, <3>4
  <2> QED BY <1>2, <2>1, <2>2, <2>3
<1>4. reduceGuard' \in GuardRecords /\ reduceGuard'.to <= reduceGuard'.from
  <2>1. reduceGuard' \in {NoGuard, reduceGuard}
    BY DEF OnFilled, FilledGuard, GuardAfterFill
  <2> QED BY <1>2, <2>1 DEF NoGuard, GuardRecords
<1>5. /\ partials' \subseteq 1 .. placed /\ botOpen' = botOpen
      /\ manual' \in {"no", "pending", "flagged"} /\ recent' \in BOOLEAN
      /\ closing' \in BOOLEAN /\ UNCHANGED <<owner, execs>>
  BY <1>1, <1>2 DEF OnFilled, Types, BotTypes
<1>6. LocalTypes'
  BY <1>2, <1>3, <1>4, <1>5 DEF LocalTypes, GuardRecords
<1>7. BotTypes'
  BY <1>5 DEF Types, BotTypes
<1>8. BracketTypes'
  <2>1. brackets' \subseteq brackets /\ tasks' \subseteq tasks \cup {[order |-> o.id, exec |-> 0]}
    BY DEF OnFilled
  <2>2. [order |-> o.id, exec |-> 0] \in [order : 1 .. placed, exec : 0 .. MaxExecs]
    BY <1>1, Bounds
  <2> QED BY <2>1, <2>2 DEF Types, BracketTypes
<1> QED BY <1>6, <1>7, <1>8

LEMMA ReceiveTypes ==
  ASSUME Types, Receive
  PROVE  Types'
<1>1. /\ stream # <<>> /\ stream' = Tail(stream) /\ stream \in Seq(ReportsTo(placed))
      /\ UNCHANGED <<exchVars, linkVars, disturbed>> /\ placed' = placed
      /\ placed \in Nat /\ placed \in 0 .. MaxOrders /\ placed <= placed'
  BY Bounds DEF Receive, Types, ExchTypes, exchVars
<1>2. ExchTypes'
  <2>1. stream' \in Seq(ReportsTo(placed))
    BY <1>1, HeadTailProperties
  <2> QED BY <1>1, <2>1 DEF Types, ExchTypes, exchVars
<1>3. PICK r : r = Head(stream)
  OBVIOUS
<1>4. r \in ReportsTo(placed)
  BY <1>1, <1>3, HeadTailProperties
<1>5. CASE r.type = "position"
  <2>1. r.net \in Int
    BY <1>4, <1>5 DEF ReportsTo, PositionReports, OrderReports, Statuses
  <2>2. OnPosition(r.net) /\ UNCHANGED <<partials, recent, bracketVars, botVars>>
    BY <1>3, <1>5 DEF Receive
  <2>3. LocalTypes'
    BY <1>1, <2>1, <2>2, OnPositionTypes
  <2> QED BY <1>1, <1>2, <2>2, <2>3, OthersKeepTypes DEF Types, bracketVars
<1>6. CASE r.type # "position"
  <2>1. r \in OrderReports(placed)
    BY <1>4, <1>6 DEF ReportsTo, PositionReports
  <2>2. CASE r.type = "NEW"
    <3>1. OnNew(r)
      BY <1>3, <2>2 DEF Receive
    <3>2. LocalTypes'
      BY <1>1, <3>1 DEF OnNew, Types, LocalTypes
    <3>3. BracketTypes'
      <4>1. r.meta => r.id \in 1 .. placed
        BY <1>1, <2>1 DEF OrderReports
      <4>2. brackets' \subseteq brackets \cup (IF r.meta THEN {r.id} ELSE {}) /\ tasks' = tasks
        BY <3>1 DEF OnNew
      <4> QED BY <1>1, <4>1, <4>2 DEF Types, BracketTypes
    <3>4. UNCHANGED botVars
      BY <3>1 DEF OnNew
    <3> QED BY <1>1, <1>2, <3>2, <3>3, <3>4, OthersKeepTypes DEF Types
  <2>3. CASE r.type = "PARTIALLY_FILLED"
    <3>1. /\ partials' = partials \cup {r.id}
          /\ UNCHANGED <<positions, reduceGuard, botOpen, manual, recent, bracketVars, botVars>>
      BY <1>3, <2>3 DEF Receive
    <3>2. r.id \in 1 .. placed
      BY <1>1, <2>1, <2>3 DEF OrderReports
    <3>3. LocalTypes'
      BY <1>1, <3>1, <3>2 DEF Types, LocalTypes
    <3> QED BY <1>1, <1>2, <3>1, <3>3, OthersKeepTypes DEF Types, bracketVars
  <2>4. CASE r.type = "FILLED"
    <3>1. OnFilled(r)
      BY <1>3, <2>4 DEF Receive
    <3>2. LocalTypes' /\ BracketTypes' /\ BotTypes'
      BY <1>1, <2>1, <2>4, <3>1, OnFilledTypes
    <3> QED BY <1>1, <1>2, <3>2, OthersKeepTypes DEF Types
  <2>5. CASE r.type = "EXPIRED"
    <3>1. UNCHANGED <<localVars, bracketVars, botVars>>
      BY <1>3, <2>5 DEF Receive
    <3> QED BY <1>1, <1>2, <3>1, OthersKeepTypes DEF Types, bracketVars
  <2>6. r.type \in Statuses
    BY <2>1 DEF OrderReports
  <2> QED BY <2>2, <2>3, <2>4, <2>5, <2>6 DEF Statuses
<1> QED BY <1>5, <1>6

LEMMA InitTypes == Init => Types
<1> SUFFICES ASSUME Init PROVE Types
  OBVIOUS
<1>1. exch \in Int /\ placed = 0 /\ order = NoOrder /\ opener = NoOrder /\ stream = <<>>
  BY Bounds DEF Init
<1>2. ExchTypes
  BY <1>1, Bounds DEF ExchTypes, OrdersTo
<1>3. LocalTypes
  <2>1. positions \in Held
    BY <1>1, ListedIsHeld DEF Init
  <2>2. /\ reduceGuard = NoGuard /\ partials = {} /\ botOpen = FALSE
        /\ manual = "no" /\ recent = FALSE
    BY DEF Init
  <2>3. /\ NoGuard \in [side : Directions \cup {0}, from : Nat, to : Nat]
        /\ NoGuard.to <= NoGuard.from
    BY DEF NoGuard
  <2>4. partials \subseteq 1 .. placed
    BY <2>2
  <2> QED BY <2>1, <2>2, <2>3, <2>4 DEF LocalTypes
<1>4. BracketTypes /\ BotTypes /\ LinkTypes
  <2>1. brackets = {} /\ tasks = {} /\ owner = 0 /\ closing = FALSE /\ execs = 0 /\ link = "up"
    BY DEF Init
  <2>2. 0 \in 0 .. MaxExecs
    BY Bounds
  <2> QED BY <2>1, <2>2 DEF BracketTypes, BotTypes, LinkTypes
<1> QED BY <1>2, <1>3, <1>4 DEF Types

LEMMA NextTypes ==
  ASSUME Types, [Next]_vars
  PROVE  Types'
<1>1. CASE \E qty \in 1 .. MaxSize : Fill(qty)
  BY <1>1, FillTypes
<1>2. CASE Expire
  BY <1>2, ExpireTypes
<1>3. CASE \E dir \in Directions, qty \in 1 .. MaxSize : HandTrade(dir, qty)
  BY <1>3, HandTypes
<1>4. CASE BotStarts \/ BotReturns
  BY <1>4, BotStepTypes
<1>5. CASE BotCloses
  BY <1>5, BotCloseTypes
<1>6. CASE ManualClose
  BY <1>6, ManualCloseTypes
<1>7. CASE \E dir \in Directions, qty \in 1 .. MaxSize : BotOpens(dir, qty)
  BY <1>7, BotOpenTypes
<1>8. CASE Receive
  BY <1>8, ReceiveTypes
<1>9. CASE Elapse \/ StopStream \/ Bootstrap \/ Connect
  BY <1>9, LinkStepTypes
<1>10. CASE \E t \in tasks : PlaceBrackets(t)
  BY <1>10, BracketStepTypes
<1>11. CASE UNCHANGED vars
  BY <1>11 DEF vars, exchVars, localVars, bracketVars, botVars, linkVars, Types, ExchTypes,
               LocalTypes, BracketTypes, BotTypes, LinkTypes
<1> QED BY <1>1, <1>2, <1>3, <1>4, <1>5, <1>6, <1>7, <1>8, <1>9, <1>10, <1>11
        DEF Next, Exchange, Bot, Stream

LEMMA TypesHold == Spec => []Types
<1>1. Init => Types
  BY InitTypes
<1>2. Types /\ [Next]_vars => Types'
  BY NextTypes
<1> QED BY <1>1, <1>2, PTL DEF Spec

(***************************************************************************)
(* The types of TypeOK hold in every state: the local position keeps at     *)
(* most one entry for each side, and every order the sync engine remembers  *)
(* was accepted by the exchange.                                           *)
(***************************************************************************)
THEOREM TypesAlwaysHold == Spec => []TypeOK
<1>1. Types => TypeOK
  <2> SUFFICES ASSUME Types PROVE TypeOK
    OBVIOUS
  <2>1. placed \in Nat /\ placed <= MaxOrders /\ 1 .. placed \subseteq 1 .. MaxOrders
    BY Bounds DEF Types, ExchTypes
  <2>2. /\ opener.id \in 0 .. placed
        /\ order.left \in Nat /\ order.exec \in 0 .. MaxExecs
    BY <2>1, Bounds DEF Types, ExchTypes, OrdersTo, Works, NoOrder
  <2>3. positions \in Seq(Entries) /\ Len(positions) <= 2
    BY HeldIsShort DEF Types, LocalTypes
  <2>4. reduceGuard.side \in Directions \cup {0} /\ reduceGuard.to <= reduceGuard.from
    BY DEF Types, LocalTypes
  <2>5. partials \subseteq 1 .. MaxOrders /\ brackets \subseteq 1 .. MaxOrders
        /\ \A t \in tasks : t.order \in 1 .. placed
    BY <2>1 DEF Types, LocalTypes, BracketTypes
  <2>6. /\ {botOpen, recent, closing} \subseteq BOOLEAN
        /\ manual \in {"no", "pending", "flagged"} /\ owner \in 0 .. MaxExecs
    BY DEF Types, LocalTypes, BotTypes
  <2>7. link \in {"up", "down", "connecting"} /\ exch \in Int /\ placed \in 0 .. MaxOrders
    BY DEF Types, LinkTypes, ExchTypes
  <2> QED BY <2>2, <2>3, <2>4, <2>5, <2>6, <2>7 DEF TypeOK
<1> QED BY <1>1, TypesHold, PTL

-----------------------------------------------------------------------------
(***************************************************************************)
(* Views.  What the reports have told of an order so far: the position      *)
(* before it (base), how much of it is filled, whether a fill has been told *)
(* in full (later), and the phase.  "work" lies between fills; "position",  *)
(* "part" and "done" say which of a fill's two reports came first.          *)
(***************************************************************************)
Phases == {"idle", "work", "position", "part", "done"}
Views == [phase : Phases, later : BOOLEAN, base : Int, filled : Nat, id : Nat,
          dir : Directions, reduceOnly : BOOLEAN]

Idle(net) == [phase |-> "idle", later |-> FALSE, base |-> net, filled |-> 0,
              id |-> 0, dir |-> 1, reduceOnly |-> FALSE]

At(v, qty) == IF v.dir = 1 THEN v.base + qty ELSE v.base - qty
Net(v) == At(v, v.filled)

(* An order opens a position, or closes at most the one there is.  A close  *)
(* in several fills is reduce-only.                                        *)
Opens(v)  == v.base = 0 /\ ~ v.reduceOnly
Closes(v) ==
  /\ v.base # 0 /\ Sign(v.base) = - v.dir /\ v.filled <= Size(v.base)
  /\ v.phase \in {"work", "part"} => v.filled < Size(v.base)
  /\ v.later \/ v.phase = "part" => v.reduceOnly
AtWork(v) ==
  /\ v.id # 0
  /\ Opens(v) \/ Closes(v)
  /\ v.filled = 0 <=> (v.phase = "work" /\ ~ v.later)
Sound(v) == v.phase = "idle" \/ AtWork(v)

(* The views that a report leads to: an order begins (a bracket order's NEW *)
(* tells nothing), the first report of a fill, and the second.             *)
Begins(v, r, w) ==
  /\ v.phase = "idle" /\ r.type = "NEW"
  /\ \/ r.id = 0 /\ w = v
     \/ /\ AtWork(w)
        /\ w = [phase |-> "work", later |-> FALSE, base |-> v.base, filled |-> 0,
                id |-> r.id, dir |-> r.dir, reduceOnly |-> r.reduceOnly]

FilledBy(v, r) == /\ r.type = "FILLED" /\ r.id = v.id /\ r.dir = v.dir
                  /\ r.reduceOnly = v.reduceOnly /\ r.filled = v.filled
FirstOf(v, r, w) ==
  /\ v.phase = "work" /\ AtWork(w) /\ w.filled > v.filled
  /\ w = [v EXCEPT !.phase = w.phase, !.filled = w.filled]
  /\ \/ w.phase = "position" /\ r.type = "position" /\ r.net = Net(w)
     \/ w.phase = "part" /\ r.type = "PARTIALLY_FILLED" /\ r.id = v.id
     \/ w.phase = "done" /\ FilledBy(w, r)

Continues(v, w) == AtWork(w) /\ w = [v EXCEPT !.phase = "work", !.later = TRUE]
SecondOf(v, r, w) ==
  \/ v.phase = "position" /\ r.type = "PARTIALLY_FILLED" /\ r.id = v.id /\ Continues(v, w)
  \/ v.phase = "position" /\ FilledBy(v, r) /\ w = Idle(Net(v))
  \/ v.phase = "part" /\ r.type = "position" /\ r.net = Net(v) /\ Continues(v, w)
  \/ v.phase = "done" /\ r.type = "position" /\ r.net = Net(v) /\ w = Idle(Net(v))

Tells(v, r, w) == Begins(v, r, w) \/ FirstOf(v, r, w) \/ SecondOf(v, r, w)

(* How much of the order the local position shows: none of a first fill     *)
(* until its order report, all of it after; of later fills what the         *)
(* position reports told, if the entry they made was not left out.          *)
Shows(v, qty) ==
  CASE v.phase = "idle" -> qty = 0
    [] v.phase \in {"work", "position", "part"} /\ ~ v.later -> qty = 0
    [] v.phase = "work" /\ v.later -> TRUE
    [] v.phase = "position" /\ v.later -> qty = v.filled \/ (qty = 0 /\ v.base = 0)
    [] v.phase = "part" /\ v.later -> qty < v.filled
    [] OTHER -> IF v.later /\ v.base # 0 THEN qty < v.filled ELSE qty = v.filled

SeesPosition(v) == \E qty \in 0 .. v.filled : Shows(v, qty) /\ positions = Listed(At(v, qty))
SeesHint(v) == v.phase # "idle" => (botOpen <=> (~ v.later /\ v.phase # "position"))
InFills(v) == v.phase \in {"work", "position", "part"}
SeesPartials(v) ==
  /\ partials \subseteq {v.id}
  /\ IF InFills(v) /\ (v.later \/ v.phase = "part")
     THEN v.base # 0 => v.id \in partials
     ELSE partials = {}
SeesManual(v) == manual = "pending" => v.later /\ InFills(v) /\ v.base = 0

Sees(v) == SeesPosition(v) /\ SeesHint(v) /\ SeesPartials(v) /\ SeesManual(v)

(* What the exchange has told, once all reports are handled.               *)
ToldBy(o, net) ==
  IF o = NoOrder THEN Idle(net)
  ELSE [phase |-> "work", later |-> o.filled # 0,
        base |-> IF o.dir = 1 THEN net - o.filled ELSE net + o.filled,
        filled |-> o.filled, id |-> o.id, dir |-> o.dir, reduceOnly |-> o.reduceOnly]
Told == ToldBy(order, exch)

(* From view x the reports of q lead to view e.                            *)
IsRun(q, run, e) ==
  /\ run \in [1 .. Len(q) + 1 -> Views] /\ run[Len(q) + 1] = e
  /\ \A i \in 1 .. Len(q) : Tells(run[i], q[i], run[i + 1])
Reaches(q, x, e) == \E run : IsRun(q, run, e) /\ run[1] = x

Matched == \E x \in Views : Sound(x) /\ Reaches(stream, x, Told) /\ Sees(x)

(* The order at work is never beyond the position it closes, and no restart *)
(* falls between its fills.                                                *)
Limit ==
  order # NoOrder =>
    /\ AtWork(Told)
    /\ Told.base # 0 => order.left + order.filled <= Size(Told.base)
Mid == link = "down" => ~ (order.reduceOnly /\ order.filled > 0)

JInv == ~ disturbed => Limit /\ Mid /\ Matched
LinkInv == link # "up" => stream = <<>>

-----------------------------------------------------------------------------
(* Runs of reports.                                                        *)
LEMMA ReachesNow ==
  ASSUME NEW e \in Views
  PROVE  Reaches(<<>>, e, e)
<1>1. PICK run : run = [i \in 1 .. 1 |-> e]
  OBVIOUS
<1>2. Len(<<>>) = 0
  OBVIOUS
<1>3. IsRun(<<>>, run, e) /\ run[1] = e
  BY <1>1, <1>2 DEF IsRun
<1> QED BY <1>3 DEF Reaches

LEMMA ReachedNow ==
  ASSUME NEW x, NEW e, Reaches(<<>>, x, e)
  PROVE  x = e
<1>1. PICK run : IsRun(<<>>, run, e) /\ run[1] = x
  BY DEF Reaches
<1>2. Len(<<>>) = 0
  OBVIOUS
<1> QED BY <1>1, <1>2 DEF IsRun

LEMMA ReachStep ==
  ASSUME NEW S, NEW q \in Seq(S), q # <<>>, NEW x, NEW e, Reaches(q, x, e)
  PROVE  \E y \in Views : Tells(x, Head(q), y) /\ Reaches(Tail(q), y, e)
<1>1. PICK run : IsRun(q, run, e) /\ run[1] = x
  BY DEF Reaches
<1>2. PICK t : t = Tail(q)
  OBVIOUS
<1>3. PICK n : n = Len(t)
  OBVIOUS
<1>4. /\ n \in Nat /\ Len(q) = n + 1 /\ Head(q) = q[1]
      /\ \A i \in 1 .. n : t[i] = q[i + 1]
  <2>1. /\ t \in Seq(S) /\ Len(t) = Len(q) - 1 /\ Head(q) = q[1]
        /\ \A i \in 1 .. Len(t) : t[i] = q[i + 1]
    BY <1>2, HeadTailProperties
  <2>2. Len(t) \in Nat /\ Len(q) \in Nat
    BY <2>1, LenProperties
  <2> QED BY <1>3, <2>1, <2>2
<1>5. /\ run \in [1 .. n + 2 -> Views] /\ run[n + 2] = e
      /\ \A i \in 1 .. n + 1 : Tells(run[i], q[i], run[i + 1])
  <2>1. Len(q) + 1 = n + 2
    BY <1>4
  <2> QED BY <1>1, <1>4, <2>1 DEF IsRun
<1>6. PICK p : p = [i \in 1 .. n + 1 |-> run[i + 1]]
  OBVIOUS
<1>7. p \in [1 .. n + 1 -> Views] /\ p[n + 1] = e
  <2>1. \A i \in 1 .. n + 1 : i + 1 \in 1 .. n + 2
    BY <1>4
  <2> QED BY <1>4, <1>5, <1>6, <2>1
<1>8. ASSUME NEW i \in 1 .. n
      PROVE  Tells(p[i], t[i], p[i + 1])
  <2>1. i + 1 \in 1 .. n + 1 /\ i \in 1 .. n + 1
    BY <1>4
  <2>2. p[i] = run[i + 1] /\ p[i + 1] = run[i + 1 + 1] /\ t[i] = q[i + 1]
    BY <1>4, <1>6, <2>1
  <2> QED BY <1>5, <2>1, <2>2
<1>9. IsRun(t, p, e)
  BY <1>3, <1>7, <1>8 DEF IsRun
<1>10. run[2] \in Views /\ p[1] = run[2] /\ Tells(x, Head(q), run[2])
  <2>1. 1 \in 1 .. n + 1 /\ 2 \in 1 .. n + 2 /\ 1 + 1 = 2
    BY <1>4
  <2> QED BY <1>1, <1>4, <1>5, <1>6, <2>1
<1> QED BY <1>2, <1>9, <1>10 DEF Reaches

(* One report more.                                                         *)
Appended(p, q, r) == p = q \o <<r>>

LEMMA ReachAppend ==
  ASSUME NEW S, NEW q \in Seq(S), NEW r \in S, NEW x, NEW e, NEW y \in Views,
         Reaches(q, x, e), Tells(e, r, y), NEW p, Appended(p, q, r)
  PROVE  Reaches(p, x, y)
<1>1. PICK run : IsRun(q, run, e) /\ run[1] = x
  BY DEF Reaches
<1>2. PICK n : n = Len(q)
  OBVIOUS
<1>3. /\ n \in Nat /\ Len(p) = n + 1 /\ p[n + 1] = r
      /\ \A i \in 1 .. n : p[i] = q[i]
  <2>1. p = Append(q, r)
    BY AppendIsConcat DEF Appended
  <2> QED BY <1>2, <2>1, AppendProperties, LenProperties
<1>4. /\ run \in [1 .. n + 1 -> Views] /\ run[n + 1] = e
      /\ \A i \in 1 .. n : Tells(run[i], q[i], run[i + 1])
  BY <1>1, <1>2 DEF IsRun
<1>5. PICK w : w = [i \in 1 .. n + 2 |-> IF i = n + 2 THEN y ELSE run[i]]
  OBVIOUS
<1>6. /\ w \in [1 .. n + 2 -> Views] /\ w[n + 2] = y
      /\ \A i \in 1 .. n + 1 : w[i] = run[i]
  <2>1. \A i \in 1 .. n + 2 : i # n + 2 => i \in 1 .. n + 1
    BY <1>3
  <2>2. \A i \in 1 .. n + 1 : i # n + 2 /\ i \in 1 .. n + 2
    BY <1>3
  <2> QED BY <1>3, <1>4, <1>5, <2>1, <2>2
<1>7. ASSUME NEW i \in 1 .. n + 1
      PROVE  Tells(w[i], p[i], w[i + 1])
  <2>1. CASE i = n + 1
    <3>1. w[i] = e /\ w[i + 1] = y /\ p[i] = r
      BY <1>3, <1>4, <1>6, <2>1
    <3> QED BY <3>1
  <2>2. CASE i # n + 1
    <3>1. i \in 1 .. n /\ i + 1 \in 1 .. n + 1
      BY <1>3, <2>2
    <3>2. w[i] = run[i] /\ w[i + 1] = run[i + 1] /\ p[i] = q[i]
      BY <1>3, <1>6, <3>1
    <3> QED BY <1>4, <3>1, <3>2
  <2> QED BY <2>1, <2>2
<1>8. w[1] = x
  <2>1. 1 \in 1 .. n + 1
    BY <1>3
  <2> QED BY <1>1, <1>6, <2>1
<1>9. IsRun(p, w, y)
  <2>1. Len(p) = n + 1 /\ Len(p) + 1 = n + 2
    BY <1>3
  <2> QED BY <1>6, <1>7, <2>1 DEF IsRun
<1> QED BY <1>8, <1>9 DEF Reaches

-----------------------------------------------------------------------------
(* The position a view speaks of.                                          *)
LEMMA AtOpening ==
  ASSUME NEW v \in Views, v.base = 0, NEW qty \in Nat
  PROVE  /\ At(v, qty) \in Int /\ Size(At(v, qty)) = qty
         /\ Sign(At(v, qty)) = IF qty = 0 THEN 0 ELSE v.dir
         /\ At(v, qty) = 0 <=> qty = 0
<1>1. At(v, qty) = (IF v.dir = 1 THEN qty ELSE - qty) /\ v.dir \in {-1, 1}
  BY DEF At, Views, Directions
<1> QED BY <1>1 DEF Sign, Size

LEMMA AtClosing ==
  ASSUME NEW v \in Views, v.base # 0, Sign(v.base) = - v.dir,
         NEW qty \in Nat, qty <= Size(v.base)
  PROVE  /\ At(v, qty) \in Int /\ Size(At(v, qty)) = Size(v.base) - qty
         /\ Sign(At(v, qty)) = IF qty = Size(v.base) THEN 0 ELSE - v.dir
         /\ At(v, qty) = 0 <=> qty = Size(v.base)
<1>1. v.dir \in {-1, 1} /\ v.base \in Int
  BY DEF Views, Directions
<1>2. CASE v.dir = 1
  BY <1>1, <1>2 DEF At, Sign, Size
<1>3. CASE v.dir = -1
  BY <1>1, <1>3 DEF At, Sign, Size
<1> QED BY <1>1, <1>2, <1>3

LEMMA AtNone ==
  ASSUME NEW v \in Views
  PROVE  At(v, 0) = v.base
BY DEF At, Views

LEMMA ListedHead ==
  ASSUME NEW n \in Int
  PROVE  /\ n = 0 <=> Listed(n) = <<>>
         /\ n # 0 => /\ Listed(n) = <<[side |-> Sign(n), size |-> Size(n)]>>
                     /\ Head(Listed(n)).side = Sign(n) /\ Head(Listed(n)).size = Size(n)
BY DEF Listed

(* An event that brings one position up to another on the same side.        *)
LEMMA ApplyListed ==
  ASSUME NEW m \in Int, NEW n \in Int, m = 0 \/ n = 0 \/ Sign(m) = Sign(n)
  PROVE  ApplyEvent(Listed(m), Sign(n), Size(n)) = Listed(n)
<1>1. Size(n) \in Nat /\ (n = 0 <=> Size(n) = 0) /\ (n # 0 => Sign(n) \in Directions)
  BY Signs DEF Directions
<1>2. CASE n = 0
  <2>1. Size(n) = 0
    BY <1>1, <1>2
  <2> QED BY <1>2, <2>1, ListedHead DEF ApplyEvent
<1>3. CASE n # 0 /\ m = 0
  <2>1. Listed(m) = <<>>
    BY <1>3, ListedHead
  <2>2. ApplyEvent(<<>>, Sign(n), Size(n)) = <<[side |-> Sign(n), size |-> Size(n)]>>
    BY <1>1, <1>3, ApplyToNone
  <2> QED BY <1>3, <2>1, <2>2, ListedHead
<1>4. CASE n # 0 /\ m # 0
  <2>1. PICK e : e = [side |-> Sign(n), size |-> Size(m)]
    OBVIOUS
  <2>2. Listed(m) = <<e>> /\ e \in Entries /\ e.side = Sign(n)
    BY <1>1, <1>4, <2>1, Signs, ListedHead DEF Entries
  <2>3. ApplyEvent(<<e>>, e.side, Size(n)) = <<[side |-> e.side, size |-> Size(n)]>>
    BY <1>1, <1>4, <2>2, ApplyToSame
  <2> QED BY <1>4, <2>2, <2>3, ListedHead
<1> QED BY <1>2, <1>3, <1>4

(* What FILLED makes of the position.                                      *)
LEMMA FilledOpening ==
  ASSUME NEW v \in Views, Opens(v), v.filled # 0, NEW qty \in 0 .. v.filled,
         positions = Listed(At(v, qty)), NEW o, FilledBy(v, o)
  PROVE  FilledPositions(o) = Listed(Net(v))
<1>1. v.filled \in Nat /\ qty \in Nat /\ v.dir \in Directions /\ v.base = 0
  BY DEF Views, Opens
<1>2. o.dir = v.dir /\ o.filled = v.filled /\ ~ o.reduceOnly
  BY DEF FilledBy, Opens
<1>3. PICK m \in Int : m = At(v, qty)
  BY <1>1, AtOpening
<1>4. PICK n \in Int : n = Net(v)
  BY <1>1, AtOpening DEF Net
<1>5. (qty = 0 => m = 0) /\ (qty # 0 => m # 0 /\ Sign(m) = v.dir)
  BY <1>1, <1>3, AtOpening
<1>6. n # 0 /\ Sign(n) = v.dir /\ Size(n) = v.filled
  BY <1>1, <1>4, AtOpening DEF Net
<1>7. ~ Opposite(o)
  <2>1. CASE m = 0
    BY <1>3, <2>1, ListedHead DEF Opposite
  <2>2. CASE m # 0
    <3>1. Head(positions).side = v.dir
      BY <1>3, <1>5, <2>2, ListedHead
    <3> QED BY <1>1, <1>2, <3>1 DEF Opposite, Directions
  <2> QED BY <2>1, <2>2
<1>8. FilledPositions(o) = ApplyEvent(Listed(m), Sign(n), Size(n))
  BY <1>2, <1>3, <1>6, <1>7 DEF FilledPositions
<1> QED BY <1>4, <1>5, <1>6, <1>8, ApplyListed

LEMMA FilledClosing ==
  ASSUME NEW v \in Views, Closes(v), v.filled # 0, positions = Listed(v.base), partials = {},
         NEW o, FilledBy(v, o)
  PROVE  FilledPositions(o) = Listed(Net(v))
<1>1. /\ v.filled \in Nat /\ v.dir \in Directions /\ v.base # 0 /\ v.base \in Int
      /\ Sign(v.base) = - v.dir /\ v.filled <= Size(v.base) /\ Size(v.base) \in Nat
  BY Signs DEF Views, Closes
<1>2. o.dir = v.dir /\ o.filled = v.filled
  BY DEF FilledBy
<1>3. Head(positions).side = - v.dir /\ Head(positions).size = Size(v.base) /\ positions # <<>>
  BY <1>1, ListedHead
<1>4. PICK n \in Int : n = Net(v)
  BY <1>1, AtClosing DEF Net
<1>5. /\ Size(n) = Size(v.base) - v.filled
      /\ n = 0 \/ Sign(n) = - v.dir
      /\ n = 0 <=> v.filled = Size(v.base)
  BY <1>1, <1>4, AtClosing DEF Net
<1>6. FilledPositions(o) = ApplyEvent(positions, - v.dir, Size(n))
  BY <1>1, <1>2, <1>3, <1>5 DEF FilledPositions, NetAfterFill, Opposite
<1>7. ApplyEvent(positions, - v.dir, Size(n)) = ApplyEvent(Listed(v.base), Sign(n), Size(n))
  <2>1. CASE n = 0
    <3>1. Size(n) = 0
      BY <2>1, Signs
    <3> QED BY <3>1 DEF ApplyEvent
  <2>2. CASE n # 0
    BY <1>5, <2>2
  <2> QED BY <2>1, <2>2
<1>8. v.base = 0 \/ n = 0 \/ Sign(v.base) = Sign(n)
  BY <1>1, <1>5
<1> QED BY <1>1, <1>4, <1>6, <1>7, <1>8, ApplyListed

LEMMA FilledLate ==
  ASSUME NEW v \in Views, v.reduceOnly, v.id \in partials, NEW o, FilledBy(v, o)
  PROVE  FilledPositions(o) = positions
BY DEF FilledPositions, FilledBy

(* What a position report makes of it.                                     *)
LEMMA HintSwallows ==
  ASSUME NEW net, OnPosition(net), botOpen
  PROVE  positions' = positions /\ manual' = manual /\ ~ botOpen'
BY DEF OnPosition

LEMMA PositionApplies ==
  ASSUME NEW net \in Int, OnPosition(net), ~ botOpen, NEW m \in Int, positions = Listed(m),
         m = 0 \/ net = 0 \/ Sign(m) = Sign(net)
  PROVE  /\ UNCHANGED botOpen
         /\ \/ m = 0 /\ net # 0 /\ positions' = positions /\ manual' = "pending"
            \/ positions' = Listed(net) /\ manual' \in {"no", manual}
<1>1. UNCHANGED botOpen
  BY DEF OnPosition
<1>2. CASE LooksManual(net)
  <2>1. m = 0 /\ net # 0
    BY <1>2, ListedHead DEF LooksManual
  <2> QED BY <1>1, <1>2, <2>1 DEF OnPosition
<1>3. CASE ~ LooksManual(net)
  <2>1. positions' = ApplyEvent(positions, Sign(net), Size(net)) /\ manual' \in {"no", manual}
    BY <1>3 DEF OnPosition
  <2>2. positions' = Listed(net)
    BY <2>1, ApplyListed
  <2> QED BY <1>1, <2>1, <2>2
<1> QED BY <1>2, <1>3

-----------------------------------------------------------------------------
(* A report is handled: the local state sees the view it leads to.         *)
LEMMA TellsSound ==
  ASSUME NEW x, NEW r, NEW y, Sound(x), Tells(x, r, y)
  PROVE  Sound(y)
BY DEF Tells, Begins, FirstOf, SecondOf, Continues, Sound, Idle

LEMMA ReceiveNew ==
  ASSUME NEW x \in Views, NEW y \in Views, NEW r, Sees(x), Begins(x, r, y), OnNew(r)
  PROVE  Sees(y)'
<1>1. positions' = positions /\ partials' = partials /\ manual' = manual /\ botOpen'
  BY DEF OnNew
<1>2. x.phase = "idle" /\ positions = Listed(x.base) /\ partials = {} /\ manual # "pending"
  <2>1. x.phase = "idle" /\ x.filled \in Nat
    BY DEF Begins, Views
  <2>2. PICK qty \in 0 .. x.filled : qty = 0 /\ positions = Listed(At(x, qty))
    BY <2>1 DEF Sees, SeesPosition, Shows
  <2>3. positions = Listed(x.base)
    BY <2>2, AtNone
  <2> QED BY <2>1, <2>3 DEF Sees, SeesPartials, SeesManual, InFills
<1>3. /\ y.base = x.base /\ 0 \in 0 .. y.filled /\ At(y, 0) = y.base
      /\ y.phase = "idle" \/ (y.phase = "work" /\ ~ y.later)
  BY AtNone DEF Begins, Views
<1>4. SeesPosition(y)'
  <2>1. Shows(y, 0)
    BY <1>3 DEF Shows
  <2> QED BY <1>1, <1>2, <1>3, <2>1 DEF SeesPosition
<1>5. SeesHint(y)' /\ SeesPartials(y)' /\ SeesManual(y)'
  BY <1>1, <1>2, <1>3 DEF SeesHint, SeesPartials, SeesManual, InFills
<1> QED BY <1>4, <1>5 DEF Sees

(* Where the position stands between two fills of an order.                *)
LEMMA ShownInt ==
  ASSUME NEW x \in Views, AtWork(x), NEW qty \in 0 .. x.filled
  PROVE  /\ At(x, qty) \in Int /\ qty \in Nat
         /\ x.base = 0 => (At(x, qty) = 0 <=> qty = 0)
         /\ x.base # 0 => (At(x, qty) = 0 <=> qty = Size(x.base))
         /\ At(x, qty) # 0 => Sign(At(x, qty)) = IF x.base = 0 THEN x.dir ELSE - x.dir
<1>1. x.filled \in Nat /\ qty \in Nat
  BY DEF Views
<1>2. CASE x.base = 0
  BY <1>1, <1>2, AtOpening
<1>3. CASE x.base # 0
  <2>1. Sign(x.base) = - x.dir /\ x.filled <= Size(x.base) /\ Size(x.base) \in Nat
    BY <1>3, Signs DEF AtWork, Opens, Closes, Views
  <2>2. qty <= Size(x.base)
    BY <1>1, <2>1
  <2> QED BY <1>1, <1>3, <2>1, <2>2, AtClosing
<1> QED BY <1>2, <1>3

(* Two amounts of one order lie on the same side, or at flat.              *)
LEMMA SameSide ==
  ASSUME NEW x \in Views, AtWork(x), NEW p \in 0 .. x.filled, NEW q \in 0 .. x.filled
  PROVE  At(x, p) = 0 \/ At(x, q) = 0 \/ Sign(At(x, p)) = Sign(At(x, q))
BY ShownInt

(* Views that differ in phase only, or are told more of the order, place an *)
(* amount at the same position.                                            *)
LEMMA AtMoves ==
  ASSUME NEW x, NEW y, y.base = x.base, y.dir = x.dir, NEW qty
  PROVE  At(y, qty) = At(x, qty)
BY DEF At

Same(x, y) == /\ y.base = x.base /\ y.dir = x.dir /\ y.id = x.id
              /\ y.reduceOnly = x.reduceOnly

LEMMA FirstFields ==
  ASSUME NEW x \in Views, NEW y \in Views, NEW r, FirstOf(x, r, y)
  PROVE  Same(x, y) /\ y.later = x.later /\ y.filled > x.filled /\ AtWork(y)
         /\ x.phase = "work"
BY DEF FirstOf, Same, Views

LEMMA ContinueFields ==
  ASSUME NEW x \in Views, NEW y \in Views, Continues(x, y)
  PROVE  Same(x, y) /\ y.later /\ y.filled = x.filled /\ AtWork(y) /\ y.phase = "work"
BY DEF Continues, Same, Views

(* The position report comes first.                                        *)
LEMMA ReceivePositionFirst ==
  ASSUME NEW x \in Views, NEW y \in Views, NEW r, Sees(x), FirstOf(x, r, y),
         y.phase = "position", OnPosition(r.net), UNCHANGED partials
  PROVE  Sees(y)'
<1>1. /\ Same(x, y) /\ y.later = x.later /\ y.filled > x.filled /\ AtWork(y) /\ x.phase = "work"
      /\ x.filled \in Nat /\ y.filled \in Nat
  BY FirstFields DEF Views
<1>2. PICK net : net = r.net
  OBVIOUS
<1>3. net = Net(y) /\ OnPosition(net)
  BY <1>2 DEF FirstOf, FilledBy
<1>4. PICK qty \in 0 .. x.filled : Shows(x, qty) /\ positions = Listed(At(x, qty))
  BY DEF Sees, SeesPosition
<1>5. qty \in 0 .. y.filled /\ y.filled \in 0 .. y.filled /\ At(y, qty) = At(x, qty)
  BY <1>1, <1>4, AtMoves DEF Same
<1>6. PICK m \in Int : m = At(y, qty)
  BY <1>1, <1>5, ShownInt
<1>7. net \in Int /\ (m = 0 \/ net = 0 \/ Sign(m) = Sign(net))
  BY <1>1, <1>3, <1>5, <1>6, ShownInt, SameSide DEF Net
<1>8. SeesPartials(y)'
  BY <1>1 DEF Sees, SeesPartials, InFills, Same
<1>9. CASE ~ x.later
  <2>1. botOpen /\ qty = 0
    BY <1>1, <1>4, <1>9 DEF Sees, SeesHint, Shows
  <2>2. positions' = positions /\ manual' = manual /\ ~ botOpen'
    BY <1>3, <2>1, HintSwallows
  <2>3. SeesPosition(y)'
    <3>1. Shows(y, qty)
      BY <1>1, <1>9, <2>1 DEF Shows
    <3> QED BY <1>4, <1>5, <2>2, <3>1 DEF SeesPosition
  <2>4. SeesHint(y)'
    BY <2>2 DEF SeesHint
  <2>5. SeesManual(y)'
    BY <1>9, <2>2 DEF Sees, SeesManual
  <2> QED BY <1>8, <2>3, <2>4, <2>5 DEF Sees
<1>10. CASE x.later
  <2>1. ~ botOpen
    BY <1>1, <1>10 DEF Sees, SeesHint
  <2>2. /\ botOpen' = botOpen
        /\ \/ m = 0 /\ net # 0 /\ positions' = positions /\ manual' = "pending"
           \/ positions' = Listed(net) /\ manual' \in {"no", manual}
    BY <1>3, <1>4, <1>5, <1>6, <1>7, <2>1, PositionApplies
  <2>3. SeesHint(y)'
    BY <2>1, <2>2 DEF SeesHint
  <2>4. CASE m = 0 /\ net # 0 /\ positions' = positions /\ manual' = "pending"
    <3>1. y.base = 0 /\ qty = 0
      <4>1. CASE y.base # 0
        <5>1. qty = Size(y.base)
          BY <1>1, <1>5, <1>6, <2>4, <4>1, ShownInt
        <5>2. y.filled <= Size(y.base) /\ Size(y.base) \in Nat
          BY <1>1, <4>1, Signs DEF AtWork, Opens, Closes, Views
        <5> QED BY <1>1, <1>4, <5>1, <5>2
      <4>2. CASE y.base = 0
        BY <1>1, <1>5, <1>6, <2>4, <4>2, ShownInt
      <4> QED BY <4>1, <4>2
    <3>2. Shows(y, qty)
      BY <1>1, <1>10, <3>1 DEF Shows
    <3>3. SeesPosition(y)'
      BY <1>4, <1>5, <2>4, <3>2 DEF SeesPosition
    <3>4. SeesManual(y)'
      BY <1>1, <1>10, <3>1 DEF SeesManual, InFills
    <3> QED BY <1>8, <2>3, <3>3, <3>4 DEF Sees
  <2>5. CASE positions' = Listed(net) /\ manual' \in {"no", manual}
    <3>1. Shows(y, y.filled)
      BY <1>1, <1>10 DEF Shows
    <3>2. SeesPosition(y)'
      BY <1>3, <1>5, <2>5, <3>1 DEF SeesPosition, Net
    <3>3. SeesManual(y)'
      BY <1>1, <2>5 DEF Sees, SeesManual, InFills, Same
    <3> QED BY <1>8, <2>3, <3>2, <3>3 DEF Sees
  <2> QED BY <2>2, <2>4, <2>5
<1> QED BY <1>9, <1>10 DEF Views

(* The order report comes first: of a partial fill.                        *)
LEMMA ReceivePartFirst ==
  ASSUME NEW x \in Views, NEW y \in Views, NEW r, Sees(x), FirstOf(x, r, y),
         y.phase = "part", partials' = partials \cup {r.id},
         UNCHANGED <<positions, botOpen, manual>>
  PROVE  Sees(y)'
<1>1. /\ Same(x, y) /\ y.later = x.later /\ y.filled > x.filled /\ AtWork(y) /\ x.phase = "work"
      /\ x.filled \in Nat /\ y.filled \in Nat /\ r.id = y.id
  BY FirstFields DEF Views, FirstOf, FilledBy
<1>2. PICK qty \in 0 .. x.filled : Shows(x, qty) /\ positions = Listed(At(x, qty))
  BY DEF Sees, SeesPosition
<1>3. qty \in 0 .. y.filled /\ At(y, qty) = At(x, qty) /\ qty < y.filled
  BY <1>1, <1>2, AtMoves DEF Same
<1>4. Shows(y, qty)
  BY <1>1, <1>2, <1>3 DEF Shows, Views
<1>5. SeesPosition(y)'
  BY <1>2, <1>3, <1>4 DEF SeesPosition
<1>6. SeesHint(y)'
  BY <1>1 DEF Sees, SeesHint
<1>7. SeesPartials(y)'
  BY <1>1 DEF Sees, SeesPartials, InFills, Same
<1>8. SeesManual(y)'
  BY <1>1 DEF Sees, SeesManual, InFills, Same
<1> QED BY <1>5, <1>6, <1>7, <1>8 DEF Sees

(* A FILLED report leaves no pending close and no partial fills.           *)
LEMMA FilledClears ==
  ASSUME NEW x, NEW o, Sees(x), o.id = x.id, OnFilled(o)
  PROVE  /\ partials' = {} /\ manual' # "pending" /\ botOpen' = botOpen
         /\ positions' = FilledPositions(o)
BY DEF OnFilled, Sees, SeesPartials

(* The order report comes first: of a complete fill.                       *)
LEMMA ReceiveDoneFirst ==
  ASSUME NEW x \in Views, NEW y \in Views, NEW r, Sees(x), FirstOf(x, r, y),
         y.phase = "done", OnFilled(r)
  PROVE  Sees(y)'
<1>1. /\ Same(x, y) /\ y.later = x.later /\ y.filled > x.filled /\ AtWork(y) /\ x.phase = "work"
      /\ x.filled \in Nat /\ y.filled \in Nat
  BY FirstFields DEF Views
<1>2. FilledBy(y, r)
  BY DEF FirstOf
<1>3. r.id = x.id
  BY <1>1, <1>2 DEF FilledBy, Same
<1>4. /\ partials' = {} /\ manual' # "pending" /\ botOpen' = botOpen
      /\ positions' = FilledPositions(r)
  BY <1>3, FilledClears
<1>5. PICK qty \in 0 .. x.filled : Shows(x, qty) /\ positions = Listed(At(x, qty))
  BY DEF Sees, SeesPosition
<1>6. /\ qty \in 0 .. y.filled /\ At(y, qty) = At(x, qty) /\ qty < y.filled /\ y.filled # 0
      /\ y.filled \in 0 .. y.filled
  BY <1>1, <1>5, AtMoves DEF Same
<1>7. SeesPosition(y)'
  <2>1. CASE Opens(y)
    <3>1. FilledPositions(r) = Listed(Net(y))
      BY <1>2, <1>5, <1>6, <2>1, FilledOpening
    <3>2. Shows(y, y.filled)
      BY <2>1 DEF Shows, Opens
    <3> QED BY <1>4, <1>6, <3>1, <3>2 DEF SeesPosition, Net
  <2>2. CASE Closes(y) /\ ~ x.later
    <3>1. qty = 0
      BY <1>1, <1>5, <2>2 DEF Shows
    <3>2. positions = Listed(y.base)
      BY <1>5, <1>6, <3>1, AtNone
    <3>3. partials = {}
      BY <1>1, <2>2 DEF Sees, SeesPartials
    <3>4. FilledPositions(r) = Listed(Net(y))
      BY <1>2, <1>6, <2>2, <3>2, <3>3, FilledClosing
    <3>5. Shows(y, y.filled)
      BY <1>1, <2>2 DEF Shows
    <3> QED BY <1>4, <1>6, <3>4, <3>5 DEF SeesPosition, Net
  <2>3. CASE Closes(y) /\ x.later
    <3>1. y.reduceOnly /\ y.base # 0
      BY <1>1, <2>3 DEF Closes
    <3>2. y.id \in partials
      BY <1>1, <2>3, <3>1 DEF Sees, SeesPartials, InFills, Same
    <3>3. positions' = positions
      BY <1>2, <1>4, <3>1, <3>2, FilledLate
    <3>4. Shows(y, qty)
      BY <1>1, <1>6, <2>3, <3>1 DEF Shows
    <3> QED BY <1>5, <1>6, <3>3, <3>4 DEF SeesPosition
  <2> QED BY <1>1, <2>1, <2>2, <2>3 DEF AtWork, Views
<1>8. SeesHint(y)'
  BY <1>1, <1>4 DEF Sees, SeesHint
<1>9. SeesPartials(y)' /\ SeesManual(y)'
  BY <1>4 DEF SeesPartials, SeesManual, InFills
<1> QED BY <1>7, <1>8, <1>9 DEF Sees

(* The position was told; the order report of a partial fill follows.      *)
LEMMA ReceivePartSecond ==
  ASSUME NEW x \in Views, NEW y \in Views, NEW r, Sees(x), x.phase = "position", r.id = x.id,
         Continues(x, y), partials' = partials \cup {r.id},
         UNCHANGED <<positions, botOpen, manual>>
  PROVE  Sees(y)'
<1>1. Same(x, y) /\ y.later /\ y.filled = x.filled /\ AtWork(y) /\ y.phase = "work"
  BY ContinueFields
<1>2. PICK qty \in 0 .. x.filled : Shows(x, qty) /\ positions = Listed(At(x, qty))
  BY DEF Sees, SeesPosition
<1>3. qty \in 0 .. y.filled /\ At(y, qty) = At(x, qty) /\ Shows(y, qty)
  BY <1>1, <1>2, AtMoves DEF Same, Shows
<1>4. SeesPosition(y)'
  BY <1>2, <1>3 DEF SeesPosition
<1>5. SeesHint(y)'
  BY <1>1 DEF Sees, SeesHint
<1>6. SeesPartials(y)'
  BY <1>1 DEF Sees, SeesPartials, InFills, Same
<1>7. SeesManual(y)'
  BY <1>1 DEF Sees, SeesManual, InFills, Same
<1> QED BY <1>4, <1>5, <1>6, <1>7 DEF Sees

(* Seen at rest.                                                           *)
LEMMA SeesIdle ==
  ASSUME NEW net \in Int, positions' = Listed(net), partials' = {}, manual' # "pending"
  PROVE  Sees(Idle(net))'
<1>1. PICK y : y = Idle(net)
  OBVIOUS
<1>2. y.phase = "idle" /\ y.filled = 0 /\ 0 \in 0 .. y.filled /\ At(y, 0) = net
  BY <1>1 DEF Idle, At
<1>3. Shows(y, 0)
  BY <1>2 DEF Shows
<1>4. SeesPosition(y)'
  BY <1>2, <1>3 DEF SeesPosition
<1>5. SeesHint(y)' /\ SeesPartials(y)' /\ SeesManual(y)'
  BY <1>2 DEF SeesHint, SeesPartials, SeesManual, InFills
<1> QED BY <1>1, <1>4, <1>5 DEF Sees

(* ... of a complete fill follows.                                         *)
LEMMA ReceiveDoneSecond ==
  ASSUME NEW x \in Views, NEW r, AtWork(x), Sees(x), x.phase = "position", FilledBy(x, r),
         OnFilled(r)
  PROVE  Sees(Idle(Net(x)))'
<1>1. r.id = x.id /\ x.filled \in Nat /\ x.filled # 0 /\ x.filled \in 0 .. x.filled
  BY DEF FilledBy, Views, AtWork
<1>2. /\ partials' = {} /\ manual' # "pending"
      /\ positions' = FilledPositions(r)
  BY <1>1, FilledClears
<1>3. PICK qty \in 0 .. x.filled : Shows(x, qty) /\ positions = Listed(At(x, qty))
  BY DEF Sees, SeesPosition
<1>4. FilledPositions(r) = Listed(Net(x))
  <2>1. CASE Opens(x)
    BY <1>1, <1>3, <2>1, FilledOpening
  <2>2. CASE Closes(x) /\ ~ x.later
    <3>1. qty = 0
      BY <1>3, <2>2 DEF Shows
    <3>2. positions = Listed(x.base)
      BY <1>3, <3>1, AtNone
    <3>3. partials = {}
      BY <2>2 DEF Sees, SeesPartials
    <3> QED BY <1>1, <2>2, <3>2, <3>3, FilledClosing
  <2>3. CASE Closes(x) /\ x.later
    <3>1. x.reduceOnly /\ x.base # 0
      BY <2>3 DEF Closes
    <3>2. x.id \in partials
      BY <2>3, <3>1 DEF Sees, SeesPartials, InFills
    <3>3. FilledPositions(r) = positions
      BY <3>1, <3>2, FilledLate
    <3>4. qty = x.filled
      BY <1>3, <2>3, <3>1 DEF Shows
    <3> QED BY <1>3, <3>3, <3>4 DEF Net
  <2> QED BY <2>1, <2>2, <2>3 DEF AtWork, Views
<1>5. Net(x) \in Int
  BY <1>1, ShownInt DEF Net
<1> QED BY <1>2, <1>4, <1>5, SeesIdle

(* The order report was told; the position follows, more to come.          *)
LEMMA ReceivePositionSecond ==
  ASSUME NEW x \in Views, NEW y \in Views, NEW net, AtWork(x), Sees(x), x.phase = "part",
         net = Net(x), Continues(x, y), OnPosition(net), UNCHANGED partials
  PROVE  Sees(y)'
<1>1. /\ Same(x, y) /\ y.later /\ y.filled = x.filled /\ AtWork(y) /\ y.phase = "work"
      /\ x.filled \in Nat /\ x.filled \in 0 .. x.filled
  BY ContinueFields DEF Views
<1>2. PICK qty \in 0 .. x.filled : Shows(x, qty) /\ positions = Listed(At(x, qty))
  BY DEF Sees, SeesPosition
<1>3. PICK m \in Int : m = At(x, qty)
  BY <1>2, ShownInt
<1>4. net \in Int /\ (m = 0 \/ net = 0 \/ Sign(m) = Sign(net))
  BY <1>1, <1>2, <1>3, ShownInt, SameSide DEF Net
<1>5. SeesPartials(y)'
  BY <1>1 DEF Sees, SeesPartials, InFills, Same
<1>6. \A q \in 0 .. x.filled : q \in 0 .. y.filled /\ At(y, q) = At(x, q) /\ Shows(y, q)
  BY <1>1, AtMoves DEF Same, Shows
<1>7. CASE ~ x.later
  <2>1. botOpen
    BY <1>7 DEF Sees, SeesHint
  <2>2. positions' = positions /\ manual' = manual /\ ~ botOpen'
    BY <2>1, HintSwallows
  <2>3. SeesPosition(y)'
    BY <1>2, <1>6, <2>2 DEF SeesPosition
  <2>4. SeesHint(y)' /\ SeesManual(y)'
    BY <1>1, <1>7, <2>2 DEF Sees, SeesHint, SeesManual
  <2> QED BY <1>5, <2>3, <2>4 DEF Sees
<1>8. CASE x.later
  <2>1. ~ botOpen
    BY <1>8 DEF Sees, SeesHint
  <2>2. /\ botOpen' = botOpen
        /\ \/ m = 0 /\ net # 0 /\ positions' = positions /\ manual' = "pending"
           \/ positions' = Listed(net) /\ manual' \in {"no", manual}
    BY <1>2, <1>3, <1>4, <2>1, PositionApplies
  <2>3. SeesHint(y)'
    BY <1>1, <2>1, <2>2 DEF SeesHint
  <2>4. CASE m = 0 /\ net # 0 /\ positions' = positions /\ manual' = "pending"
    <3>1. y.base = 0
      <4>1. CASE x.base # 0
        <5>1. qty = Size(x.base)
          BY <1>2, <1>3, <2>4, <4>1, ShownInt
        <5>2. x.filled < Size(x.base) /\ Size(x.base) \in Nat
          BY <4>1, Signs DEF AtWork, Opens, Closes, Views
        <5> QED BY <1>1, <1>2, <5>1, <5>2
      <4> QED BY <1>1, <4>1 DEF Same
    <3>2. SeesPosition(y)'
      BY <1>2, <1>6, <2>4 DEF SeesPosition
    <3>3. SeesManual(y)'
      BY <1>1, <3>1 DEF SeesManual, InFills
    <3> QED BY <1>5, <2>3, <3>2, <3>3 DEF Sees
  <2>5. CASE positions' = Listed(net) /\ manual' \in {"no", manual}
    <3>1. SeesPosition(y)'
      BY <1>1, <1>6, <2>5 DEF SeesPosition, Net
    <3>2. SeesManual(y)'
      BY <1>1, <2>5 DEF Sees, SeesManual, InFills, Same
    <3> QED BY <1>5, <2>3, <3>1, <3>2 DEF Sees
  <2> QED BY <2>2, <2>4, <2>5
<1> QED BY <1>7, <1>8 DEF Views

(* ... and nothing more to come.                                           *)
LEMMA ReceivePositionLast ==
  ASSUME NEW x \in Views, NEW net, AtWork(x), Sees(x), x.phase = "done",
         net = Net(x), OnPosition(net), UNCHANGED partials
  PROVE  Sees(Idle(net))'
<1>1. x.filled \in Nat /\ x.filled \in 0 .. x.filled /\ x.filled # 0
  BY DEF Views, AtWork
<1>2. PICK qty \in 0 .. x.filled : Shows(x, qty) /\ positions = Listed(At(x, qty))
  BY DEF Sees, SeesPosition
<1>3. PICK m \in Int : m = At(x, qty)
  BY <1>2, ShownInt
<1>4. net \in Int /\ (m = 0 \/ net = 0 \/ Sign(m) = Sign(net))
  BY <1>1, <1>2, <1>3, ShownInt, SameSide DEF Net
<1>5. partials' = {} /\ manual # "pending"
  BY DEF Sees, SeesPartials, SeesManual, InFills
<1>6. positions' = Listed(net) /\ manual' # "pending"
  <2>1. CASE ~ x.later
    <3>1. botOpen /\ qty = x.filled
      BY <1>2, <2>1 DEF Sees, SeesHint, Shows
    <3>2. positions' = positions /\ manual' = manual
      BY <3>1, HintSwallows
    <3> QED BY <1>2, <1>5, <3>1, <3>2 DEF Net
  <2>2. CASE x.later
    <3>1. ~ botOpen
      BY <2>2 DEF Sees, SeesHint
    <3>2. m # 0
      <4>1. CASE x.base = 0
        <5>1. qty = x.filled
          BY <1>2, <2>2, <4>1 DEF Shows
        <5> QED BY <1>1, <1>2, <1>3, <4>1, <5>1, ShownInt
      <4>2. CASE x.base # 0
        <5>1. qty < x.filled
          BY <1>2, <2>2, <4>2 DEF Shows
        <5>2. x.filled <= Size(x.base) /\ Size(x.base) \in Nat
          BY <4>2, Signs DEF AtWork, Opens, Closes, Views
        <5>3. qty # Size(x.base)
          BY <1>1, <5>1, <5>2
        <5> QED BY <1>2, <1>3, <4>2, <5>3, ShownInt
      <4> QED BY <4>1, <4>2
    <3>3. positions' = Listed(net) /\ manual' \in {"no", manual}
      BY <1>2, <1>3, <1>4, <3>1, <3>2, PositionApplies
    <3> QED BY <1>5, <3>3
  <2> QED BY <2>1, <2>2 DEF Views
<1> QED BY <1>4, <1>5, <1>6, SeesIdle

LEMMA ReceiveSees ==
  ASSUME NEW x \in Views, NEW y \in Views, Sound(x), Sees(x), Receive,
         NEW r, r = Head(stream), Tells(x, r, y)
  PROVE  Sees(y)'
<1>1. CASE Begins(x, r, y)
  <2>1. OnNew(r)
    BY <1>1 DEF Receive, Begins
  <2> QED BY <1>1, <2>1, ReceiveNew
<1>2. CASE r.type = "position"
  <2>1. OnPosition(r.net) /\ UNCHANGED partials
    BY <1>2 DEF Receive
  <2>2. CASE FirstOf(x, r, y)
    <3>1. y.phase = "position"
      BY <1>2, <2>2 DEF FirstOf, FilledBy
    <3> QED BY <2>1, <2>2, <3>1, ReceivePositionFirst
  <2>3. CASE SecondOf(x, r, y)
    <3>1. AtWork(x)
      BY <1>2, <2>3 DEF SecondOf, FilledBy, Sound
    <3>2. PICK net : net = Net(x)
      OBVIOUS
    <3>3. r.net = net
      BY <1>2, <2>3, <3>2 DEF SecondOf, FilledBy
    <3>4. OnPosition(net)
      BY <2>1, <3>3
    <3>5. CASE x.phase = "part" /\ Continues(x, y)
      BY <2>1, <3>1, <3>2, <3>4, <3>5, ReceivePositionSecond
    <3>6. CASE x.phase = "done" /\ y = Idle(Net(x))
      <4>1. Sees(Idle(net))'
        BY <2>1, <3>1, <3>2, <3>4, <3>6, ReceivePositionLast
      <4> QED BY <3>2, <3>6, <4>1
    <3> QED BY <1>2, <2>3, <3>5, <3>6 DEF SecondOf, FilledBy
  <2> QED BY <1>2, <2>2, <2>3 DEF Tells, Begins
<1>3. CASE r.type = "PARTIALLY_FILLED"
  <2>1. partials' = partials \cup {r.id} /\ UNCHANGED <<positions, botOpen, manual>>
    BY <1>3 DEF Receive
  <2>2. CASE FirstOf(x, r, y)
    <3>1. y.phase = "part"
      BY <1>3, <2>2 DEF FirstOf, FilledBy
    <3> QED BY <2>1, <2>2, <3>1, ReceivePartFirst
  <2>3. CASE SecondOf(x, r, y)
    <3>1. x.phase = "position" /\ r.id = x.id /\ Continues(x, y)
      BY <1>3, <2>3 DEF SecondOf, FilledBy
    <3> QED BY <2>1, <3>1, ReceivePartSecond
  <2> QED BY <1>3, <2>2, <2>3 DEF Tells, Begins
<1>4. CASE r.type = "FILLED"
  <2>1. OnFilled(r)
    BY <1>4 DEF Receive
  <2>2. CASE FirstOf(x, r, y)
    <3>1. y.phase = "done"
      BY <1>4, <2>2 DEF FirstOf
    <3> QED BY <2>1, <2>2, <3>1, ReceiveDoneFirst
  <2>3. CASE SecondOf(x, r, y)
    <3>1. x.phase = "position" /\ FilledBy(x, r) /\ y = Idle(Net(x)) /\ AtWork(x)
      BY <1>4, <2>3 DEF SecondOf, Sound
    <3>2. Sees(Idle(Net(x)))'
      BY <2>1, <3>1, ReceiveDoneSecond
    <3> QED BY <3>1, <3>2
  <2> QED BY <1>4, <2>2, <2>3 DEF Tells, Begins
<1> QED BY <1>1, <1>2, <1>3, <1>4 DEF Tells, FirstOf, SecondOf, FilledBy

-----------------------------------------------------------------------------
(* What the exchange does next, and what it tells of it.                    *)
LEMMA ToldAtRest ==
  ASSUME order = NoOrder
  PROVE  Told = Idle(exch)
BY DEF Told, ToldBy

LEMMA ToldAtWork ==
  ASSUME ExchTypes, order # NoOrder
  PROVE  /\ Told \in Views /\ order \in Works(placed)
         /\ Told.phase = "work" /\ (Told.later <=> order.filled # 0)
         /\ Told.filled = order.filled /\ Told.id = order.id /\ Told.dir = order.dir
         /\ Told.reduceOnly = order.reduceOnly /\ Net(Told) = exch
<1>1. placed \in Nat /\ exch \in Int /\ order \in Works(placed)
  BY Bounds, NoOrderId DEF ExchTypes
<1>2. order.filled \in Nat /\ order.dir \in Directions /\ order.id \in Nat
      /\ order.reduceOnly \in BOOLEAN
  BY <1>1 DEF Works
<1>3. PICK b \in Int : b = IF order.dir = 1 THEN exch - order.filled ELSE exch + order.filled
  BY <1>1, <1>2
<1>4. Told = [phase |-> "work", later |-> order.filled # 0, base |-> b,
              filled |-> order.filled, id |-> order.id, dir |-> order.dir,
              reduceOnly |-> order.reduceOnly]
  BY <1>3 DEF Told, ToldBy
<1>5. (order.filled # 0) \in BOOLEAN
  OBVIOUS
<1>6. Told \in Views
  BY <1>2, <1>4, <1>5 DEF Views, Phases
<1>7. Net(Told) = exch
  BY <1>1, <1>2, <1>3, <1>4 DEF Net, At
<1> QED BY <1>1, <1>4, <1>6, <1>7

LEMMA IdleIsView ==
  ASSUME NEW net \in Int
  PROVE  Idle(net) \in Views /\ Sound(Idle(net))
BY DEF Idle, Views, Phases, Directions, Sound

LEMMA ToldIsView ==
  ASSUME NEW n \in Nat, NEW o \in OrdersTo(n), NEW net \in Int
  PROVE  ToldBy(o, net) \in Views
<1>1. CASE o = NoOrder
  BY <1>1, IdleIsView DEF ToldBy
<1>2. CASE o # NoOrder
  <2>1. o \in Works(n)
    BY <1>2, NoOrderId
  <2>2. /\ o.filled \in Nat /\ o.dir \in Directions /\ o.id \in Nat /\ o.reduceOnly \in BOOLEAN
        /\ (o.filled # 0) \in BOOLEAN
    BY <2>1 DEF Works
  <2>3. PICK b \in Int : b = IF o.dir = 1 THEN net - o.filled ELSE net + o.filled
    BY <2>2
  <2>4. ToldBy(o, net) = [phase |-> "work", later |-> o.filled # 0, base |-> b,
                          filled |-> o.filled, id |-> o.id, dir |-> o.dir,
                          reduceOnly |-> o.reduceOnly]
    BY <1>2, <2>3 DEF ToldBy
  <2> QED BY <2>2, <2>4 DEF Views, Phases
<1> QED BY <1>1, <1>2

LEMMA ToldTypes ==
  ASSUME Types, Types'
  PROVE  Told \in Views /\ Told' \in Views
<1>1. placed \in Nat /\ order \in OrdersTo(placed) /\ exch \in Int
  BY Bounds DEF Types, ExchTypes
<1>2. placed' \in Nat /\ order' \in OrdersTo(placed') /\ exch' \in Int
  BY Bounds DEF Types, ExchTypes
<1>3. ToldBy(order, exch) \in Views
  BY <1>1, ToldIsView
<1>4. ToldBy(order', exch') \in Views
  BY <1>2, ToldIsView
<1> QED BY <1>3, <1>4 DEF Told

Quiet == UNCHANGED <<positions, botOpen, partials, manual>>

LEMMA QuietSees ==
  ASSUME Quiet, NEW x, Sees(x)
  PROVE  Sees(x)'
BY DEF Quiet, Sees, SeesPosition, SeesHint, SeesPartials, SeesManual

LEMMA NothingTold ==
  ASSUME Quiet, UNCHANGED <<exch, order, stream>>, Matched
  PROVE  Matched'
<1>1. Told' = Told
  BY DEF Told, ToldBy
<1>2. PICK x \in Views : Sound(x) /\ Reaches(stream, x, Told) /\ Sees(x)
  BY DEF Matched
<1>3. PICK e : e = Told
  OBVIOUS
<1>4. Reaches(stream, x, e)
  BY <1>2, <1>3
<1>5. Reaches(stream', x, e)
  BY <1>4
<1>6. Reaches(stream', x, Told')
  BY <1>1, <1>3, <1>5
<1>7. Sees(x)'
  BY <1>2, QuietSees
<1> QED BY <1>2, <1>6, <1>7 DEF Matched

LEMMA OneTold ==
  ASSUME Types, Types', Quiet, Matched, NEW r, Appended(stream', stream, r), Tells(Told, r, Told')
  PROVE  Matched'
<1>1. PICK x \in Views : Sound(x) /\ Reaches(stream, x, Told) /\ Sees(x)
  BY DEF Matched
<1>2. PICK e, y \in Views : e = Told /\ y = Told'
  BY ToldTypes
<1>3. PICK S : S = ReportsTo(placed) \cup {r}
  OBVIOUS
<1>4. stream \in Seq(S) /\ r \in S
  BY <1>3, Widens DEF Types, ExchTypes
<1>5. PICK p : p = stream'
  OBVIOUS
<1>6. Reaches(stream, x, e) /\ Tells(e, r, y) /\ Appended(p, stream, r)
  BY <1>1, <1>2, <1>5
<1>7. Reaches(p, x, y)
  BY <1>4, <1>6, ReachAppend
<1>8. Sees(x)'
  BY <1>1, QuietSees
<1>9. Reaches(stream', x, Told')
  BY <1>2, <1>5, <1>7
<1> QED BY <1>1, <1>8, <1>9 DEF Matched

LEMMA TwoTold ==
  ASSUME Types, Types', Quiet, Matched, NEW a, NEW b, stream' = stream \o <<a, b>>,
         NEW w \in Views, Tells(Told, a, w), Tells(w, b, Told')
  PROVE  Matched'
<1>1. PICK x \in Views : Sound(x) /\ Reaches(stream, x, Told) /\ Sees(x)
  BY DEF Matched
<1>2. PICK e, y \in Views : e = Told /\ y = Told'
  BY ToldTypes
<1>3. PICK S : S = ReportsTo(placed) \cup {a, b}
  OBVIOUS
<1>4. stream \in Seq(S) /\ a \in S /\ b \in S
  BY <1>3, Widens DEF Types, ExchTypes
<1>5. PICK q : q = stream \o <<a>>
  OBVIOUS
<1>6. Reaches(stream, x, e) /\ Tells(e, a, w) /\ Appended(q, stream, a)
  BY <1>1, <1>2, <1>5 DEF Appended
<1>7. Reaches(q, x, w)
  BY <1>4, <1>6, ReachAppend
<1>8. q \in Seq(S)
  BY <1>4, <1>5
<1>9. PICK p : p = stream'
  OBVIOUS
<1>10. p = q \o <<b>>
  <2>1. <<a>> \in Seq(S) /\ <<b>> \in Seq(S)
    BY <1>4
  <2>2. q \o <<b>> = stream \o (<<a>> \o <<b>>)
    BY <1>4, <1>5, <2>1, ConcatAssociative
  <2>3. <<a>> \o <<b>> = <<a, b>>
    <3>1. Append(<<a>>, b) = <<a>> \o <<b>> /\ Append(<<a>>, b) = <<a, b>>
      BY <1>4, <2>1, AppendIsConcat, AppendOne
    <3> QED BY <3>1
  <2> QED BY <1>9, <2>2, <2>3
<1>11. Tells(w, b, y) /\ Appended(p, q, b)
  BY <1>2, <1>10 DEF Appended
<1>12. Reaches(p, x, y)
  BY <1>4, <1>7, <1>8, <1>11, ReachAppend
<1>13. Sees(x)'
  BY <1>1, QuietSees
<1>14. Reaches(stream', x, Told')
  BY <1>2, <1>9, <1>12
<1> QED BY <1>1, <1>13, <1>14 DEF Matched

(* An order that neither adds to the position nor turns it is accepted.     *)
LEMMA AcceptStep ==
  ASSUME Types, Types', Quiet, NEW o \in Works(placed + 1), o.filled = 0, Accepts(o),
         ~ disturbed', Matched
  PROVE  Limit' /\ Matched' /\ link = "up"
<1>1. /\ exch \in Int /\ exch' = exch /\ order = NoOrder /\ placed' = placed + 1 /\ placed \in Nat
      /\ link = "up" /\ ~ AddsOrTurns(o)
      /\ stream' = stream \o <<OrderReport(o, "NEW")>>
  <2>1. placed \in Nat /\ exch \in Int
    BY Bounds DEF Types, ExchTypes
  <2>2. /\ exch' = exch /\ order = NoOrder /\ placed' = placed + 1
        /\ ~ AddsOrTurns(o) /\ ~ Missed
        /\ Sends(<<OrderReport(o, "NEW")>>)
    BY DEF Accepts
  <2> QED BY <2>1, <2>2 DEF Missed, Sends
<1>2. o.dir \in Directions /\ o.left \in Nat \ {0} /\ o.id \in Nat \ {0} /\ o.reduceOnly \in BOOLEAN
  BY <1>1 DEF Works
<1>3. /\ order'.id = o.id /\ order'.dir = o.dir /\ order'.filled = 0
      /\ order'.reduceOnly = o.reduceOnly
      /\ order'.left = IF o.reduceOnly /\ o.left > Size(exch) THEN Size(exch) ELSE o.left
  BY DEF Accepts, Works
<1>4. order' # NoOrder
  BY <1>2, <1>3 DEF NoOrder
<1>5. PICK t : t = Told'
  OBVIOUS
<1>6. /\ t = [phase |-> "work", later |-> FALSE, base |-> exch, filled |-> 0,
              id |-> o.id, dir |-> o.dir, reduceOnly |-> o.reduceOnly]
  <2>1. t = [phase |-> "work", later |-> order'.filled # 0,
             base |-> IF order'.dir = 1 THEN exch' - order'.filled ELSE exch' + order'.filled,
             filled |-> order'.filled, id |-> order'.id, dir |-> order'.dir,
             reduceOnly |-> order'.reduceOnly]
    BY <1>4, <1>5 DEF Told, ToldBy
  <2>2. (IF order'.dir = 1 THEN exch' - order'.filled ELSE exch' + order'.filled) = exch
    BY <1>1, <1>3
  <2>3. (order'.filled # 0) = FALSE
    BY <1>3
  <2> QED BY <1>3, <2>1, <2>2, <2>3
<1>7. exch = 0 => ~ o.reduceOnly
  <2>1. o.reduceOnly => exch * o.dir < 0
    BY DEF Accepts
  <2> QED BY <1>1, <1>2, <2>1, Against
<1>8. exch # 0 => Sign(exch) = - o.dir
  <2>1. ~ (exch * o.dir > 0)
    BY <1>1 DEF AddsOrTurns
  <2>2. ~ (IF o.dir = 1 THEN exch > 0 ELSE exch < 0)
    BY <1>1, <1>2, <2>1, Against
  <2>3. o.dir = 1 \/ o.dir = -1
    BY <1>2 DEF Directions
  <2> QED BY <1>1, <2>2, <2>3, Signs
<1>9. exch # 0 => Size(exch) \in Nat /\ Size(exch) > 0
  BY <1>1, Signs
<1>10. AtWork(t)
  BY <1>2, <1>6, <1>7, <1>8, <1>9 DEF AtWork, Opens, Closes
<1>11. Limit'
  <2>1. exch # 0 => order'.left <= Size(exch)
    BY <1>1, <1>2, <1>3, <1>9 DEF AddsOrTurns
  <2>2. t.base = exch /\ t.base # 0 => order'.left + order'.filled <= Size(t.base)
    BY <1>2, <1>3, <1>6, <1>9, <2>1
  <2>3. t.base # 0 => order'.left + order'.filled <= Size(t.base)
    BY <1>6, <2>2
  <2> QED BY <1>5, <1>10, <2>3 DEF Limit
<1>12. PICK r : r = OrderReport(o, "NEW")
  OBVIOUS
<1>13. Tells(Told, r, t)
  <2>1. r.type = "NEW" /\ r.id = o.id /\ r.dir = o.dir /\ r.reduceOnly = o.reduceOnly
    BY <1>12 DEF OrderReport
  <2>2. PICK e : e = Told
    OBVIOUS
  <2>3. e.phase = "idle" /\ e.base = exch
    BY <1>1, <2>2, ToldAtRest DEF Idle
  <2>4. Begins(e, r, t)
    BY <1>6, <1>10, <2>1, <2>3 DEF Begins
  <2> QED BY <2>2, <2>4 DEF Tells
<1>14. Appended(stream', stream, r)
  BY <1>1, <1>12 DEF Appended
<1>15. Matched'
  BY <1>5, <1>13, <1>14, OneTold
<1> QED BY <1>1, <1>11, <1>15

(* A fill.                                                                 *)
LEMMA FillStep ==
  ASSUME Types, Types', NEW qty \in 1 .. MaxSize, Fill(qty), ~ disturbed', Limit, Matched
  PROVE  Limit' /\ Matched' /\ link = "up"
<1>1. /\ order # NoOrder /\ link = "up" /\ ~ SplitsClose(qty) /\ exch \in Int
      /\ order \in Works(placed)
  <2>1. order # NoOrder /\ ~ (disturbed \/ SplitsClose(qty) \/ Missed)
    BY DEF Fill
  <2>2. ExchTypes /\ exch \in Int
    BY DEF Types, ExchTypes
  <2>3. order \in Works(placed)
    BY <2>1, <2>2, ToldAtWork
  <2> QED BY <2>1, <2>2, <2>3 DEF Missed
<1>2. /\ qty \in Nat /\ qty > 0 /\ qty <= order.left /\ order.left \in Nat /\ order.filled \in Nat
      /\ order.dir \in Directions /\ order.id \in Nat \ {0} /\ order.reduceOnly \in BOOLEAN
  <2>1. qty \in Nat /\ qty > 0 /\ placed \in Nat
    BY Bounds DEF Types, ExchTypes
  <2>2. qty <= order.left
    BY <2>1 DEF Fill
  <2>3. /\ order.left \in Nat /\ order.filled \in Nat /\ order.dir \in Directions
        /\ order.id \in Nat \ {0} /\ order.reduceOnly \in BOOLEAN
    BY <1>1, <2>1 DEF Works
  <2> QED BY <2>1, <2>2, <2>3
<1>3. PICK v \in Views : v = Told
  BY ToldTypes
<1>4. /\ v.phase = "work" /\ (v.later <=> order.filled # 0) /\ v.filled = order.filled
      /\ v.id = order.id /\ v.dir = order.dir /\ v.reduceOnly = order.reduceOnly
      /\ Net(v) = exch
  BY <1>1, <1>3, ToldAtWork DEF Types
<1>5. AtWork(v) /\ (v.base # 0 => order.left + order.filled <= Size(v.base))
      /\ v.base \in Int /\ Size(v.base) \in Nat
  BY <1>1, <1>3, Signs DEF Limit, Views
<1>6. PICK sum \in Nat : sum = order.filled + qty
  BY <1>2
<1>7. PICK net \in Int : net = exch + order.dir * qty
  BY <1>1, <1>2, StepIsSigned
<1>8. net = At(v, sum)
  <2>1. order.dir * qty = (IF order.dir = 1 THEN qty ELSE - qty)
    BY <1>2, StepIsSigned DEF Steps
  <2>2. exch = (IF v.dir = 1 THEN v.base + v.filled ELSE v.base - v.filled)
    BY <1>4 DEF Net, At
  <2> QED BY <1>2, <1>4, <1>5, <1>6, <1>7, <2>1, <2>2 DEF At
<1>9. PICK f : f = [order EXCEPT !.left = order.left - qty, !.filled = order.filled + qty]
  OBVIOUS
<1>10. /\ f.left = order.left - qty /\ f.filled = sum /\ f.id = order.id /\ f.dir = order.dir
       /\ f.reduceOnly = order.reduceOnly /\ f # NoOrder
  BY <1>1, <1>2, <1>6, <1>9 DEF Works, NoOrder
<1>11. PICK report :
         /\ report.type = (IF f.left = 0 THEN "FILLED" ELSE "PARTIALLY_FILLED")
         /\ report.id = v.id /\ report.dir = v.dir /\ report.reduceOnly = v.reduceOnly
         /\ report.filled = sum
         /\ report = OrderReport(f, IF f.left = 0 THEN "FILLED" ELSE "PARTIALLY_FILLED")
  <2>1. PICK status : status = IF f.left = 0 THEN "FILLED" ELSE "PARTIALLY_FILLED"
    OBVIOUS
  <2>2. PICK report : report = OrderReport(f, status)
    OBVIOUS
  <2>3. /\ report.type = status /\ report.id = f.id /\ report.dir = f.dir
        /\ report.reduceOnly = f.reduceOnly /\ report.filled = f.filled
    BY <2>2 DEF OrderReport
  <2> QED BY <1>4, <1>10, <2>1, <2>2, <2>3
<1>12. /\ exch' = net /\ order' = IF f.left = 0 THEN NoOrder ELSE f
       /\ \/ stream' = stream \o <<PositionReport(net), report>>
          \/ stream' = stream \o <<report, PositionReport(net)>>
       /\ Quiet
  <2>1. /\ Sends(<<PositionReport(net), report>>) \/ Sends(<<report, PositionReport(net)>>)
        /\ exch' = net /\ order' = IF f.left = 0 THEN NoOrder ELSE f
        /\ UNCHANGED localVars
    BY <1>7, <1>9, <1>11 DEF Fill
  <2> QED BY <1>1, <2>1 DEF Sends, localVars, Quiet
\* The order is closed in several fills only if it is reduce-only.
<1>13. v.base # 0 /\ f.left # 0 => v.reduceOnly
  <2> SUFFICES ASSUME v.base # 0, f.left # 0 PROVE v.reduceOnly
    OBVIOUS
  <2>1. Closes(v) /\ v.filled < Size(v.base)
    BY <1>4, <1>5 DEF AtWork, Opens, Closes
  <2>2. exch # 0 /\ Sign(exch) = - v.dir
    <3>1. v.filled \in Nat /\ v.filled <= Size(v.base) /\ v.filled # Size(v.base)
      BY <1>2, <1>4, <1>5, <2>1
    <3> QED BY <1>4, <2>1, <3>1, AtClosing DEF Net, Closes
  <2>3. exch * order.dir < 0
    BY <1>1, <1>2, <1>4, <2>2, Against, Signs DEF Directions
  <2>4. qty < order.left
    BY <1>2, <1>10
  <2> QED BY <1>1, <1>4, <2>3, <2>4 DEF SplitsClose
\* The fill, told by one of its reports.
<1>14. ASSUME NEW p \in {"position", "part", "done"}, p = "part" => f.left # 0
       PROVE  \E w \in Views : /\ w = [v EXCEPT !.phase = p, !.filled = sum]
                               /\ AtWork(w) /\ Net(w) = net /\ w.phase = p
                               /\ w.filled = sum /\ Same(v, w) /\ w.later = v.later
  <2>1. PICK w : w = [v EXCEPT !.phase = p, !.filled = sum]
    OBVIOUS
  <2>2. w \in Views /\ w.phase = p /\ w.filled = sum /\ Same(v, w) /\ w.later = v.later
    BY <2>1 DEF Views, Phases, Same
  <2>3. Net(w) = net
    BY <1>8, <2>2 DEF Net, At, Same
  <2>4. sum # 0 /\ w.id # 0
    BY <1>2, <1>4, <1>6, <2>2 DEF Same
  <2>5. Opens(v) => Opens(w)
    BY <2>2 DEF Opens, Same
  <2>6. Closes(v) => Closes(w)
    <3> SUFFICES ASSUME Closes(v) PROVE Closes(w)
      OBVIOUS
    <3>1. v.base # 0 /\ sum <= Size(v.base) /\ (f.left # 0 => sum < Size(v.base))
      BY <1>2, <1>5, <1>6, <1>10 DEF Closes
    <3>2. p = "part" => sum < Size(v.base) /\ v.reduceOnly
      BY <1>13, <1>14, <3>1
    <3> QED BY <1>14, <2>2, <3>1, <3>2 DEF Closes, Same
  <2>7. AtWork(w)
    BY <1>5, <1>14, <2>2, <2>4, <2>5, <2>6 DEF AtWork
  <2> QED BY <2>1, <2>2, <2>3, <2>7
<1>15. PICK t \in Views : t = Told'
  BY ToldTypes
\* What has been told once both reports of the fill are handled.
<1>16. f.left = 0 => t = Idle(net)
  BY <1>12, <1>15 DEF Told, ToldBy
<1>17. ASSUME f.left # 0
       PROVE  /\ t.phase = "work" /\ t.later /\ t.filled = sum /\ Same(v, t) /\ AtWork(t)
              /\ t = [v EXCEPT !.phase = "work", !.later = TRUE, !.filled = sum]
              /\ v.base # 0 => order'.left + order'.filled <= Size(v.base)
  <2>1. order' = f /\ f # NoOrder
    BY <1>10, <1>12, <1>17
  <2>2. /\ t.phase = "work" /\ (t.later <=> f.filled # 0) /\ t.filled = f.filled
        /\ t.id = f.id /\ t.dir = f.dir /\ t.reduceOnly = f.reduceOnly
        /\ t.base = IF f.dir = 1 THEN net - f.filled ELSE net + f.filled
    BY <1>12, <1>15, <2>1 DEF Told, ToldBy
  <2>3. t.base = v.base
    BY <1>2, <1>4, <1>5, <1>8, <1>10, <2>2 DEF At, Directions
  <2>4. sum # 0
    BY <1>2, <1>6
  <2>5. Same(v, t) /\ t.later /\ t.filled = sum
    BY <1>4, <1>10, <2>2, <2>3, <2>4 DEF Same
  <2>6. t = [v EXCEPT !.phase = "work", !.later = TRUE, !.filled = sum]
    BY <2>2, <2>5 DEF Same, Views
  <2>7. Opens(v) => Opens(t)
    BY <2>5 DEF Opens, Same
  <2>8. Closes(v) => Closes(t)
    <3> SUFFICES ASSUME Closes(v) PROVE Closes(t)
      OBVIOUS
    <3>1. v.base # 0 /\ sum < Size(v.base) /\ v.reduceOnly
      BY <1>2, <1>5, <1>6, <1>10, <1>13, <1>17 DEF Closes
    <3> QED BY <1>5, <1>6, <2>2, <2>5, <3>1 DEF Closes, Same
  <2>9. AtWork(t)
    BY <1>2, <1>4, <1>5, <2>2, <2>4, <2>5, <2>7, <2>8 DEF AtWork, Same
  <2>10. v.base # 0 => order'.left + order'.filled <= Size(v.base)
    BY <1>2, <1>5, <1>6, <1>10, <2>1
  <2> QED BY <2>2, <2>5, <2>6, <2>9, <2>10
<1>18. Limit'
  <2>1. CASE f.left = 0
    BY <1>12, <2>1 DEF Limit
  <2>2. CASE f.left # 0
    BY <1>15, <1>17, <2>2 DEF Limit, Same
  <2> QED BY <2>1, <2>2
<1>19. Matched'
  <2>1. PICK pos : pos = PositionReport(net)
    OBVIOUS
  <2>2. pos.type = "position" /\ pos.net = net
    BY <2>1 DEF PositionReport
  <2>3. CASE stream' = stream \o <<pos, report>>
    <3>1. PICK w \in Views : /\ w = [v EXCEPT !.phase = "position", !.filled = sum]
                             /\ AtWork(w) /\ Net(w) = net /\ w.phase = "position"
                             /\ w.filled = sum /\ Same(v, w) /\ w.later = v.later
      BY <1>14
    <3>2. w.filled > v.filled
      BY <1>2, <1>4, <1>6, <3>1
    <3>3. FirstOf(v, pos, w)
      BY <1>4, <2>2, <3>1, <3>2 DEF FirstOf
    <3>4. SecondOf(w, report, t)
      <4>1. CASE f.left = 0
        <5>1. FilledBy(w, report)
          BY <1>11, <3>1, <4>1 DEF FilledBy, Same
        <5> QED BY <1>16, <3>1, <4>1, <5>1 DEF SecondOf
      <4>2. CASE f.left # 0
        <5>1. t = [w EXCEPT !.phase = "work", !.later = TRUE]
          BY <1>17, <3>1, <4>2 DEF Views
        <5>2. Continues(w, t)
          BY <1>17, <4>2, <5>1 DEF Continues
        <5> QED BY <1>11, <3>1, <4>2, <5>2 DEF SecondOf, Same
      <4> QED BY <4>1, <4>2
    <3>5. Tells(Told, pos, w) /\ Tells(w, report, Told')
      BY <1>3, <1>15, <3>3, <3>4 DEF Tells
    <3> QED BY <1>12, <2>3, <3>5, TwoTold
  <2>4. CASE stream' = stream \o <<report, pos>>
    <3>1. PICK p \in {"part", "done"} : p = IF f.left = 0 THEN "done" ELSE "part"
      OBVIOUS
    <3>2. PICK w \in Views : /\ w = [v EXCEPT !.phase = p, !.filled = sum]
                             /\ AtWork(w) /\ Net(w) = net /\ w.phase = p
                             /\ w.filled = sum /\ Same(v, w) /\ w.later = v.later
      BY <1>14, <3>1
    <3>3. w.filled > v.filled
      BY <1>2, <1>4, <1>6, <3>2
    <3>4. w = [v EXCEPT !.phase = w.phase, !.filled = w.filled]
      BY <3>2
    <3>5. FirstOf(v, report, w) /\ SecondOf(w, pos, t)
      <4>1. CASE f.left = 0
        <5>1. FilledBy(w, report)
          BY <1>11, <3>2, <4>1 DEF FilledBy, Same
        <5>2. FirstOf(v, report, w)
          BY <1>4, <3>1, <3>2, <3>3, <3>4, <4>1, <5>1 DEF FirstOf
        <5>3. SecondOf(w, pos, t)
          BY <1>16, <2>2, <3>1, <3>2, <4>1 DEF SecondOf
        <5> QED BY <5>2, <5>3
      <4>2. CASE f.left # 0
        <5>1. FirstOf(v, report, w)
          BY <1>4, <1>11, <3>1, <3>2, <3>3, <3>4, <4>2 DEF FirstOf
        <5>2. t = [w EXCEPT !.phase = "work", !.later = TRUE]
          BY <1>17, <3>2, <4>2 DEF Views
        <5>3. Continues(w, t)
          BY <1>17, <4>2, <5>2 DEF Continues
        <5>4. SecondOf(w, pos, t)
          BY <2>2, <3>1, <3>2, <4>2, <5>3 DEF SecondOf
        <5> QED BY <5>1, <5>4
      <4> QED BY <4>1, <4>2
    <3>6. Tells(Told, report, w) /\ Tells(w, pos, Told')
      BY <1>3, <1>15, <3>5 DEF Tells
    <3> QED BY <1>12, <2>4, <3>6, TwoTold
  <2> QED BY <1>12, <2>1, <2>3, <2>4
<1> QED BY <1>1, <1>18, <1>19

(* A report is handled.                                                    *)
LEMMA ReceiveStep ==
  ASSUME Types, Receive, Matched
  PROVE  Matched'
<1>1. PICK x \in Views : Sound(x) /\ Reaches(stream, x, Told) /\ Sees(x)
  BY DEF Matched
<1>2. PICK e : e = Told
  OBVIOUS
<1>3. stream \in Seq(ReportsTo(placed)) /\ stream # <<>> /\ stream' = Tail(stream)
      /\ exch' = exch /\ order' = order
  BY DEF Types, ExchTypes, Receive, exchVars
<1>4. Told' = e
  BY <1>2, <1>3 DEF Told, ToldBy
<1>5. PICK y \in Views : Tells(x, Head(stream), y) /\ Reaches(Tail(stream), y, e)
  BY <1>1, <1>2, <1>3, ReachStep
<1>6. PICK r : r = Head(stream)
  OBVIOUS
<1>7. Tells(x, r, y)
  BY <1>5, <1>6
<1>8. Sound(y)
  BY <1>1, <1>7, TellsSound
<1>9. Sees(y)'
  BY <1>1, <1>6, <1>7, ReceiveSees
<1>10. Reaches(stream', y, Told')
  BY <1>3, <1>4, <1>5
<1> QED BY <1>8, <1>9, <1>10 DEF Matched

(* The snapshot of a restart.                                              *)
LEMMA BootstrapStep ==
  ASSUME Types, Bootstrap, stream = <<>>, Limit, Mid, Matched
  PROVE  Matched'
<1>1. PICK x \in Views : Sound(x) /\ Reaches(stream, x, Told) /\ Sees(x)
  BY DEF Matched
<1>2. x = Told
  BY <1>1, ReachedNow
<1>3. /\ positions' = Listed(exch) /\ partials' = {} /\ link = "down"
      /\ UNCHANGED <<exch, order, stream, botOpen, manual>> /\ exch \in Int
  BY DEF Bootstrap, exchVars, Types, ExchTypes
<1>4. Told' = x
  BY <1>2, <1>3 DEF Told, ToldBy
<1>5. x.filled \in Nat /\ x.filled \in 0 .. x.filled /\ At(x, x.filled) = exch
      /\ (x.phase = "idle" => x.filled = 0)
      /\ x.phase \in {"idle", "work"}
      /\ (x.phase = "work" => order # NoOrder /\ AtWork(x) /\ (x.later <=> x.filled # 0)
                              /\ x.reduceOnly = order.reduceOnly /\ x.filled = order.filled)
  <2>1. CASE order = NoOrder
    BY <1>2, <1>3, <2>1, ToldAtRest DEF Idle, At
  <2>2. CASE order # NoOrder
    BY <1>2, <2>2, ToldAtWork DEF Limit, Types, Net, Views
  <2> QED BY <2>1, <2>2
<1>6. SeesPosition(x)'
  <2>1. Shows(x, x.filled)
    BY <1>5 DEF Shows, Views
  <2> QED BY <1>3, <1>5, <2>1 DEF SeesPosition
<1>7. SeesHint(x)' /\ SeesManual(x)'
  BY <1>1, <1>3 DEF Sees, SeesHint, SeesManual
<1>8. SeesPartials(x)'
  <2>1. x.phase = "work" /\ x.later => x.base = 0
    <3> SUFFICES ASSUME x.phase = "work", x.later, x.base # 0 PROVE FALSE
      OBVIOUS
    <3>1. x.reduceOnly
      BY <1>5 DEF AtWork, Opens, Closes
    <3>2. x.filled > 0
      BY <1>5
    <3> QED BY <1>3, <1>5, <3>1, <3>2 DEF Mid
  <2> QED BY <1>3, <1>5, <2>1 DEF SeesPartials, InFills
<1>9. Sees(x)'
  BY <1>6, <1>7, <1>8 DEF Sees
<1>10. Reaches(stream', x, Told')
  <2>1. Reaches(stream, x, x)
    BY <1>1, <1>2
  <2> QED BY <1>3, <1>4, <2>1
<1> QED BY <1>1, <1>9, <1>10 DEF Matched

(* A bracket order accepted while no order is at work.                      *)
LEMMA BracketStep ==
  ASSUME Types, Types', NEW t \in tasks, PlaceBrackets(t), ~ disturbed', Matched
  PROVE  Matched'
<1>1. UNCHANGED <<exch, order, link>> /\ Quiet
  BY DEF PlaceBrackets, exchVars, linkVars, localVars, Quiet
<1>2. CASE stream' = stream
  BY <1>1, <1>2, NothingTold
<1>3. CASE stream' # stream
  <2>1. order = NoOrder /\ stream' = stream \o <<OrderReport(NoOrder, "NEW")>>
    BY <1>3 DEF PlaceBrackets, Sends
  <2>2. PICK r : r = OrderReport(NoOrder, "NEW")
    OBVIOUS
  <2>3. PICK e : e = Told
    OBVIOUS
  <2>4. e.phase = "idle" /\ r.type = "NEW" /\ r.id = 0 /\ e = Told'
    <3>1. e = Idle(exch) /\ Told' = e
      BY <1>1, <2>1, <2>3 DEF Told, ToldBy
    <3> QED BY <2>2, <3>1 DEF Idle, OrderReport, NoOrder
  <2>5. Tells(Told, r, Told')
    BY <2>3, <2>4 DEF Tells, Begins
  <2> QED BY <1>1, <2>1, <2>2, <2>5, OneTold DEF Appended
<1> QED BY <1>2, <1>3

-----------------------------------------------------------------------------
(* The invariant.                                                          *)
Inv == Types /\ LinkInv /\ JInv

LEMMA InitHolds == Init => Inv
<1> SUFFICES ASSUME Init PROVE Inv
  OBVIOUS
<1>1. Types
  BY InitTypes
<1>2. order = NoOrder /\ stream = <<>> /\ link = "up" /\ positions = Listed(exch)
      /\ partials = {} /\ manual = "no" /\ exch \in Int
  BY <1>1 DEF Init, Types, ExchTypes
<1>3. PICK x \in Views : x = Told /\ x = Idle(exch) /\ Sound(x)
  BY <1>2, ToldAtRest, IdleIsView
<1>4. x.phase = "idle" /\ x.filled = 0 /\ 0 \in 0 .. x.filled /\ At(x, 0) = exch
  BY <1>2, <1>3 DEF Idle, At
<1>5. Sees(x)
  <2>1. Shows(x, 0)
    BY <1>4 DEF Shows
  <2>2. SeesPosition(x)
    BY <1>2, <1>4, <2>1 DEF SeesPosition
  <2>3. SeesHint(x) /\ SeesPartials(x) /\ SeesManual(x)
    BY <1>2, <1>4 DEF SeesHint, SeesPartials, SeesManual, InFills
  <2> QED BY <2>2, <2>3 DEF Sees
<1>6. Reaches(stream, x, Told)
  BY <1>2, <1>3, ReachesNow
<1>7. Matched
  BY <1>3, <1>5, <1>6 DEF Matched
<1>8. Limit /\ Mid /\ LinkInv
  BY <1>2 DEF Limit, Mid, LinkInv
<1> QED BY <1>1, <1>7, <1>8 DEF Inv, JInv

(* A reduce-only order is sent only by the bot, for what it sees.           *)
LEMMA ClosingStep ==
  ASSUME Types, Types', positions # <<>>, NEW side \in Directions, NEW exec \in 0 .. MaxExecs,
         Quiet, Accepts(ClosingOrder(side, exec)), ~ disturbed', Matched
  PROVE  Limit' /\ Matched' /\ link = "up"
<1>1. PICK o : o = ClosingOrder(side, exec)
  OBVIOUS
<1>2. o \in Works(placed + 1) /\ o.filled = 0 /\ Accepts(o)
  BY <1>1, ClosingIsTyped DEF ClosingOrder
<1> QED BY <1>2, AcceptStep

LEMMA NextHolds ==
  ASSUME Inv, [Next]_vars
  PROVE  Inv'
<1>1. Types /\ Types'
  BY NextTypes DEF Inv
<1>2. LinkInv'
  <2>1. CASE UNCHANGED <<link, stream>>
    BY <2>1 DEF Inv, LinkInv
  <2>2. CASE link = "up" /\ link' = link
    BY <2>2 DEF LinkInv
  <2>3. CASE link # "up" /\ link' = link /\ stream' = stream
    BY <2>3 DEF Inv, LinkInv
  <2>4. CASE StopStream \/ Bootstrap \/ Connect
    BY <2>4 DEF Inv, LinkInv, StopStream, Bootstrap, Connect
  <2>5. CASE Receive
    BY <2>5 DEF Receive, LinkInv, linkVars
  <2>6. link # "up" => \A q : Sends(q) => stream' = stream
    BY DEF Sends
  <2>7. CASE Exchange \/ Bot \/ \E t \in tasks : PlaceBrackets(t)
    <3>1. link' = link
      BY <2>7 DEF Exchange, Bot, Fill, Expire, HandTrade, BotStarts, BotReturns, BotCloses,
                  BotOpens, ManualClose, PlaceBrackets, linkVars
    <3>2. link # "up" => stream' = stream
      BY <2>6, <2>7 DEF Exchange, Bot, Fill, Expire, HandTrade, BotStarts, BotReturns, BotCloses,
                        BotOpens, ManualClose, PlaceBrackets, Accepts
    <3> QED BY <3>1, <3>2 DEF Inv, LinkInv
  <2>8. CASE Elapse \/ UNCHANGED vars
    BY <2>8 DEF Inv, LinkInv, Elapse, vars, linkVars
  <2> QED BY <2>4, <2>5, <2>7, <2>8 DEF Next, Stream
<1>3. ASSUME ~ disturbed'
      PROVE  Limit' /\ Mid' /\ Matched'
  <2>1. ~ disturbed
    BY <1>3 DEF Next, Exchange, Bot, Stream, Fill, Expire, HandTrade, BotStarts, BotReturns,
                BotCloses, BotOpens, ManualClose, PlaceBrackets, Accepts, Receive, Elapse,
                StopStream, Bootstrap, Connect, vars
  <2>2. Limit /\ Mid /\ Matched
    BY <2>1 DEF Inv, JInv
  <2>3. CASE \E qty \in 1 .. MaxSize : Fill(qty)
    <3>1. PICK qty \in 1 .. MaxSize : Fill(qty)
      BY <2>3
    <3>2. Limit' /\ Matched' /\ link = "up"
      BY <1>1, <1>3, <2>2, <3>1, FillStep
    <3>3. link' = link
      BY <3>1 DEF Fill, linkVars
    <3> QED BY <3>2, <3>3 DEF Mid
  <2>4. ~ Expire
    BY <1>3 DEF Expire
  <2>5. CASE \E dir \in Directions, qty \in 1 .. MaxSize : HandTrade(dir, qty)
    <3>1. PICK dir \in Directions, qty \in 1 .. MaxSize : HandTrade(dir, qty)
      BY <2>5
    <3>2. PICK o : o = [id |-> placed + 1, dir |-> dir, left |-> qty, filled |-> 0,
                        reduceOnly |-> FALSE, exec |-> 0]
      OBVIOUS
    <3>3. placed \in Nat /\ qty \in Nat \ {0}
      BY <1>1, Bounds DEF Types, ExchTypes
    <3>4. o \in Works(placed + 1) /\ o.filled = 0
      BY <3>2, <3>3, Bounds DEF Works
    <3>5. Accepts(o) /\ Quiet /\ link' = link
      BY <3>1, <3>2 DEF HandTrade, Quiet, localVars, linkVars
    <3>6. Limit' /\ Matched' /\ link = "up"
      BY <1>1, <1>3, <2>2, <3>4, <3>5, AcceptStep
    <3> QED BY <3>5, <3>6 DEF Mid
  <2>6. CASE \E dir \in Directions, qty \in 1 .. MaxSize : BotOpens(dir, qty)
    <3>1. PICK dir \in Directions, qty \in 1 .. MaxSize : BotOpens(dir, qty)
      BY <2>6
    <3>2. PICK o : o = [id |-> placed + 1, dir |-> dir, left |-> qty, filled |-> 0,
                        reduceOnly |-> FALSE, exec |-> owner]
      OBVIOUS
    <3>3. placed \in Nat /\ qty \in Nat \ {0} /\ owner \in 0 .. MaxExecs
      BY <1>1, Bounds DEF Types, ExchTypes, BotTypes
    <3>4. o \in Works(placed + 1) /\ o.filled = 0
      BY <3>2, <3>3 DEF Works
    <3>5. Accepts(o) /\ Quiet /\ link' = link
      BY <3>1, <3>2 DEF BotOpens, Quiet, localVars, linkVars
    <3>6. Limit' /\ Matched' /\ link = "up"
      BY <1>1, <1>3, <2>2, <3>4, <3>5, AcceptStep
    <3> QED BY <3>5, <3>6 DEF Mid
  <2>7. CASE BotCloses
    <3>1. /\ positions # <<>> /\ Head(positions) \in Entries /\ owner \in 0 .. MaxExecs
      BY <1>1, <2>7, HeldIsShort DEF BotCloses, Types, LocalTypes, BotTypes
    <3>2. PICK side \in Directions : side = Head(positions).side
      BY <3>1 DEF Entries
    <3>3. Accepts(ClosingOrder(side, owner)) /\ Quiet /\ link' = link
      BY <2>7, <3>2 DEF BotCloses, Quiet, localVars, linkVars
    <3>4. Limit' /\ Matched' /\ link = "up"
      BY <1>1, <1>3, <2>2, <3>1, <3>3, ClosingStep
    <3> QED BY <3>3, <3>4 DEF Mid
  <2>8. CASE ManualClose
    <3>1. Quiet /\ link' = link
      BY <2>8 DEF ManualClose, Quiet, localVars, linkVars
    <3>2. CASE positions # <<>> /\ Accepts(ClosingOrder(Sign(exch), 0))
      <4>1. exch \in Int /\ ClosingOrder(Sign(exch), 0).reduceOnly
            /\ ClosingOrder(Sign(exch), 0).dir = - Sign(exch)
        BY <1>1 DEF Types, ExchTypes, ClosingOrder
      <4>2. exch * (- Sign(exch)) < 0
        BY <3>2, <4>1 DEF Accepts
      <4>3. exch # 0
        BY <4>1, <4>2, Signs
      <4>4. PICK side \in Directions : side = Sign(exch)
        BY <4>1, <4>3, Signs DEF Directions
      <4>5. Accepts(ClosingOrder(side, 0)) /\ 0 \in 0 .. MaxExecs
        BY <3>2, <4>4, Bounds
      <4>6. Limit' /\ Matched' /\ link = "up"
        BY <1>1, <1>3, <2>2, <3>1, <3>2, <4>5, ClosingStep
      <4> QED BY <3>1, <4>6 DEF Mid
    <3>3. CASE UNCHANGED <<exchVars, stream, disturbed>>
      <4>1. UNCHANGED <<exch, order, stream>>
        BY <3>3 DEF exchVars
      <4>2. Matched'
        BY <2>2, <3>1, <4>1, NothingTold
      <4> QED BY <2>2, <3>1, <4>1, <4>2 DEF Limit, Mid, Told, ToldBy
    <3> QED BY <2>8, <3>2, <3>3 DEF ManualClose
  <2>9. CASE Receive
    <3>1. UNCHANGED <<exch, order, link>>
      BY <2>9 DEF Receive, exchVars, linkVars
    <3>2. Matched'
      BY <1>1, <2>2, <2>9, ReceiveStep
    <3> QED BY <2>2, <3>1, <3>2 DEF Limit, Mid, Told, ToldBy
  <2>10. CASE StopStream
    <3>1. stream = <<>> /\ stream' = <<>> /\ ~ (order.reduceOnly /\ order.filled > 0)
      BY <1>3, <2>10 DEF StopStream
    <3>2. UNCHANGED <<exch, order, stream>> /\ Quiet
      BY <2>10, <3>1 DEF StopStream, exchVars, localVars, Quiet
    <3>3. Matched'
      BY <2>2, <3>2, NothingTold
    <3> QED BY <2>2, <3>1, <3>2, <3>3 DEF Limit, Mid, Told, ToldBy
  <2>11. CASE Bootstrap
    <3>1. stream = <<>>
      BY <2>11 DEF Bootstrap, Inv, LinkInv
    <3>2. Matched'
      BY <1>1, <2>2, <2>11, <3>1, BootstrapStep
    <3>3. UNCHANGED <<exch, order>> /\ link' # "down"
      BY <2>11 DEF Bootstrap, exchVars
    <3> QED BY <2>2, <3>2, <3>3 DEF Limit, Mid, Told, ToldBy
  <2>12. CASE \E t \in tasks : PlaceBrackets(t)
    <3>1. PICK t \in tasks : PlaceBrackets(t)
      BY <2>12
    <3>2. UNCHANGED <<exch, order, link>>
      BY <3>1 DEF PlaceBrackets, exchVars, linkVars
    <3>3. Matched'
      BY <1>1, <1>3, <2>2, <3>1, BracketStep
    <3> QED BY <2>2, <3>2, <3>3 DEF Limit, Mid, Told, ToldBy
  <2>13. CASE BotStarts \/ BotReturns \/ Elapse \/ Connect \/ UNCHANGED vars
    <3>1. UNCHANGED <<exch, order, stream>> /\ Quiet /\ (link' = link \/ link' = "up")
      BY <2>13 DEF BotStarts, BotReturns, Elapse, Connect, vars, exchVars, localVars, linkVars,
                   Quiet
    <3>2. Matched'
      BY <2>2, <3>1, NothingTold
    <3> QED BY <2>2, <3>1, <3>2 DEF Limit, Mid, Told, ToldBy
  <2> QED BY <2>3, <2>4, <2>5, <2>6, <2>7, <2>8, <2>9, <2>10, <2>11, <2>12, <2>13
          DEF Next, Exchange, Bot, Stream
<1> QED BY <1>1, <1>2, <1>3 DEF Inv, JInv

LEMMA InvHolds == Spec => []Inv
<1>1. Init => Inv
  BY InitHolds
<1>2. Inv /\ [Next]_vars => Inv'
  BY NextHolds
<1> QED BY <1>1, <1>2, PTL DEF Spec

(* Once every report has been handled, the local state sees the exchange.   *)
LEMMA DeliveredSees ==
  ASSUME Inv, Delivered, ~ disturbed
  PROVE  Sees(Idle(exch))
<1>1. stream = <<>> /\ Matched /\ Told = Idle(exch)
  BY ToldAtRest DEF Delivered, Inv, JInv
<1>2. PICK x \in Views : Reaches(stream, x, Told) /\ Sees(x)
  BY <1>1 DEF Matched
<1>3. x = Idle(exch)
  BY <1>1, <1>2, ReachedNow
<1> QED BY <1>2, <1>3

(***************************************************************************)
(* Once every report has been handled, the local picture is the exchange's  *)
(* position, for orders of any size in any number of fills, whichever       *)
(* report of each fill came first, and through restarts that lose none      *)
(* (_handle_order_update, apply_event, bootstrap_sync): a manual open that   *)
(* was held back while more fills were to come is overwritten by FILLED.    *)
(***************************************************************************)
THEOREM Convergence == Spec => []LocalConverges
<1>1. Inv => LocalConverges
  <2> SUFFICES ASSUME Inv, Delivered, ~ disturbed PROVE positions = Listed(exch)
    BY DEF LocalConverges
  <2>1. exch \in Int
    BY DEF Inv, Types, ExchTypes
  <2>2. PICK x : x = Idle(exch)
    OBVIOUS
  <2>3. Sees(x) /\ x.phase = "idle" /\ x.filled = 0 /\ x.base = exch
    BY <2>2, DeliveredSees DEF Idle
  <2>4. PICK qty \in 0 .. x.filled : positions = Listed(At(x, qty))
    BY <2>3 DEF Sees, SeesPosition
  <2>5. qty = 0 /\ At(x, 0) = exch
    BY <2>1, <2>2, <2>3 DEF Idle, At
  <2> QED BY <2>4, <2>5
<1> QED BY <1>1, InvHolds, PTL

(***************************************************************************)
(* PositionEngine.positions holds at most one entry of the symbol while the *)
(* reports are on their way too: no order of a fill's two reports leaves    *)
(* both sides there.                                                       *)
(***************************************************************************)
THEOREM OneSided == Spec => []NeverHedged
<1>1. Inv => NeverHedged
  <2> SUFFICES ASSUME Inv, ~ disturbed PROVE Len(positions) <= 1
    BY DEF NeverHedged
  <2>1. PICK x \in Views : Sees(x)
    BY DEF Inv, JInv, Matched
  <2>2. PICK n : positions = Listed(n)
    BY <2>1 DEF Sees, SeesPosition
  <2> QED BY <2>2 DEF Listed
<1> QED BY <1>1, InvHolds, PTL

(***************************************************************************)
(* _pending_manual_close is set only while a FILLED report, which spawns the *)
(* close, is still to come: a manual open that was noticed is not forgotten. *)
(***************************************************************************)
THEOREM PendingCloseIsSpawned == Spec => []PendingIsResolved
<1>1. Inv => PendingIsResolved
  <2> SUFFICES ASSUME Inv, Delivered, ~ disturbed PROVE manual # "pending"
    BY DEF PendingIsResolved
  <2>1. PICK x : x = Idle(exch)
    OBVIOUS
  <2>2. Sees(x) /\ x.phase = "idle"
    BY <2>1, DeliveredSees DEF Idle
  <2> QED BY <2>2 DEF Sees, SeesManual, InFills
<1> QED BY <1>1, InvHolds, PTL

=============================================================================

------------------------- MODULE TradeJournalProofs -------------------------
(***************************************************************************)
(* Theorems of TradeJournal, for any sessions, prices and bounds.           *)
(*                                                                         *)
(* Types, IdInv (row ids) and HistoryInv (the execution history) stand on   *)
(* their own.  What the journal makes of fills it learns from reports that  *)
(* arrive late, so its invariants speak of the reports on their way:        *)
(* OrderInv says how they are ordered, WhereInv what a lost process leaves, *)
(* and JInv that from some point on the reports lead to the position the    *)
(* exchange holds, the journal standing at that point.  AloneInv adds, for  *)
(* one session, which trade open_trade.json holds.                          *)
(***************************************************************************)
EXTENDS TradeJournal, SequenceTheorems, FiniteSetTheorems, TLAPS

-----------------------------------------------------------------------------
(* Types.                                                                  *)
Memories == [trade : Trades, pending : Trades, lastClose : SUBSET Reports]
Archived == [bucket : Sessions, id : Nat, order : 1 .. MaxOrders, size : 1 .. MaxSize]

BootTypes ==
  /\ up \in BOOLEAN /\ crashes \in 0 .. MaxCrashes /\ regime \in {"crash", "hand"}
  /\ started \in SUBSET Sessions /\ legacyOf \in SUBSET started
  /\ missed \in SUBSET Sessions /\ misled \in SUBSET Sessions
ExchTypes ==
  /\ exch \in [Sessions -> Positions] /\ closed \in [Sessions -> Nat]
  /\ orders \in 0 .. MaxOrders
  /\ stream \in [Sessions -> Seq(Reports)]
SyncTypes ==
  /\ sync \in [Sessions -> Positions \cup {Unknown}]
  /\ \A s \in started : sync[s] \in Positions
DiskTypes ==
  /\ openFile \in Trades /\ rows \in [Buckets -> SUBSET Rows]
  /\ nextId \in [Buckets -> Nat \ {0}] /\ booked \in [Buckets -> Nat]
  /\ archive \in SUBSET Archived
MonitorTypes ==
  /\ executions \in [Buckets -> Seq(1 .. MaxOrders)] /\ published \in SUBSET Reports
MemoryTypes == journal \in [Journals -> Memories]

Types == /\ BootTypes /\ ExchTypes /\ SyncTypes /\ DiskTypes
         /\ MonitorTypes /\ MemoryTypes

LEMMA Bounds == MaxSize \in Nat \ {0} /\ MaxOrders \in Nat /\ MaxCrashes \in Nat /\ MaxStream \in Nat
BY BoundsAssumption

(* A session writes to its own bucket.                                     *)
LEMMA ModeOfSession ==
  /\ \A s \in Sessions : Mode(s) = s /\ s \in Journals /\ s \in Buckets /\ s # Legacy
  /\ \A j \in Journals : Mode(j) \in Buckets
  /\ Legacy \in Journals
<1>1. \A s \in Sessions : Mode(s) = s /\ s \in Journals /\ s # Legacy
  BY LegacyAssumption DEF Mode, Journals
<1>2. \A j \in Journals : Mode(j) \in Buckets
  BY DEF Buckets
<1>3. Legacy \in Journals
  BY DEF Journals
<1> QED BY <1>1, <1>2, <1>3

(* Flat and the absent trade are none of the others.                       *)
LEMMA Absent ==
  /\ NoTrade \in Trades /\ NoTrade.size = 0 /\ NoTrade.side = "FLAT"
  /\ \A t \in Trades : t = NoTrade \/ (/\ t.size \in 1 .. MaxSize /\ t.side \in Sides
                                       /\ t.mode \in Buckets /\ t.order \in 1 .. MaxOrders)
  /\ Flat \in Positions /\ Flat.size = 0 /\ Flat.side = "FLAT"
  /\ \A p \in Positions : p = Flat \/ (p.size \in 1 .. MaxSize /\ p.side \in Sides)
  /\ Unknown \notin Positions /\ "FLAT" \notin Sides
<1>1. "FLAT" \notin Sides /\ "unknown" \notin Sides
  BY DEF Sides
<1>2. NoTrade \in Trades /\ NoTrade.size = 0 /\ NoTrade.side = "FLAT"
  BY DEF NoTrade, Trades
<1>3. \A t \in Trades : t = NoTrade \/ (/\ t.size \in 1 .. MaxSize /\ t.side \in Sides
                                       /\ t.mode \in Buckets /\ t.order \in 1 .. MaxOrders)
  BY DEF Trades
<1>4. Flat \in Positions /\ Flat.size = 0 /\ Flat.side = "FLAT"
  BY DEF Flat, Positions
<1>5. \A p \in Positions : p = Flat \/ (p.size \in 1 .. MaxSize /\ p.side \in Sides)
  BY DEF Positions
<1>6. Unknown \notin Positions
  BY <1>1, Bounds DEF Unknown, Positions, Flat
<1> QED BY <1>1, <1>2, <1>3, <1>4, <1>5, <1>6

-----------------------------------------------------------------------------
(***************************************************************************)
(* The journal's operations.                                               *)
(***************************************************************************)
Worlds == [mode : Buckets, trade : Trades, pending : Trades, lastClose : SUBSET Reports,
           file : Trades, rows : SUBSET Rows, next : Nat \ {0}, booked : Nat]

(* v has the books of w, or one row more.                                  *)
SameBooks(w, v) ==
  v.mode = w.mode /\ v.rows = w.rows /\ v.next = w.next /\ v.booked = w.booked
RowAdded(w, v) ==
  \E o \in 1 .. MaxOrders, q \in 1 .. MaxSize :
    /\ v.mode = w.mode
    /\ v.rows = w.rows \cup {[id |-> w.next, order |-> o, size |-> q]}
    /\ v.next = w.next + 1 /\ v.booked = w.booked + q

SameLast(w, v) == v.lastClose = w.lastClose

LEMMA WorldType ==
  ASSUME Types, NEW j \in Journals
  PROVE  World(j) \in Worlds
<1>1. Mode(j) \in Buckets
  BY ModeOfSession
<1> QED BY <1>1 DEF Types, DiskTypes, MemoryTypes, Memories, World, Worlds

LEMMA FieldTypes ==
  ASSUME NEW w \in Worlds
  PROVE  /\ w.mode \in Buckets /\ w.trade \in Trades /\ w.pending \in Trades
         /\ w.lastClose \in SUBSET Reports /\ w.file \in Trades /\ w.rows \in SUBSET Rows
         /\ w.next \in Nat \ {0} /\ w.booked \in Nat
BY DEF Worlds


LEMMA ResolveResult ==
  ASSUME NEW w \in Worlds, NEW truth, NEW v, v = ResolvePendingRestore(w, truth)
  PROVE  /\ v \in Worlds /\ SameBooks(w, v) /\ SameLast(w, v)
         /\ \/ v = w /\ (w.trade # NoTrade \/ w.pending = NoTrade \/ truth = Unknown)
            \/ /\ w.trade = NoTrade /\ w.pending # NoTrade /\ truth.side = w.pending.side
               /\ v.trade = w.pending /\ v.pending = NoTrade /\ v.file = w.file
            \/ /\ w.trade = NoTrade /\ w.pending # NoTrade /\ truth.side # w.pending.side
               /\ v.trade = NoTrade /\ v.pending = NoTrade /\ v.file = NoTrade
<1>1. CASE w.trade # NoTrade \/ w.pending = NoTrade \/ truth = Unknown
  BY <1>1 DEF ResolvePendingRestore, SameBooks, SameLast
<1>2. CASE ~ (w.trade # NoTrade \/ w.pending = NoTrade \/ truth = Unknown)
  <2>1. CASE truth.side = w.pending.side
    <3>1. v = [w EXCEPT !.trade = w.pending, !.pending = NoTrade]
      BY <1>2, <2>1 DEF ResolvePendingRestore
    <3>2. v = [w EXCEPT !.trade = w.pending, !.pending = NoTrade, !.file = w.file]
      BY <3>1 DEF Worlds
    <3> QED BY <1>2, <2>1, <3>2, FieldTypes, Absent DEF Worlds, SameBooks, SameLast
  <2>2. CASE truth.side # w.pending.side
    <3>1. v = [w EXCEPT !.file = NoTrade, !.pending = NoTrade]
      BY <1>2, <2>2 DEF ResolvePendingRestore, ClearCurrentTrade
    <3>2. v = [w EXCEPT !.trade = w.trade, !.pending = NoTrade, !.file = NoTrade]
      BY <3>1 DEF Worlds
    <3> QED BY <1>2, <2>2, <3>2, FieldTypes, Absent DEF Worlds, SameBooks, SameLast
  <2> QED BY <2>1, <2>2
<1> QED BY <1>1, <1>2

LEMMA RecalledResult ==
  ASSUME NEW w \in Worlds, NEW truth, NEW v, v = Recalled(w, truth)
  PROVE  /\ v \in Worlds /\ SameBooks(w, v) /\ SameLast(w, v)
         /\ w.trade # NoTrade \/ w.file = NoTrade \/ w.file.mode # w.mode => v = w
<1>1. CASE w.trade # NoTrade \/ w.file = NoTrade \/ w.file.mode # w.mode
  BY <1>1 DEF Recalled, RestoreCurrentTrade, SameBooks, SameLast
<1>2. CASE ~ (w.trade # NoTrade \/ w.file = NoTrade \/ w.file.mode # w.mode)
  <2> DEFINE u == [w EXCEPT !.pending = w.file]
  <2>1. v = ResolvePendingRestore(u, truth)
    BY <1>2 DEF Recalled, RestoreCurrentTrade
  <2>2. u = [w EXCEPT !.trade = w.trade, !.pending = w.file, !.file = w.file]
    BY DEF Worlds
  <2>3. u \in Worlds /\ SameBooks(w, u) /\ SameLast(w, u)
    BY <2>2, FieldTypes DEF Worlds, SameBooks, SameLast
  <2> HIDE DEF u
  <2>4. PICK x \in Worlds : x = u
    BY <2>3
  <2>5. v = ResolvePendingRestore(x, truth)
    BY <2>1, <2>4
  <2>6. v \in Worlds /\ SameBooks(x, v) /\ SameLast(x, v)
    BY <2>5, ResolveResult
  <2> QED BY <1>2, <2>3, <2>4, <2>6 DEF SameBooks, SameLast
<1> QED BY <1>1, <1>2

(* A world with another trade, in memory, held back and in the file.        *)
Replaces(w, t, p, f, v) == v = [w EXCEPT !.trade = t, !.pending = p, !.file = f]

LEMMA TradeReplaced ==
  ASSUME NEW w \in Worlds, NEW t \in Trades, NEW p \in Trades, NEW f \in Trades,
         NEW v, Replaces(w, t, p, f, v)
  PROVE  /\ v \in Worlds /\ v.trade = t /\ v.pending = p /\ v.file = f
         /\ SameBooks(w, v) /\ SameLast(w, v)
<1>1. v \in Worlds
  BY DEF Worlds, Replaces
<1>2. v.trade = t /\ v.pending = p /\ v.file = f
  BY DEF Worlds, Replaces
<1>3. v.mode = w.mode /\ v.rows = w.rows /\ v.next = w.next /\ v.booked = w.booked
      /\ v.lastClose = w.lastClose
  BY DEF Worlds, Replaces
<1> QED BY <1>1, <1>2, <1>3 DEF SameBooks, SameLast

LEMMA OpenResult ==
  ASSUME NEW w \in Worlds, NEW o \in 1 .. MaxOrders, NEW side \in Sides,
         NEW size \in 1 .. MaxSize, NEW v, v = OnPositionOpen(w, o, side, size)
  PROVE  /\ v \in Worlds /\ SameBooks(w, v) /\ SameLast(w, v)
         /\ w.trade # NoTrade => v = w
         /\ w.trade = NoTrade =>
              /\ v.trade = [mode |-> w.mode, order |-> o, side |-> side, size |-> size]
              /\ v.trade # NoTrade /\ v.file = v.trade /\ v.pending = NoTrade
<1>1. CASE w.trade # NoTrade
  BY <1>1 DEF OnPositionOpen, SameBooks, SameLast
<1>2. CASE w.trade = NoTrade
  <2>1. PICK t : t = [mode |-> w.mode, order |-> o, side |-> side, size |-> size]
    OBVIOUS
  <2>2. t \in Trades /\ t # NoTrade
    BY <2>1, FieldTypes DEF Trades, NoTrade
  <2> DEFINE u == [w EXCEPT !.trade = t]
  <2>3. u.trade = t
    BY FieldTypes DEF Worlds
  <2>4. v = PersistCurrentTrade(u)
    BY <1>2, <2>1 DEF OnPositionOpen
  <2>5. v = [u EXCEPT !.file = t, !.pending = NoTrade]
    BY <2>2, <2>3, <2>4 DEF PersistCurrentTrade
  <2>6. v = [w EXCEPT !.trade = t, !.pending = NoTrade, !.file = t]
    BY <2>5 DEF Worlds
  <2>7. Replaces(w, t, NoTrade, t, v)
    BY <2>6 DEF Replaces
  <2>8. /\ v \in Worlds /\ v.trade = t /\ v.pending = NoTrade /\ v.file = t
        /\ SameBooks(w, v) /\ SameLast(w, v)
    BY <2>2, <2>7, Absent, TradeReplaced
  <2> QED BY <1>2, <2>1, <2>2, <2>8
<1> QED BY <1>1, <1>2

(* The row of a close.                                                     *)
LEMMA InsertResult ==
  ASSUME NEW w \in Worlds, w.trade # NoTrade, NEW size \in Nat \ {0},
         NEW v, v = InsertRow(w, size)
  PROVE  /\ v \in Worlds /\ RowAdded(w, v) /\ SameLast(w, v)
         /\ v.booked = w.booked + Least(size, w.trade.size)
         /\ Least(size, w.trade.size) \in 1 .. MaxSize
         /\ v.trade = w.trade /\ v.pending = w.pending /\ v.file = w.file
<1>1. PICK q : q = Least(size, w.trade.size)
  OBVIOUS
<1>2. w.trade.size \in 1 .. MaxSize /\ w.trade.order \in 1 .. MaxOrders
  BY FieldTypes, Absent
<1>3. q \in 1 .. MaxSize
  BY <1>1, <1>2, Bounds DEF Least
<1>4. PICK k : k = w.trade.order
  OBVIOUS
<1>5. v = [w EXCEPT !.rows = w.rows \cup {[id |-> w.next, order |-> k, size |-> q]},
                    !.next = w.next + 1, !.booked = w.booked + q]
  BY <1>1, <1>4 DEF InsertRow
<1>6. [id |-> w.next, order |-> k, size |-> q] \in Rows
  BY <1>2, <1>3, <1>4, FieldTypes DEF Rows
<1>7. PICK R \in SUBSET Rows : R = w.rows \cup {[id |-> w.next, order |-> k, size |-> q]}
  BY <1>6, FieldTypes
<1>8. PICK n \in Nat \ {0} : n = w.next + 1
  BY FieldTypes
<1>9. PICK b \in Nat : b = w.booked + q
  BY <1>3, FieldTypes
<1>10. v = [w EXCEPT !.rows = R, !.next = n, !.booked = b]
  BY <1>5, <1>7, <1>8, <1>9
<1>11. /\ v \in Worlds /\ v.rows = R /\ v.next = n /\ v.booked = b /\ v.mode = w.mode
       /\ SameLast(w, v) /\ v.trade = w.trade /\ v.pending = w.pending
       /\ v.file = w.file
  BY <1>10 DEF Worlds, SameLast
<1>12. RowAdded(w, v)
  BY <1>2, <1>3, <1>4, <1>7, <1>8, <1>9, <1>11 DEF RowAdded
<1> QED BY <1>1, <1>3, <1>9, <1>11, <1>12

(* A close books what it closes of the trade, and the rest stays open.     *)
LEMMA CloseResult ==
  ASSUME NEW w \in Worlds, NEW size \in Nat, NEW v, v = OnPositionClose(w, size)
  PROVE  /\ v \in Worlds /\ SameLast(w, v)
         /\ w.trade = NoTrade \/ size = 0 => v = w
         /\ w.trade # NoTrade /\ size # 0 =>
              /\ RowAdded(w, v) /\ v.pending = NoTrade /\ v.file = v.trade
              /\ v.booked = w.booked + Least(size, w.trade.size)
              /\ IF size >= w.trade.size THEN v.trade = NoTrade
                 ELSE /\ v.trade = [w.trade EXCEPT !.size = w.trade.size - size]
                      /\ v.trade # NoTrade
<1>1. CASE w.trade = NoTrade \/ size = 0
  BY <1>1 DEF OnPositionClose, SameLast
<1>2. CASE ~ (w.trade = NoTrade \/ size = 0)
  <2>1. PICK d : d = InsertRow(w, size)
    OBVIOUS
  <2>2. /\ d \in Worlds /\ RowAdded(w, d) /\ SameLast(w, d)
        /\ d.booked = w.booked + Least(size, w.trade.size) /\ d.trade = w.trade
    BY <1>2, <2>1, InsertResult
  <2>3. w.trade.size \in 1 .. MaxSize /\ w.trade \in Trades
    BY <1>2, FieldTypes, Absent
  <2>4. PICK left : left = w.trade.size - Least(size, w.trade.size)
    OBVIOUS
  <2>5. left = (IF size >= w.trade.size THEN 0 ELSE w.trade.size - size)
    BY <2>3, <2>4, Bounds DEF Least
  <2>6. CASE size >= w.trade.size
    <3>1. v = ClearCurrentTrade([d EXCEPT !.trade = NoTrade])
      BY <1>2, <2>1, <2>4, <2>5, <2>6 DEF OnPositionClose
    <3>2. v = [d EXCEPT !.trade = NoTrade, !.pending = NoTrade, !.file = NoTrade]
      BY <2>2, <3>1 DEF ClearCurrentTrade, Worlds
    <3>3. v \in Worlds /\ SameBooks(d, v) /\ SameLast(d, v) /\ v.trade = NoTrade
          /\ v.pending = NoTrade /\ v.file = NoTrade
      <4>1. Replaces(d, NoTrade, NoTrade, NoTrade, v)
        BY <3>2 DEF Replaces
      <4> QED BY <2>2, <4>1, Absent, TradeReplaced
    <3> QED BY <1>2, <2>2, <2>6, <3>3 DEF SameBooks, SameLast, RowAdded
  <2>7. CASE ~ size >= w.trade.size
    <3>1. PICK t : t = [w.trade EXCEPT !.size = left]
      OBVIOUS
    <3>2. t \in Trades /\ t # NoTrade
      <4>1. left \in 1 .. MaxSize
        BY <2>3, <2>5, <2>7, Bounds
      <4> QED BY <1>2, <2>3, <3>1, <4>1 DEF Trades, NoTrade
    <3> DEFINE u == [d EXCEPT !.trade = t]
    <3>3. u.trade = t
      BY <2>2 DEF Worlds
    <3>4. v = PersistCurrentTrade([d EXCEPT !.trade.size = left])
      <4>1. left # 0
        BY <2>3, <2>5, <2>7
      <4> QED BY <1>2, <2>1, <2>4, <4>1 DEF OnPositionClose
    <3>5. [d EXCEPT !.trade.size = left] = u
      BY <2>2, <3>1 DEF Worlds
    <3>6. v = [u EXCEPT !.file = t, !.pending = NoTrade]
      BY <3>2, <3>3, <3>4, <3>5 DEF PersistCurrentTrade
    <3>7. v = [d EXCEPT !.trade = t, !.pending = NoTrade, !.file = t]
      BY <2>2, <3>6 DEF Worlds
    <3>8. v \in Worlds /\ SameBooks(d, v) /\ SameLast(d, v) /\ v.trade = t
          /\ v.pending = NoTrade /\ v.file = t
      <4>1. Replaces(d, t, NoTrade, t, v)
        BY <3>7 DEF Replaces
      <4> QED BY <2>2, <3>2, <4>1, Absent, TradeReplaced
    <3> QED BY <1>2, <2>2, <2>5, <2>7, <3>1, <3>2, <3>8 DEF SameBooks, SameLast, RowAdded
  <2> QED BY <2>6, <2>7
<1> QED BY <1>1, <1>2

LEMMA ReportType ==
  ASSUME NEW f \in Reports
  PROVE  /\ f.order \in 1 .. MaxOrders /\ f.side \in Sides /\ f.size \in 1 .. MaxSize
         /\ f.reduceOnly \in BOOLEAN
BY DEF Reports

(* What a close of this size does to the trade of w, and an opening fill.  *)
ClosedBy(w, v, size) ==
  IF w.trade = NoTrade
  THEN v.trade = NoTrade /\ v.pending = w.pending /\ v.file = w.file /\ v.booked = w.booked
  ELSE /\ v.pending = NoTrade /\ v.file = v.trade
       /\ v.booked = w.booked + Least(size, w.trade.size)
       /\ IF size >= w.trade.size THEN v.trade = NoTrade
          ELSE v.trade = [w.trade EXCEPT !.size = w.trade.size - size] /\ v.trade # NoTrade

OpenedBy(w, v, f, size) ==
  /\ v.trade = [mode |-> w.mode, order |-> f.order, side |-> f.side, size |-> size]
  /\ v.trade # NoTrade /\ v.file = v.trade /\ v.pending = NoTrade

(* No trade of this journal is in the file but not in its memory.          *)
NothingToRecall(w) ==
  w.trade # NoTrade \/ w.file = NoTrade \/ w.file.mode # w.mode

(* Rows are kept, but for at most one that is added.                       *)
Kept(w, v) == v \in Worlds /\ (SameBooks(w, v) \/ RowAdded(w, v))

LEMMA ApplyCloseResult ==
  ASSUME NEW w \in Worlds, NEW size \in Nat \ {0}, NEW truth,
         NEW v, v = ApplyCloseIfOpen(w, size, truth)
  PROVE  /\ Kept(w, v) /\ SameLast(w, v)
         /\ NothingToRecall(w) => ClosedBy(w, v, size)
         /\ w.trade # NoTrade => RowAdded(w, v) /\ v.booked = w.booked + Least(size, w.trade.size)
<1>1. PICK c : c = Recalled(w, truth)
  OBVIOUS
<1>2. v = OnPositionClose(c, size)
  BY <1>1 DEF ApplyCloseIfOpen
<1>3. /\ c \in Worlds /\ SameBooks(w, c) /\ SameLast(w, c)
      /\ NothingToRecall(w) => c = w
  BY <1>1, RecalledResult DEF NothingToRecall
<1>4. /\ v \in Worlds /\ SameLast(c, v)
      /\ c.trade = NoTrade => v = c
      /\ c.trade # NoTrade =>
           /\ RowAdded(c, v) /\ v.pending = NoTrade /\ v.file = v.trade
           /\ v.booked = c.booked + Least(size, c.trade.size)
           /\ IF size >= c.trade.size THEN v.trade = NoTrade
              ELSE /\ v.trade = [c.trade EXCEPT !.size = c.trade.size - size]
                   /\ v.trade # NoTrade
  BY <1>2, <1>3, CloseResult
<1>5. Kept(w, v) /\ SameLast(w, v)
  <2>1. SameLast(w, v)
    BY <1>3, <1>4 DEF SameLast
  <2>2. CASE c.trade = NoTrade
    BY <1>3, <1>4, <2>1, <2>2 DEF Kept
  <2>3. CASE c.trade # NoTrade
    <3>1. RowAdded(w, v)
      BY <1>3, <1>4, <2>3 DEF SameBooks, RowAdded
    <3> QED BY <1>4, <2>1, <3>1 DEF Kept
  <2> QED BY <2>2, <2>3
<1>6. NothingToRecall(w) => ClosedBy(w, v, size)
  BY <1>3, <1>4 DEF ClosedBy
<1>7. w.trade # NoTrade => NothingToRecall(w)
  BY DEF NothingToRecall
<1>8. w.trade # NoTrade => RowAdded(w, v) /\ v.booked = w.booked + Least(size, w.trade.size)
  BY <1>3, <1>4, <1>7
<1> QED BY <1>5, <1>6, <1>8

LEMMA HandleCloseResult ==
  ASSUME NEW w \in Worlds, NEW f \in Reports, NEW truth, NEW r \in Worlds,
         r = ResolvePendingRestore(w, truth), NEW v, v = HandleClose(w, f, truth)
  PROVE  /\ Kept(r, v)
         /\ IsDuplicateClose(r, f) => v = r
         /\ ~ IsDuplicateClose(r, f) =>
              v.lastClose = {f} /\ (NothingToRecall(r) => ClosedBy(r, v, f.size))
<1>1. CASE IsDuplicateClose(r, f)
  <2>1. v = r
    BY <1>1 DEF HandleClose
  <2> QED BY <1>1, <2>1 DEF Kept, SameBooks
<1>2. CASE ~ IsDuplicateClose(r, f)
  <2>1. PICK u : u = [r EXCEPT !.lastClose = {f}]
    OBVIOUS
  <2>2. v = ApplyCloseIfOpen(u, f.size, truth)
    BY <1>2, <2>1 DEF HandleClose
  <2>3. /\ u \in Worlds /\ u.lastClose = {f} /\ u.mode = r.mode /\ u.trade = r.trade
        /\ u.pending = r.pending /\ u.file = r.file /\ u.rows = r.rows /\ u.next = r.next
        /\ u.booked = r.booked
    BY <2>1 DEF Worlds
  <2>4. f.size \in Nat \ {0}
    BY ReportType, Bounds
  <2>5. Kept(u, v) /\ SameLast(u, v) /\ (NothingToRecall(u) => ClosedBy(u, v, f.size))
    BY <2>2, <2>3, <2>4, ApplyCloseResult
  <2>6. Kept(r, v)
    BY <2>3, <2>5 DEF Kept, SameBooks, RowAdded
  <2>7. v.lastClose = {f}
    BY <2>3, <2>5 DEF SameLast
  <2>8. NothingToRecall(r) => ClosedBy(r, v, f.size)
    BY <2>3, <2>5 DEF NothingToRecall, ClosedBy
  <2> QED BY <1>2, <2>6, <2>7, <2>8
<1> QED BY <1>1, <1>2

(* A turn closes the trade and opens the rest.                             *)
LEMMA ReverseResult ==
  ASSUME NEW w \in Worlds, NEW f \in Reports, NEW truth, w.trade # NoTrade,
         f.size > w.trade.size, NEW v, v = Reverse(w, f, truth)
  PROVE  /\ Kept(w, v) /\ SameLast(w, v) /\ v.booked = w.booked + w.trade.size
         /\ OpenedBy(w, v, f, IF OppositeLegDust(w.trade.size, f.size) THEN f.size
                              ELSE f.size - w.trade.size)
<1>1. PICK rest : rest = IF OppositeLegDust(w.trade.size, f.size) THEN f.size
                         ELSE f.size - w.trade.size
  OBVIOUS
<1>2. PICK shut : shut = ApplyCloseIfOpen(w, w.trade.size, truth)
  OBVIOUS
<1>3. w.trade.size \in 1 .. MaxSize /\ f.size \in 1 .. MaxSize /\ f.order \in 1 .. MaxOrders
      /\ f.side \in Sides
  BY FieldTypes, Absent, ReportType
<1>4. rest \in 1 .. MaxSize
  BY <1>1, <1>3, Bounds
<1>5. /\ Kept(w, shut) /\ SameLast(w, shut) /\ RowAdded(w, shut)
      /\ shut.booked = w.booked + Least(w.trade.size, w.trade.size)
  <2>1. w.trade.size \in Nat \ {0}
    BY <1>3, Bounds
  <2> QED BY <1>2, <2>1, ApplyCloseResult
<1>6. Least(w.trade.size, w.trade.size) = w.trade.size
  BY DEF Least
<1>7. PICK u : u = ClearCurrentTrade([shut EXCEPT !.trade = NoTrade])
  OBVIOUS
<1>8. u = [shut EXCEPT !.trade = NoTrade, !.pending = NoTrade, !.file = NoTrade]
  BY <1>5, <1>7 DEF ClearCurrentTrade, Worlds, Kept
<1>9. u \in Worlds /\ SameBooks(shut, u) /\ SameLast(shut, u) /\ u.trade = NoTrade
  BY <1>5, <1>8, Absent DEF Worlds, SameBooks, SameLast, Kept
<1>10. v = OnPositionOpen(u, f.order, f.side, rest)
  BY <1>1, <1>2, <1>7 DEF Reverse
<1>11. /\ v \in Worlds /\ SameBooks(u, v) /\ SameLast(u, v)
       /\ v.trade = [mode |-> u.mode, order |-> f.order, side |-> f.side, size |-> rest]
       /\ v.trade # NoTrade /\ v.file = v.trade /\ v.pending = NoTrade
  BY <1>3, <1>4, <1>9, <1>10, OpenResult
<1>12. RowAdded(w, v) /\ v.booked = w.booked + w.trade.size /\ u.mode = w.mode
  BY <1>5, <1>6, <1>9, <1>11 DEF SameBooks, RowAdded
<1>13. SameLast(w, v)
  BY <1>5, <1>9, <1>11 DEF SameLast
<1> QED BY <1>1, <1>11, <1>12, <1>13 DEF Kept, OpenedBy

LEMMA HandleOpenResult ==
  ASSUME NEW w \in Worlds, NEW f \in Reports, NEW truth, NEW r \in Worlds,
         r = ResolvePendingRestore(w, truth), NEW v, v = HandleOpenOrOpposite(w, f, truth)
  PROVE  /\ Kept(r, v) /\ SameLast(r, v)
         /\ r.trade = NoTrade => OpenedBy(r, v, f, f.size) /\ v.booked = r.booked
         /\ r.trade # NoTrade /\ r.trade.side = f.side => v = r
         /\ r.trade # NoTrade /\ r.trade.side # f.side /\ f.size > r.trade.size =>
              /\ v.booked = r.booked + r.trade.size
              /\ OpenedBy(r, v, f, IF OppositeLegDust(r.trade.size, f.size) THEN f.size
                                   ELSE f.size - r.trade.size)
         /\ r.trade # NoTrade /\ r.trade.side # f.side /\ ~ f.size > r.trade.size =>
              ClosedBy(r, v, f.size)
<1>1. f.size \in 1 .. MaxSize /\ f.order \in 1 .. MaxOrders /\ f.side \in Sides
      /\ f.size \in Nat \ {0}
  BY ReportType, Bounds
<1>2. CASE r.trade = NoTrade
  <2>1. v = OnPositionOpen(r, f.order, f.side, f.size)
    BY <1>2 DEF HandleOpenOrOpposite
  <2>2. /\ v \in Worlds /\ SameBooks(r, v) /\ SameLast(r, v)
        /\ v.trade = [mode |-> r.mode, order |-> f.order, side |-> f.side, size |-> f.size]
        /\ v.trade # NoTrade /\ v.file = v.trade /\ v.pending = NoTrade
    BY <1>1, <1>2, <2>1, OpenResult
  <2>3. v.booked = r.booked
    BY <2>2 DEF SameBooks
  <2> QED BY <1>2, <2>2, <2>3 DEF Kept, OpenedBy
<1>3. CASE r.trade # NoTrade /\ r.trade.side = f.side
  <2>1. v = r
    BY <1>3 DEF HandleOpenOrOpposite
  <2> QED BY <1>3, <2>1 DEF Kept, SameBooks, SameLast
<1>4. CASE r.trade # NoTrade /\ r.trade.side # f.side /\ f.size > r.trade.size
  <2>1. v = Reverse(r, f, truth)
    BY <1>4 DEF HandleOpenOrOpposite
  <2> QED BY <1>4, <2>1, ReverseResult
<1>5. CASE r.trade # NoTrade /\ r.trade.side # f.side /\ ~ f.size > r.trade.size
  <2>1. v = ApplyCloseIfOpen(r, f.size, truth)
    BY <1>5 DEF HandleOpenOrOpposite
  <2>2. NothingToRecall(r)
    BY <1>5 DEF NothingToRecall
  <2> QED BY <1>1, <1>5, <2>1, <2>2, ApplyCloseResult
<1> QED BY <1>2, <1>3, <1>4, <1>5

(* Whatever a fill does, rows are kept and at most one is added.           *)
LEMMA HandleTradeKeeps ==
  ASSUME NEW w \in Worlds, NEW f \in Reports, NEW truth, NEW v, v = HandleTrade(w, f, truth)
  PROVE  Kept(w, v)
<1>1. PICK r : r = ResolvePendingRestore(w, truth)
  OBVIOUS
<1>2. r \in Worlds /\ SameBooks(w, r)
  BY <1>1, ResolveResult
<1>3. Kept(r, v)
  BY <1>1, <1>2, HandleCloseResult, HandleOpenResult DEF HandleTrade
<1> QED BY <1>2, <1>3 DEF Kept, SameBooks, RowAdded

-----------------------------------------------------------------------------
(***************************************************************************)
(* The kinds of step.                                                      *)
(***************************************************************************)

(* An order fills: its report goes to who listens.                         *)
Sent(s, f, n) ==
  /\ f \in Reports /\ n \in {1, 2} /\ f.order = orders + 1
  /\ orders' = orders + 1 /\ orders' \in 0 .. MaxOrders
  /\ IF Listening(s)
     THEN stream' = [stream EXCEPT ![s] = @ \o [i \in 1 .. n |-> f]] /\ UNCHANGED missed
     ELSE missed' = missed \cup {s} /\ UNCHANGED stream

(* The body of Fills for a report f.                                       *)
Filled(s, f, n) ==
  /\ orders < MaxOrders /\ orders' = orders + 1
  /\ IF Listening(s)
     THEN stream' = [stream EXCEPT ![s] = @ \o [i \in 1 .. n |-> f]] /\ UNCHANGED missed
     ELSE missed' = missed \cup {s} /\ UNCHANGED stream

LEMMA FilledResult ==
  ASSUME Types, NEW s \in Sessions, NEW side \in Sides, NEW size \in 1 .. MaxSize,
         NEW n \in {1, 2}, NEW f, Filled(s, f, n), f.order = orders + 1,
         f \in [order : {orders + 1}, side : Sides, size : 1 .. MaxSize, price : Prices,
                reduceOnly : BOOLEAN]
  PROVE  Sent(s, f, n)
<1>1. orders < MaxOrders /\ orders' = orders + 1
  BY DEF Filled
<1>2. orders + 1 \in 1 .. MaxOrders /\ orders' \in 0 .. MaxOrders
  BY <1>1, Bounds DEF Types, ExchTypes
<1>3. f \in Reports
  BY <1>2 DEF Reports
<1> QED BY <1>2, <1>3 DEF Sent, Filled

LEMMA CopiesAreTwo == Copies \subseteq {1, 2}
BY DEF Copies

(* What a copy on its way adds to a stream.                                *)
LEMMA SentStream ==
  ASSUME Types, NEW s \in Sessions, NEW f, NEW n, Sent(s, f, n)
  PROVE  /\ stream' \in [Sessions -> Seq(Reports)] /\ missed' \in SUBSET Sessions
         /\ orders' \in 0 .. MaxOrders
<1>1. [i \in 1 .. n |-> f] \in Seq(Reports)
  BY DEF Sent
<1>2. stream[s] \o [i \in 1 .. n |-> f] \in Seq(Reports)
  BY <1>1, ConcatProperties DEF Types, ExchTypes
<1>3. CASE Listening(s)
  <2>1. stream' = [stream EXCEPT ![s] = stream[s] \o [i \in 1 .. n |-> f]] /\ missed' = missed
    BY <1>3 DEF Sent
  <2> QED BY <1>2, <2>1 DEF Types, ExchTypes, BootTypes, Sent
<1>4. CASE ~ Listening(s)
  BY <1>4 DEF Types, ExchTypes, BootTypes, Sent
<1> QED BY <1>3, <1>4

(* A step that writes to a journal and to the books of its bucket.         *)
LEMMA BecomesTypes ==
  ASSUME Types, NEW j \in Journals, NEW v \in Worlds, Becomes(j, v)
  PROVE  /\ MemoryTypes' /\ openFile' \in Trades /\ rows' \in [Buckets -> SUBSET Rows]
         /\ nextId' \in [Buckets -> Nat \ {0}] /\ booked' \in [Buckets -> Nat]
<1>1. Memory(v) \in Memories
  BY FieldTypes DEF Memory, Memories
<1>2. Mode(j) \in Buckets
  BY ModeOfSession
<1>3. MemoryTypes'
  BY <1>1 DEF Types, MemoryTypes, Becomes
<1> QED BY <1>2, <1>3, FieldTypes DEF Types, DiskTypes, Becomes

(* A delivered report: what is published, and with what result.            *)
Delivers(s, f, v) ==
  /\ Listening(s) /\ stream[s] # <<>> /\ f = Head(stream[s]) /\ f \in Reports
  /\ Recorded(s, f) /\ published' = published \cup {f}
  /\ v = HandleTrade(World(s), f, Truth(s)) /\ Kept(World(s), v) /\ Becomes(s, v)
  /\ stream' = [stream EXCEPT ![s] = WithoutCopy(s, f)]
  /\ sync' = [sync EXCEPT ![s] = NetAfterFill(sync[s], f)] \/ (regime = "crash" /\ UNCHANGED sync)
  /\ misled' = IF TakenForCopy(s, f) THEN misled \cup {s} ELSE misled
  /\ UNCHANGED <<bootVars, exchVars, archive, regime, missed>>

LEMMA DeliverFillResult ==
  ASSUME Types, NEW s \in Sessions, DeliverFill(s)
  PROVE  \E f, v : Delivers(s, f, v)
<1>1. Listening(s) /\ stream[s] # <<>> /\ s \in started
  BY DEF DeliverFill, Listening
<1>2. PICK f : f = Head(stream[s])
  OBVIOUS
<1>3. f \in Reports
  BY <1>1, <1>2, HeadTailProperties DEF Types, ExchTypes
<1>4. TargetJournal(s) = s
  BY <1>1 DEF TargetJournal
<1>5. PICK v : v = HandleTrade(World(s), f, Truth(s))
  OBVIOUS
<1>6. World(s) \in Worlds
  BY WorldType, ModeOfSession
<1>7. Kept(World(s), v)
  BY <1>3, <1>5, <1>6, HandleTradeKeeps
<1>8. /\ Recorded(s, f) /\ published' = published \cup {f} /\ Becomes(s, v)
      /\ misled' = IF TakenForCopy(s, f) THEN misled \cup {s} ELSE misled
  BY <1>2, <1>4, <1>5 DEF DeliverFill, Publish
<1>9. /\ stream' = [stream EXCEPT ![s] = WithoutCopy(s, f)]
      /\ sync' = [sync EXCEPT ![s] = NetAfterFill(sync[s], f)] \/ (regime = "crash" /\ UNCHANGED sync)
      /\ UNCHANGED <<bootVars, exchVars, archive, regime, missed>>
  BY <1>2 DEF DeliverFill
<1> QED BY <1>1, <1>2, <1>3, <1>5, <1>7, <1>8, <1>9 DEF Delivers

LEMMA RecordedTypes ==
  ASSUME Types, NEW s \in Sessions, NEW f \in Reports, Recorded(s, f)
  PROVE  executions' \in [Buckets -> Seq(1 .. MaxOrders)]
<1>1. PICK b : b = Mode(TargetJournal(s))
  OBVIOUS
<1>2. b \in Buckets
  BY <1>1, ModeOfSession DEF TargetJournal
<1>3. Append(executions[b], f.order) \in Seq(1 .. MaxOrders)
  BY <1>2, ReportType, AppendProperties DEF Types, MonitorTypes
<1>4. executions' = executions
      \/ executions' = [executions EXCEPT ![b] = Append(executions[b], f.order)]
  BY <1>1 DEF Recorded
<1> QED BY <1>2, <1>3, <1>4 DEF Types, MonitorTypes

LEMMA WithoutCopyType ==
  ASSUME Types, NEW s \in Sessions, NEW f, stream[s] # <<>>
  PROVE  WithoutCopy(s, f) \in Seq(Reports)
<1>1. stream[s] \in Seq(Reports)
  BY DEF Types, ExchTypes
<1>2. Tail(stream[s]) \in Seq(Reports) /\ Len(Tail(stream[s])) = Len(stream[s]) - 1
  BY <1>1, HeadTailProperties
<1>3. ASSUME Len(stream[s]) > 1
      PROVE  Tail(Tail(stream[s])) \in Seq(Reports)
  <2>1. PICK q \in Seq(Reports) : q = Tail(stream[s])
    BY <1>2
  <2>2. Len(q) # 0
    BY <1>1, <1>2, <1>3, <2>1, LenProperties
  <2>3. q # <<>>
    BY <2>2
  <2> QED BY <2>1, <2>3, HeadTailProperties
<1> QED BY <1>2, <1>3 DEF WithoutCopy

LEMMA NetType ==
  ASSUME NEW p \in Positions, NEW f \in Reports
  PROVE  NetAfterFill(p, f) \in Positions
<1>1. f.size \in 1 .. MaxSize /\ f.side \in Sides
  BY ReportType
<1>2. [side |-> f.side, size |-> f.size] \in Positions
  BY <1>1 DEF Positions
<1>3. CASE p = Flat
  BY <1>2, <1>3, Absent DEF NetAfterFill
<1>4. CASE p # Flat
  <2>1. p \in [side : Sides, size : 1 .. MaxSize] /\ p.size \in 1 .. MaxSize
    BY <1>4 DEF Positions
  <2>2. [p EXCEPT !.size = f.size] \in Positions
    BY <1>1, <2>1 DEF Positions
  <2>3. f.size < p.size => [p EXCEPT !.size = p.size - f.size] \in Positions
    <3>1. f.size < p.size => p.size - f.size \in 1 .. MaxSize
      BY <1>1, <2>1, Bounds
    <3> QED BY <2>1, <3>1 DEF Positions
  <2>4. ~ f.size < p.size /\ f.size # p.size
          => [side |-> f.side, size |-> f.size - p.size] \in Positions
    <3>1. ~ f.size < p.size /\ f.size # p.size => f.size - p.size \in 1 .. MaxSize
      BY <1>1, <2>1, Bounds
    <3> QED BY <1>1, <3>1 DEF Positions
  <2>5. p.size # 0 /\ Flat \in Positions
    BY <2>1, Bounds DEF Positions
  <2> QED BY <1>2, <2>2, <2>3, <2>4, <2>5 DEF NetAfterFill
<1> QED BY <1>3, <1>4

(* The process dies with the row of a close committed.                     *)
Commits(s, f, r, v) ==
  /\ Listening(s) /\ stream[s] # <<>> /\ f = Head(stream[s]) /\ f \in Reports /\ Dies
  /\ r \in Worlds /\ r = Recalled(ResolvePendingRestore(World(s), Truth(s)), Truth(s))
  /\ r.trade # NoTrade /\ v = InsertRow(r, f.size)
  /\ f.reduceOnly /\ Kept(World(s), v) /\ Becomes(s, v) /\ Recorded(s, f)
  /\ UNCHANGED <<exchVars, archive, regime, misled>>

LEMMA CrashAfterCommitResult ==
  ASSUME Types, NEW s \in Sessions, CrashAfterCommit(s)
  PROVE  \E f, r, v : Commits(s, f, r, v)
<1>1. /\ Listening(s) /\ stream[s] # <<>> /\ Dies
      /\ UNCHANGED <<exchVars, archive, regime, misled>>
  BY DEF CrashAfterCommit
<1>2. PICK f : f = Head(stream[s])
  OBVIOUS
<1>3. f \in Reports
  BY <1>1, <1>2, HeadTailProperties DEF Types, ExchTypes
<1>4. PICK w : w = ResolvePendingRestore(World(s), Truth(s))
  OBVIOUS
<1>5. PICK r : r = Recalled(w, Truth(s))
  OBVIOUS
<1>6. PICK v : v = InsertRow(r, f.size)
  OBVIOUS
<1>7. World(s) \in Worlds
  BY WorldType, ModeOfSession
<1>8. w \in Worlds /\ SameBooks(World(s), w)
  BY <1>4, <1>7, ResolveResult
<1>9. r \in Worlds /\ SameBooks(w, r)
  BY <1>5, <1>8, RecalledResult
<1>10. /\ f.reduceOnly /\ Recorded(s, f) /\ r.trade # NoTrade /\ Becomes(s, v)
  BY <1>2, <1>4, <1>5, <1>6 DEF CrashAfterCommit
<1>11. f.size \in Nat \ {0}
  BY <1>3, ReportType, Bounds
<1>12. v \in Worlds /\ RowAdded(r, v)
  BY <1>6, <1>9, <1>10, <1>11, InsertResult
<1>13. Kept(World(s), v)
  BY <1>8, <1>9, <1>12 DEF Kept, SameBooks, RowAdded
<1>14. r = Recalled(ResolvePendingRestore(World(s), Truth(s)), Truth(s))
  BY <1>4, <1>5
<1> QED BY <1>1, <1>2, <1>3, <1>6, <1>9, <1>10, <1>13, <1>14 DEF Commits

(* A journal's restore is resolved, at a start or by a heartbeat.          *)
Resolves(j, truth, v) ==
  /\ j \in Journals /\ v = ResolvePendingRestore(World(j), truth) /\ v \in Worlds
  /\ SameBooks(World(j), v) /\ Becomes(j, v)

LEMMA ResolvesResult ==
  ASSUME Types, NEW j \in Journals, NEW truth,
         Becomes(j, ResolvePendingRestore(World(j), truth))
  PROVE  \E v : Resolves(j, truth, v)
<1>1. PICK v : v = ResolvePendingRestore(World(j), truth)
  OBVIOUS
<1>2. World(j) \in Worlds
  BY WorldType
<1>3. v \in Worlds /\ SameBooks(World(j), v)
  BY <1>1, <1>2, ResolveResult
<1> QED BY <1>1, <1>3 DEF Resolves

(* An order of the exchange, but for what it does to the position.         *)
OrderStep(s, f, n) ==
  /\ Sent(s, f, n)
  /\ UNCHANGED <<bootVars, monitorVars, sync, journal, diskVars, archive, regime>>

LEMMA OpensResult ==
  ASSUME Types, NEW s \in Sessions, OrderOpens(s)
  PROVE  \E f, n : /\ OrderStep(s, f, n) /\ ~ f.reduceOnly /\ exch[s] = Flat
                   /\ Listening(s)
                   /\ regime = "crash" => n = 1 /\ stream[s] = <<>> /\ journal[s].pending = NoTrade
                   /\ exch' = [exch EXCEPT ![s] = [side |-> f.side, size |-> f.size]]
                   /\ UNCHANGED <<closed, misled>>
<1>1. PICK side \in Sides, size \in 1 .. MaxSize, n \in Copies :
        /\ Listening(s) /\ exch[s] = Flat
        /\ regime = "crash" => stream[s] = <<>> /\ journal[s].pending = NoTrade
        /\ Fills(s, side, size, FALSE, n)
        /\ exch' = [exch EXCEPT ![s] = [side |-> side, size |-> size]]
        /\ UNCHANGED <<bootVars, monitorVars, closed, sync, journal, diskVars, archive, regime,
                       misled>>
  BY DEF OrderOpens
<1>2. PICK f :
        /\ f \in [order : {orders + 1}, side : Sides, size : 1 .. MaxSize, price : Prices,
                  reduceOnly : BOOLEAN]
        /\ f.side = side /\ f.size = size /\ f.reduceOnly = FALSE /\ Filled(s, f, n)
  BY <1>1 DEF Fills, Filled
<1>9. Sent(s, f, n)
  <2>1. n \in {1, 2} /\ f.order = orders + 1
    BY <1>2, CopiesAreTwo
  <2> QED BY <1>2, <2>1, FilledResult
<1>3. regime = "crash" => n = 1
  BY <1>1 DEF Copies
<1>4. OrderStep(s, f, n)
  BY <1>1, <1>9 DEF OrderStep
<1> QED BY <1>1, <1>2, <1>3, <1>4

LEMMA ClosesResult ==
  ASSUME Types, NEW s \in Sessions, OrderCloses(s)
  PROVE  \E f, n : /\ OrderStep(s, f, n) /\ exch[s] # Flat /\ f.size <= exch[s].size
                   /\ f.side = Opposite(exch[s].side)
                   /\ regime = "crash" => n = 1 /\ f.reduceOnly /\ f.size = exch[s].size
                   /\ exch' = [exch EXCEPT ![s] = IF f.size = exch[s].size THEN Flat
                                   ELSE [exch[s] EXCEPT !.size = exch[s].size - f.size]]
                   /\ closed' = [closed EXCEPT ![s] = closed[s] + f.size]
                   /\ UNCHANGED misled
<1>1. Opposite(exch[s].side) \in Sides
  BY DEF Opposite, Sides
<1>2. PICK size \in 1 .. MaxSize, ro \in BOOLEAN, n \in Copies :
        /\ exch[s] # Flat /\ size <= exch[s].size
        /\ regime = "crash" => ro /\ size = exch[s].size
        /\ Fills(s, Opposite(exch[s].side), size, ro, n)
        /\ exch' = [exch EXCEPT ![s] = IF size = exch[s].size THEN Flat
                                       ELSE [exch[s] EXCEPT !.size = exch[s].size - size]]
        /\ closed' = [closed EXCEPT ![s] = closed[s] + size]
        /\ UNCHANGED <<bootVars, monitorVars, sync, journal, diskVars, archive, regime,
                       misled>>
  BY DEF OrderCloses
<1>21. PICK price \in Prices :
         Filled(s, [order |-> orders + 1, side |-> Opposite(exch[s].side), size |-> size,
                    price |-> price, reduceOnly |-> ro], n)
  BY <1>2 DEF Fills, Filled
<1>22. PICK f : f = [order |-> orders + 1, side |-> Opposite(exch[s].side), size |-> size,
                     price |-> price, reduceOnly |-> ro]
  OBVIOUS
<1>3. n \in {1, 2} /\ f.order = orders + 1
  BY <1>22, CopiesAreTwo
<1>23. f \in [order : {orders + 1}, side : Sides, size : 1 .. MaxSize, price : Prices,
              reduceOnly : BOOLEAN]
  BY <1>1, <1>22
<1>4. Sent(s, f, n)
  BY <1>21, <1>22, <1>23, <1>3, FilledResult
<1>5. regime = "crash" => n = 1
  BY DEF Copies
<1>6. OrderStep(s, f, n)
  BY <1>2, <1>4 DEF OrderStep
<1> QED BY <1>2, <1>22, <1>5, <1>6

LEMMA TurnsResult ==
  ASSUME Types, NEW s \in Sessions, OrderTurns(s)
  PROVE  \E f, n : /\ OrderStep(s, f, n) /\ exch[s] # Flat /\ f.size > exch[s].size
                   /\ f.side = Opposite(exch[s].side) /\ regime = "hand" /\ ~ f.reduceOnly
                   /\ exch' = [exch EXCEPT ![s] = [side |-> f.side, size |-> f.size - exch[s].size]]
                   /\ closed' = [closed EXCEPT ![s] = closed[s] + exch[s].size]
                   /\ misled' = IF OppositeLegDust(exch[s].size, f.size) THEN misled \cup {s}
                                ELSE misled
<1>1. PICK size \in 2 .. MaxSize, n \in Copies :
        /\ regime = "hand" /\ exch[s] # Flat /\ size > exch[s].size
        /\ Fills(s, Opposite(exch[s].side), size, FALSE, n)
        /\ exch' = [exch EXCEPT ![s] = [side |-> Opposite(exch[s].side),
                                        size |-> size - exch[s].size]]
        /\ closed' = [closed EXCEPT ![s] = closed[s] + exch[s].size]
        /\ misled' = IF OppositeLegDust(exch[s].size, size) THEN misled \cup {s} ELSE misled
        /\ UNCHANGED <<bootVars, monitorVars, sync, journal, diskVars, archive, regime>>
  BY DEF OrderTurns, Types, ExchTypes
<1>2. Opposite(exch[s].side) \in Sides /\ size \in 1 .. MaxSize
  BY Bounds DEF Opposite, Sides
<1>3. PICK f :
        /\ f \in [order : {orders + 1}, side : Sides, size : 1 .. MaxSize, price : Prices,
                  reduceOnly : BOOLEAN]
        /\ f.side = Opposite(exch[s].side) /\ f.size = size /\ f.reduceOnly = FALSE /\ Filled(s, f, n)
  BY <1>1, <1>2 DEF Fills, Filled
<1>9. Sent(s, f, n)
  <2>1. n \in {1, 2} /\ f.order = orders + 1
    BY <1>3, CopiesAreTwo
  <2> QED BY <1>3, <2>1, FilledResult
<1>5. OrderStep(s, f, n)
  BY <1>1, <1>9 DEF OrderStep
<1> QED BY <1>1, <1>3, <1>5

LEMMA AddsResult ==
  ASSUME Types, NEW s \in Sessions, OrderAdds(s)
  PROVE  \E f, n : /\ OrderStep(s, f, n) /\ exch[s] # Flat /\ regime = "hand"
                   /\ exch[s].size + f.size <= MaxSize
                   /\ exch' = [exch EXCEPT ![s].size = exch[s].size + f.size]
                   /\ misled' = misled \cup {s} /\ UNCHANGED closed
<1>1. PICK size \in 1 .. MaxSize, n \in Copies :
        /\ regime = "hand" /\ exch[s] # Flat /\ exch[s].size + size <= MaxSize
        /\ Fills(s, exch[s].side, size, FALSE, n)
        /\ exch' = [exch EXCEPT ![s].size = exch[s].size + size]
        /\ misled' = misled \cup {s}
        /\ UNCHANGED <<bootVars, monitorVars, closed, sync, journal, diskVars, archive, regime>>
  BY DEF OrderAdds, Types, ExchTypes
<1>2. exch[s].side \in Sides
  BY <1>1, Absent DEF Types, ExchTypes
<1>3. PICK f :
        /\ f \in [order : {orders + 1}, side : Sides, size : 1 .. MaxSize, price : Prices,
                  reduceOnly : BOOLEAN]
        /\ f.side = exch[s].side /\ f.size = size /\ f.reduceOnly = FALSE /\ Filled(s, f, n)
  BY <1>1, <1>2 DEF Fills, Filled
<1>9. Sent(s, f, n)
  <2>1. n \in {1, 2} /\ f.order = orders + 1
    BY <1>3, CopiesAreTwo
  <2> QED BY <1>3, <2>1, FilledResult
<1>5. OrderStep(s, f, n)
  BY <1>1, <1>9 DEF OrderStep
<1> QED BY <1>1, <1>3, <1>5

-----------------------------------------------------------------------------
(* The position at the exchange after an order.                            *)
LEMMA OrderTypes ==
  ASSUME Types, NEW s \in Sessions, NEW f, NEW n, OrderStep(s, f, n),
         NEW p \in Positions, exch' = [exch EXCEPT ![s] = p],
         closed' \in [Sessions -> Nat], misled' \in SUBSET Sessions
  PROVE  Types'
<1>1. /\ stream' \in [Sessions -> Seq(Reports)] /\ missed' \in SUBSET Sessions
      /\ orders' \in 0 .. MaxOrders
  BY SentStream DEF OrderStep
<1>2. exch' \in [Sessions -> Positions]
  BY DEF Types, ExchTypes
<1> QED BY <1>1, <1>2 DEF Types, OrderStep, BootTypes, ExchTypes, SyncTypes, DiskTypes,
          MonitorTypes, MemoryTypes, bootVars, monitorVars, diskVars

LEMMA OrdersType ==
  ASSUME Types, NEW s \in Sessions,
         OrderOpens(s) \/ OrderCloses(s) \/ OrderTurns(s) \/ OrderAdds(s)
  PROVE  Types'
<1>0. exch[s] \in Positions /\ closed[s] \in Nat
  BY DEF Types, ExchTypes
<1>1. CASE OrderOpens(s)
  <2>1. PICK f, n : /\ OrderStep(s, f, n)
                    /\ exch' = [exch EXCEPT ![s] = [side |-> f.side, size |-> f.size]]
                    /\ UNCHANGED <<closed, misled>>
    BY <1>1, OpensResult
  <2>2. PICK p : p = [side |-> f.side, size |-> f.size]
    OBVIOUS
  <2>3. p \in Positions
    BY <2>1, <2>2, ReportType DEF OrderStep, Sent, Positions
  <2>4. closed' \in [Sessions -> Nat] /\ misled' \in SUBSET Sessions
    BY <2>1 DEF Types, ExchTypes, BootTypes
  <2> QED BY <2>1, <2>2, <2>3, <2>4, OrderTypes
<1>2. CASE OrderCloses(s)
  <2>1. PICK f, n : /\ OrderStep(s, f, n) /\ exch[s] # Flat /\ f.size <= exch[s].size
                    /\ exch' = [exch EXCEPT ![s] = IF f.size = exch[s].size THEN Flat
                                   ELSE [exch[s] EXCEPT !.size = exch[s].size - f.size]]
                    /\ closed' = [closed EXCEPT ![s] = closed[s] + f.size]
                    /\ UNCHANGED misled
    BY <1>2, ClosesResult
  <2>2. PICK p : p = IF f.size = exch[s].size THEN Flat
                     ELSE [exch[s] EXCEPT !.size = exch[s].size - f.size]
    OBVIOUS
  <2>3. f.size \in 1 .. MaxSize /\ exch[s].size \in 1 .. MaxSize
    BY <1>0, <2>1, ReportType, Absent DEF OrderStep, Sent
  <2>4. p \in Positions
    <3>1. f.size # exch[s].size => exch[s].size - f.size \in 1 .. MaxSize
      BY <2>1, <2>3, Bounds
    <3>2. exch[s] \in [side : Sides, size : 1 .. MaxSize]
      BY <1>0, <2>1 DEF Positions
    <3> QED BY <2>2, <3>1, <3>2, Absent DEF Positions
  <2>5. closed' \in [Sessions -> Nat] /\ misled' \in SUBSET Sessions
    <3>1. closed[s] + f.size \in Nat
      BY <1>0, <2>3, Bounds
    <3> QED BY <2>1, <3>1 DEF Types, ExchTypes, BootTypes
  <2>6. exch' = [exch EXCEPT ![s] = p]
    BY <2>1, <2>2
  <2> QED BY <2>1, <2>4, <2>5, <2>6, OrderTypes
<1>3. CASE OrderTurns(s)
  <2>1. PICK f, n : /\ OrderStep(s, f, n) /\ exch[s] # Flat /\ f.size > exch[s].size
                    /\ exch' = [exch EXCEPT ![s] = [side |-> f.side, size |-> f.size - exch[s].size]]
                    /\ closed' = [closed EXCEPT ![s] = closed[s] + exch[s].size]
                    /\ misled' = IF OppositeLegDust(exch[s].size, f.size) THEN misled \cup {s}
                                 ELSE misled
    BY <1>3, TurnsResult
  <2>2. PICK p : p = [side |-> f.side, size |-> f.size - exch[s].size]
    OBVIOUS
  <2>3. f.size \in 1 .. MaxSize /\ exch[s].size \in 1 .. MaxSize /\ f.side \in Sides
    BY <1>0, <2>1, ReportType, Absent DEF OrderStep, Sent
  <2>4. p \in Positions
    <3>1. f.size - exch[s].size \in 1 .. MaxSize
      BY <2>1, <2>3, Bounds
    <3> QED BY <2>2, <2>3, <3>1 DEF Positions
  <2>5. closed' \in [Sessions -> Nat] /\ misled' \in SUBSET Sessions
    <3>1. closed[s] + exch[s].size \in Nat
      BY <1>0, <2>3, Bounds
    <3> QED BY <2>1, <3>1 DEF Types, ExchTypes, BootTypes
  <2>6. exch' = [exch EXCEPT ![s] = p]
    BY <2>1, <2>2
  <2> QED BY <2>1, <2>4, <2>5, <2>6, OrderTypes
<1>4. CASE OrderAdds(s)
  <2>1. PICK f, n : /\ OrderStep(s, f, n) /\ exch[s] # Flat /\ exch[s].size + f.size <= MaxSize
                    /\ exch' = [exch EXCEPT ![s].size = exch[s].size + f.size]
                    /\ misled' = misled \cup {s} /\ UNCHANGED closed
    BY <1>4, AddsResult
  <2>2. PICK p : p = [exch[s] EXCEPT !.size = exch[s].size + f.size]
    OBVIOUS
  <2>3. f.size \in 1 .. MaxSize /\ exch[s].size \in 1 .. MaxSize
    BY <1>0, <2>1, ReportType, Absent DEF OrderStep, Sent
  <2>4. p \in Positions
    <3>1. exch[s].size + f.size \in 1 .. MaxSize
      BY <2>1, <2>3, Bounds
    <3>2. exch[s] \in [side : Sides, size : 1 .. MaxSize]
      BY <1>0, <2>1 DEF Positions
    <3> QED BY <2>2, <3>1, <3>2 DEF Positions
  <2>5. closed' \in [Sessions -> Nat] /\ misled' \in SUBSET Sessions
    BY <2>1 DEF Types, ExchTypes, BootTypes
  <2>6. exch' = [exch EXCEPT ![s] = p]
    BY <2>1, <2>2
  <2> QED BY <2>1, <2>4, <2>5, <2>6, OrderTypes
<1> QED BY <1>1, <1>2, <1>3, <1>4

LEMMA DeliverType ==
  ASSUME Types, NEW s \in Sessions, NEW f, NEW v, Delivers(s, f, v)
  PROVE  Types'
<1>1. v \in Worlds /\ s \in Journals /\ s \in started /\ f \in Reports
  BY ModeOfSession DEF Delivers, Kept, Listening
<1>2. /\ MemoryTypes' /\ openFile' \in Trades /\ rows' \in [Buckets -> SUBSET Rows]
      /\ nextId' \in [Buckets -> Nat \ {0}] /\ booked' \in [Buckets -> Nat]
  BY <1>1, BecomesTypes DEF Delivers
<1>3. MonitorTypes'
  <2>1. executions' \in [Buckets -> Seq(1 .. MaxOrders)]
    BY <1>1, RecordedTypes DEF Delivers
  <2> QED BY <1>1, <2>1 DEF Types, MonitorTypes, Delivers
<1>4. ExchTypes'
  <2>1. PICK q : q = WithoutCopy(s, f)
    OBVIOUS
  <2>2. q \in Seq(Reports)
    BY <2>1, WithoutCopyType DEF Delivers
  <2> QED BY <2>1, <2>2 DEF Types, ExchTypes, Delivers, exchVars
<1>5. SyncTypes'
  <2>1. PICK p : p = NetAfterFill(sync[s], f)
    OBVIOUS
  <2>2. p \in Positions
    BY <1>1, <2>1, NetType DEF Types, SyncTypes
  <2>3. started' = started /\ (sync' = sync \/ sync' = [sync EXCEPT ![s] = p])
    BY <2>1 DEF Delivers, bootVars
  <2>4. CASE sync' = sync
    BY <2>3, <2>4 DEF Types, SyncTypes
  <2>5. CASE sync' = [sync EXCEPT ![s] = p]
    BY <2>2, <2>3, <2>5 DEF Types, SyncTypes
  <2> QED BY <2>3, <2>4, <2>5
<1>6. BootTypes'
  <2>1. misled' = misled \/ misled' = misled \cup {s}
    BY DEF Delivers
  <2> QED BY <2>1 DEF Types, BootTypes, Delivers, bootVars
<1>7. DiskTypes'
  BY <1>2 DEF Types, DiskTypes, Delivers
<1> QED BY <1>2, <1>3, <1>4, <1>5, <1>6, <1>7 DEF Types

LEMMA DiesTypes ==
  ASSUME Types, Dies
  PROVE  /\ up' = FALSE /\ crashes' \in 0 .. MaxCrashes
         /\ started' = {} /\ legacyOf' = {} /\ published' = {}
         /\ sync' \in [Sessions -> Positions \cup {Unknown}]
         /\ stream' \in [Sessions -> Seq(Reports)]
         /\ missed' \in SUBSET Sessions
<1>1. /\ up' = FALSE /\ crashes < MaxCrashes /\ crashes' = crashes + 1
      /\ started' = {} /\ legacyOf' = {} /\ published' = {}
      /\ sync' = [s \in Sessions |-> Unknown] /\ stream' = [s \in Sessions |-> <<>>]
      /\ missed' = missed \cup {s \in Sessions : stream[s] # <<>>}
  BY DEF Dies
<1>2. crashes' \in 0 .. MaxCrashes
  BY <1>1, Bounds DEF Types, BootTypes
<1>3. <<>> \in Seq(Reports)
  OBVIOUS
<1> QED BY <1>1, <1>2, <1>3 DEF Types, BootTypes

LEMMA CrashType ==
  ASSUME Types, Crash
  PROVE  Types'
<1>1. Dies /\ UNCHANGED <<executions, exchVars, journal, diskVars, archive, regime, misled>>
  BY DEF Crash
<1>2. BootTypes'
  BY <1>1, DiesTypes DEF Types, BootTypes
<1>3. ExchTypes'
  BY <1>1, DiesTypes DEF Types, ExchTypes, exchVars
<1>4. SyncTypes'
  BY <1>1, DiesTypes DEF Types, SyncTypes
<1> QED BY <1>1, <1>2, <1>3, <1>4, DiesTypes DEF Types, DiskTypes, MonitorTypes, MemoryTypes,
          diskVars

LEMMA CommitType ==
  ASSUME Types, NEW s \in Sessions, NEW f, NEW r, NEW v, Commits(s, f, r, v)
  PROVE  Types'
<1>1. v \in Worlds /\ s \in Journals /\ f \in Reports /\ Dies
  BY ModeOfSession DEF Commits, Kept
<1>2. /\ MemoryTypes' /\ openFile' \in Trades /\ rows' \in [Buckets -> SUBSET Rows]
      /\ nextId' \in [Buckets -> Nat \ {0}] /\ booked' \in [Buckets -> Nat]
  BY <1>1, BecomesTypes DEF Commits
<1>3. executions' \in [Buckets -> Seq(1 .. MaxOrders)]
  BY <1>1, RecordedTypes DEF Commits
<1>4. UNCHANGED <<exchVars, archive, regime, misled>>
  BY DEF Commits
<1>5. BootTypes'
  BY <1>1, <1>4, DiesTypes DEF Types, BootTypes
<1>6. ExchTypes'
  BY <1>1, <1>4, DiesTypes DEF Types, ExchTypes, exchVars
<1>7. SyncTypes'
  BY <1>1, DiesTypes DEF Types, SyncTypes
<1>8. MonitorTypes'
  BY <1>1, <1>3, DiesTypes DEF MonitorTypes
<1>9. DiskTypes'
  BY <1>2, <1>4 DEF Types, DiskTypes
<1> QED BY <1>2, <1>5, <1>6, <1>7, <1>8, <1>9 DEF Types

LEMMA ResolveTypes ==
  ASSUME Types, NEW j, NEW truth, NEW v, Resolves(j, truth, v),
         UNCHANGED <<monitorVars, exchVars, stream, archive>>, BootTypes', SyncTypes'
  PROVE  Types'
<1>1. /\ MemoryTypes' /\ openFile' \in Trades /\ rows' \in [Buckets -> SUBSET Rows]
      /\ nextId' \in [Buckets -> Nat \ {0}] /\ booked' \in [Buckets -> Nat]
  BY BecomesTypes DEF Resolves
<1>2. DiskTypes' /\ ExchTypes' /\ MonitorTypes'
  BY <1>1 DEF Types, DiskTypes, ExchTypes, MonitorTypes, exchVars, monitorVars
<1> QED BY <1>1, <1>2 DEF Types

LEMMA StartType ==
  ASSUME Types, NEW s \in Sessions, Start(s)
  PROVE  Types'
<1>1. PICK v : Resolves(Legacy, exch[s], v)
  BY ResolvesResult, ModeOfSession DEF Start
<1>2. /\ started' = started \cup {s} /\ legacyOf' = {s} /\ sync' = [sync EXCEPT ![s] = exch[s]]
      /\ UNCHANGED <<up, crashes, monitorVars, exchVars, stream, archive, regime, missed, misled>>
  BY DEF Start
<1>3. BootTypes'
  BY <1>2 DEF Types, BootTypes
<1>4. SyncTypes'
  BY <1>2 DEF Types, SyncTypes, ExchTypes
<1>5. UNCHANGED <<monitorVars, exchVars, stream, archive>>
  BY <1>2
<1> QED BY <1>1, <1>3, <1>4, <1>5, ResolveTypes

LEMMA HeartbeatType ==
  ASSUME Types, NEW s \in Sessions, Heartbeat(s)
  PROVE  Types'
<1>1. PICK v : Resolves(s, Truth(s), v)
  BY ResolvesResult, ModeOfSession DEF Heartbeat
<1>2. UNCHANGED <<bootVars, monitorVars, exchVars, sync, stream, archive, regime, missed, misled>>
  BY DEF Heartbeat
<1>3. BootTypes' /\ SyncTypes'
  BY <1>2 DEF Types, BootTypes, SyncTypes, bootVars
<1>5. UNCHANGED <<monitorVars, exchVars, stream, archive>>
  BY <1>2
<1> QED BY <1>1, <1>3, <1>5, ResolveTypes

LEMMA OtherTypes ==
  ASSUME Types, NEW s \in Sessions,
         DedupeExpires(s) \/ PositionUpdate(s) \/ TradeRoutes(s)
  PROVE  Types'
<1>1. CASE DedupeExpires(s)
  <2>1. journal' = [journal EXCEPT ![s].lastClose = {}]
        /\ UNCHANGED <<bootVars, monitorVars, exchVars, sync, stream, diskVars, archive,
                 regime, missed, misled>>
    BY <1>1 DEF DedupeExpires
  <2>2. MemoryTypes'
    BY <2>1 DEF Types, MemoryTypes, Memories
  <2> QED BY <2>1, <2>2 DEF Types, BootTypes, ExchTypes, SyncTypes, DiskTypes, MonitorTypes,
            bootVars, monitorVars, exchVars, diskVars
<1>2. CASE PositionUpdate(s)
  <2>1. sync' = [sync EXCEPT ![s] = exch[s]]
        /\ UNCHANGED <<bootVars, monitorVars, exchVars, stream, journal, diskVars, archive, regime,
                 missed, misled>>
    BY <1>2 DEF PositionUpdate
  <2>2. SyncTypes'
    BY <2>1 DEF Types, SyncTypes, ExchTypes, bootVars
  <2> QED BY <2>1, <2>2 DEF Types, BootTypes, ExchTypes, MemoryTypes, DiskTypes, MonitorTypes,
            bootVars, monitorVars, exchVars, diskVars
<1>3. CASE TradeRoutes(s)
  <2>1. DiskTypes'
    <3>1. s \in Buckets
      BY ModeOfSession
    <3>2. CASE Archive(s)
      <4>1. PICK new : new \subseteq rows[s]
              /\ archive' = archive \cup {[bucket |-> s, id |-> r.id, order |-> r.order,
                                           size |-> r.size] : r \in new}
        BY <3>2 DEF Archive
      <4>2. \A r \in rows[s] : [bucket |-> s, id |-> r.id, order |-> r.order,
                                size |-> r.size] \in Archived
        BY <3>1 DEF Types, DiskTypes, Rows, Archived
      <4>3. archive' \in SUBSET Archived
        BY <4>1, <4>2 DEF Types, DiskTypes
      <4>4. UNCHANGED diskVars
        BY <3>2 DEF Archive
      <4> QED BY <4>3, <4>4 DEF Types, DiskTypes, diskVars
    <3>3. CASE Reset(s)
      BY <3>1, <3>3 DEF Types, DiskTypes, Reset
    <3> QED BY <1>3, <3>2, <3>3 DEF TradeRoutes
  <2>2. UNCHANGED <<bootVars, monitorVars, exchVars, sync, stream, journal, regime, missed, misled>>
    BY <1>3 DEF TradeRoutes, Archive, Reset
  <2> QED BY <2>1, <2>2 DEF Types, BootTypes, ExchTypes, MemoryTypes, SyncTypes, MonitorTypes,
            bootVars, monitorVars, exchVars
<1> QED BY <1>1, <1>2, <1>3

LEMMA BootType ==
  ASSUME Types, Boot \/ UNCHANGED vars
  PROVE  Types'
<1>1. CASE Boot
  <2>1. /\ up' = TRUE /\ journal' = [j \in Journals |-> FreshJournal(j)]
        /\ UNCHANGED <<started, legacyOf, crashes, monitorVars, exchVars, sync, stream, diskVars,
                 archive, regime, missed, misled>>
    BY <1>1 DEF Boot
  <2>2. \A j \in Journals : FreshJournal(j) \in Memories
    BY Absent DEF FreshJournal, Memories, Types, DiskTypes
  <2>3. MemoryTypes'
    BY <2>1, <2>2 DEF MemoryTypes
  <2> QED BY <2>1, <2>3 DEF Types, BootTypes, ExchTypes, SyncTypes, DiskTypes, MonitorTypes,
            bootVars, monitorVars, exchVars, diskVars
<1>2. CASE UNCHANGED vars
  BY <1>2 DEF vars, Types, BootTypes, ExchTypes, SyncTypes, DiskTypes, MonitorTypes,
            MemoryTypes, bootVars, monitorVars, exchVars, diskVars
<1> QED BY <1>1, <1>2

(* What a step can be, by what it writes to.                               *)
LEMMA StepKinds ==
  ASSUME Types, [Next]_vars
  PROVE  \/ Crash
         \/ Boot
         \/ \E s \in Sessions :
              \/ OrderOpens(s) \/ OrderCloses(s) \/ OrderTurns(s) \/ OrderAdds(s)
              \/ \E f, v : Delivers(s, f, v)
              \/ DedupeExpires(s) \/ PositionUpdate(s) \/ Start(s) \/ Heartbeat(s)
              \/ \E f, r, v : Commits(s, f, r, v)
              \/ TradeRoutes(s)
         \/ UNCHANGED vars
BY DeliverFillResult, CrashAfterCommitResult DEF Next, SessionStep

LEMMA TypesStep ==
  ASSUME Types, [Next]_vars
  PROVE  Types'
<1>1. ASSUME NEW s \in Sessions,
             \/ OrderOpens(s) \/ OrderCloses(s) \/ OrderTurns(s) \/ OrderAdds(s)
             \/ \E f, v : Delivers(s, f, v)
             \/ DedupeExpires(s) \/ PositionUpdate(s) \/ Start(s) \/ Heartbeat(s)
             \/ \E f, r, v : Commits(s, f, r, v)
             \/ TradeRoutes(s)
      PROVE  Types'
  BY <1>1, OrdersType, DeliverType, StartType, HeartbeatType, CommitType, OtherTypes
<1> QED BY <1>1, StepKinds, CrashType, BootType

LEMMA TypesInit == Init => Types
<1> SUFFICES ASSUME Init PROVE Types
  OBVIOUS
<1>1. BootTypes /\ SyncTypes
  BY Bounds DEF Init, BootTypes, SyncTypes
<1>2. ExchTypes
  BY Absent, Bounds DEF Init, ExchTypes
<1>3. DiskTypes /\ MonitorTypes
  BY Absent DEF Init, DiskTypes, MonitorTypes
<1>4. MemoryTypes
  BY Absent DEF Init, MemoryTypes, Memories
<1> QED BY <1>1, <1>2, <1>3, <1>4 DEF Types

LEMMA TypesHold == Spec => []Types
BY TypesInit, TypesStep, PTL DEF Spec

(* Every variable keeps its kind of value, whatever the sessions, the       *)
(* prices and the bounds.                                                   *)
THEOREM TypesAlwaysHold == Spec => []TypeOK
<1>1. Types => TypeOK
  BY DEF Types, BootTypes, ExchTypes, SyncTypes, DiskTypes, MonitorTypes, MemoryTypes, TypeOK,
         Memories, Archived
<1> QED BY <1>1, TypesHold, PTL

-----------------------------------------------------------------------------
(***************************************************************************)
(* The keys of the archive.                                                *)
(***************************************************************************)
IdInv ==
  /\ \A b \in Buckets : \A r \in rows[b] : r.id < nextId[b]
  /\ \A b \in Buckets : \A r, q \in rows[b] : r.id = q.id => r = q
  /\ \A a \in archive : a.id < nextId[a.bucket]
  /\ \A a \in archive : \A r \in rows[a.bucket] :
       a.id = r.id => a.order = r.order /\ a.size = r.size

(* What a step does to the books of the buckets.                           *)
Books == UNCHANGED <<rows, nextId, archive, booked>>
Write == \E j \in Journals : \E v : Kept(World(j), v) /\ Becomes(j, v) /\ UNCHANGED archive

LEMMA BookSteps ==
  ASSUME Types, [Next]_vars
  PROVE  Books \/ Write \/ \E s \in Sessions : Archive(s) \/ Reset(s)
<1>1. ASSUME NEW s \in Sessions,
             OrderOpens(s) \/ OrderCloses(s) \/ OrderTurns(s) \/ OrderAdds(s)
      PROVE  Books
  BY <1>1 DEF OrderOpens, OrderCloses, OrderTurns, OrderAdds, Books, diskVars
<1>2. ASSUME NEW s \in Sessions, NEW f, NEW v, Delivers(s, f, v)
      PROVE  Write
  BY <1>2, ModeOfSession DEF Delivers, Write
<1>3. ASSUME NEW s \in Sessions, DedupeExpires(s) \/ PositionUpdate(s)
      PROVE  Books
  BY <1>3 DEF DedupeExpires, PositionUpdate, Books, diskVars
<1>4. ASSUME NEW s \in Sessions, Start(s)
      PROVE  Write
  <2>1. PICK v : Resolves(Legacy, exch[s], v)
    BY <1>4, ResolvesResult, ModeOfSession DEF Start
  <2>2. UNCHANGED archive
    BY <1>4 DEF Start
  <2> QED BY <2>1, <2>2 DEF Write, Resolves, Kept
<1>5. ASSUME NEW s \in Sessions, Heartbeat(s)
      PROVE  Write
  <2>1. PICK v : Resolves(s, Truth(s), v)
    BY <1>5, ResolvesResult, ModeOfSession DEF Heartbeat
  <2>2. UNCHANGED archive
    BY <1>5 DEF Heartbeat
  <2> QED BY <2>1, <2>2 DEF Write, Resolves, Kept
<1>6. ASSUME NEW s \in Sessions, NEW f, NEW r, NEW v, Commits(s, f, r, v)
      PROVE  Write
  BY <1>6, ModeOfSession DEF Commits, Write
<1>7. Crash \/ Boot \/ UNCHANGED vars => Books
  BY DEF Crash, Boot, vars, Books, diskVars
<1>8. ASSUME NEW s \in Sessions,
             \/ OrderOpens(s) \/ OrderCloses(s) \/ OrderTurns(s) \/ OrderAdds(s)
             \/ \E f, v : Delivers(s, f, v)
             \/ DedupeExpires(s) \/ PositionUpdate(s) \/ Start(s) \/ Heartbeat(s)
             \/ \E f, r, v : Commits(s, f, r, v)
             \/ TradeRoutes(s)
      PROVE  Books \/ Write \/ Archive(s) \/ Reset(s)
  BY <1>1, <1>2, <1>3, <1>4, <1>5, <1>6, <1>8 DEF TradeRoutes
<1> QED BY <1>7, <1>8, StepKinds

LEMMA IdStep ==
  ASSUME Types, IdInv, [Next]_vars
  PROVE  IdInv'
<1>1. CASE Books
  BY <1>1 DEF Books, IdInv
<1>2. CASE Write
  <2>1. PICK j \in Journals, v \in Worlds : Kept(World(j), v) /\ Becomes(j, v) /\ UNCHANGED archive
    BY <1>2 DEF Write, Kept
  <2>2. PICK m : m = Mode(j)
    OBVIOUS
  <2>3. m \in Buckets /\ nextId[m] \in Nat \ {0} /\ rows[m] \subseteq Rows
    BY <2>2, ModeOfSession DEF Types, DiskTypes
  <2>4. /\ rows' = [rows EXCEPT ![m] = v.rows] /\ nextId' = [nextId EXCEPT ![m] = v.next]
    BY <2>1, <2>2 DEF Becomes
  <2>5. CASE SameBooks(World(j), v)
    <3>1. v.rows = rows[m] /\ v.next = nextId[m]
      BY <2>2, <2>5 DEF SameBooks, World
    <3>2. rows' = rows /\ nextId' = nextId
      BY <2>4, <3>1 DEF Types, DiskTypes
    <3> QED BY <2>1, <3>2 DEF IdInv
  <2>6. CASE RowAdded(World(j), v)
    <3>1. PICK o \in 1 .. MaxOrders, q \in 1 .. MaxSize :
            v.rows = rows[m] \cup {[id |-> nextId[m], order |-> o, size |-> q]}
            /\ v.next = nextId[m] + 1
      BY <2>2, <2>6 DEF RowAdded, World
    <3>2. PICK w : w = [id |-> nextId[m], order |-> o, size |-> q]
      OBVIOUS
    <3>3. /\ rows'[m] = rows[m] \cup {w} /\ nextId'[m] = nextId[m] + 1 /\ w.id = nextId[m]
          /\ \A b \in Buckets : b # m => rows'[b] = rows[b] /\ nextId'[b] = nextId[b]
      BY <2>3, <2>4, <3>1, <3>2 DEF Types, DiskTypes
    <3>4. \A b \in Buckets : \A r \in rows[b] : r.id \in Nat /\ r.id < nextId[b]
      BY DEF IdInv, Types, DiskTypes, Rows
    <3>5. \A b \in Buckets : \A r \in rows'[b] : r.id < nextId'[b]
      <4>1. \A r \in rows'[m] : r.id < nextId'[m]
        <5>1. TAKE r \in rows'[m]
        <5>2. CASE r = w
          BY <2>3, <3>3, <5>2
        <5>3. CASE r \in rows[m]
          BY <2>3, <3>3, <3>4, <5>3
        <5> QED BY <3>3, <5>2, <5>3
      <4> QED BY <3>3, <3>4, <4>1
    <3>6. \A b \in Buckets : \A r, p \in rows'[b] : r.id = p.id => r = p
      <4>1. \A r, p \in rows'[m] : r.id = p.id => r = p
        BY <2>3, <3>3, <3>4 DEF IdInv
      <4> QED BY <3>3, <4>1 DEF IdInv
    <3>7. \A a \in archive : a.bucket \in Buckets /\ a.id \in Nat /\ a.id < nextId[a.bucket]
      BY ModeOfSession DEF IdInv, Types, DiskTypes, Archived
    <3>8. \A a \in archive' : a.id < nextId'[a.bucket]
      BY <2>1, <2>3, <3>3, <3>7
    <3>9. \A a \in archive' : \A r \in rows'[a.bucket] :
            a.id = r.id => a.order = r.order /\ a.size = r.size
      <4>1. TAKE a \in archive'
      <4>2. a \in archive
        BY <2>1, <4>1
      <4>3. TAKE r \in rows'[a.bucket]
      <4>4. CASE r \in rows[a.bucket]
        BY <4>2, <4>4 DEF IdInv
      <4>5. CASE a.bucket = m /\ r = w
        BY <2>3, <3>3, <3>7, <4>2, <4>5
      <4> QED BY <3>3, <3>7, <4>2, <4>3, <4>4, <4>5
    <3> QED BY <3>5, <3>6, <3>8, <3>9 DEF IdInv
  <2> QED BY <2>1, <2>5, <2>6 DEF Kept
<1>3. ASSUME NEW s \in Sessions, Archive(s)
      PROVE  IdInv'
  <2>1. PICK new : /\ new \subseteq rows[s]
                   /\ archive' = archive \cup {[bucket |-> s, id |-> r.id, order |-> r.order,
                                                size |-> r.size] : r \in new}
    BY <1>3 DEF Archive
  <2>2. UNCHANGED <<rows, nextId>> /\ s \in Buckets
    BY <1>3, ModeOfSession DEF Archive, diskVars
  <2>3. \A a \in archive' : \/ a \in archive
                            \/ \E r \in rows[s] : /\ a.bucket = s /\ a.id = r.id
                                                  /\ a.order = r.order /\ a.size = r.size
    BY <2>1
  <2>4. \A a \in archive' : a.id < nextId[a.bucket]
    BY <2>2, <2>3 DEF IdInv
  <2>5. \A a \in archive' : \A r \in rows[a.bucket] :
          a.id = r.id => a.order = r.order /\ a.size = r.size
    BY <2>2, <2>3 DEF IdInv
  <2> QED BY <2>2, <2>4, <2>5 DEF IdInv
<1>4. ASSUME NEW s \in Sessions, Reset(s)
      PROVE  IdInv'
  <2>1. rows' = [rows EXCEPT ![s] = {}] /\ UNCHANGED <<nextId, archive>>
    BY <1>4 DEF Reset
  <2>2. \A b \in Buckets : rows'[b] \subseteq rows[b]
    BY <2>1 DEF Types, DiskTypes
  <2>3. \A a \in archive : a.bucket \in Buckets
    BY ModeOfSession DEF Types, DiskTypes, Archived
  <2> QED BY <2>1, <2>2, <2>3 DEF IdInv
<1> QED BY <1>1, <1>2, <1>3, <1>4, BookSteps

(* The archive never refuses a row of a session's table for the row of another *)
(* trade, so the DELETE that follows archive_session_trades loses none.     *)
THEOREM ArchiveNeverRefusesATrade == Spec => []ArchiveKeyIsUnique
<1>1. Init => IdInv
  BY DEF Init, IdInv
<1>2. Types /\ IdInv /\ [Next]_vars => IdInv'
  BY IdStep
<1>3. Types /\ IdInv => ArchiveKeyIsUnique
  BY DEF Types, DiskTypes, Archived, IdInv, ArchiveKeyIsUnique, ArchiveKey
<1> QED BY <1>1, <1>2, <1>3, TypesHold, PTL DEF Spec

-----------------------------------------------------------------------------
(***************************************************************************)
(* The execution history.                                                  *)
(***************************************************************************)
OrdersOf(b) == {executions[b][i] : i \in DOMAIN executions[b]}
Way(s) == {stream[s][i] : i \in DOMAIN stream[s]}
Coming == UNION {Way(s) : s \in Sessions}

(* Two reports of one order are one report, and an order that has a row and *)
(* is yet to come again has been published: its copy will be recognised.    *)
HistoryInv ==
  /\ \A b \in Buckets : /\ IsFiniteSet(OrdersOf(b))
                        /\ Cardinality(OrdersOf(b)) = Len(executions[b])
  /\ \A b \in Buckets : \A x \in OrdersOf(b) : x <= orders
  /\ \A f \in Coming : f.order <= orders
  /\ \A f, g \in Coming : f.order = g.order => f = g
  /\ \A b \in Buckets : \A f \in Coming : f.order \in OrdersOf(b) => f \in published
  /\ \A f \in published : \E g \in published, b \in Buckets :
       g.order \in OrdersOf(b) /\ Trace(g) = Trace(f)

(* What a step does to the reports on their way and to the history.        *)
Quiet == Coming' \subseteq Coming /\ UNCHANGED <<executions, published, orders>>
NewOrder(f) ==
  /\ orders' = orders + 1 /\ f.order = orders + 1 /\ Coming' \subseteq Coming \cup {f}
  /\ UNCHANGED <<executions, published>>
Record(f) ==
  /\ \E s \in Sessions : Recorded(s, f)
  /\ f \in Coming /\ f \in Reports /\ UNCHANGED orders
Told(f) == Record(f) /\ Coming' \subseteq Coming /\ published' = published \cup {f}
Forgotten == Coming' = {} /\ published' = {} /\ UNCHANGED orders

LEMMA WayKept ==
  ASSUME Types, NEW s \in Sessions, stream[s] # <<>>, NEW f,
         stream' = [stream EXCEPT ![s] = WithoutCopy(s, f)]
  PROVE  Coming' \subseteq Coming /\ Head(stream[s]) \in Coming
<1>1. stream[s] \in Seq(Reports) /\ stream \in [Sessions -> Seq(Reports)]
  BY DEF Types, ExchTypes
<1>2. PICK q : q = Tail(stream[s])
  OBVIOUS
<1>3. /\ q \in Seq(Reports) /\ Len(q) = Len(stream[s]) - 1 /\ Len(stream[s]) \in Nat
      /\ \A i \in 1 .. Len(q) : q[i] = stream[s][i + 1]
  BY <1>1, <1>2, HeadTailProperties, LenProperties
<1>4. \A i \in DOMAIN q : q[i] \in Way(s)
  <2>1. DOMAIN q = 1 .. Len(q) /\ DOMAIN stream[s] = 1 .. Len(stream[s])
    BY <1>1, <1>3, LenProperties
  <2> QED BY <1>3, <2>1 DEF Way
<1>5. ASSUME Len(stream[s]) > 1
      PROVE  \A i \in DOMAIN Tail(q) : Tail(q)[i] \in Way(s)
  <2>1. q # <<>>
    <3>1. Len(q) # 0
      BY <1>3, <1>5
    <3> QED BY <3>1
  <2>2. /\ Tail(q) \in Seq(Reports) /\ Len(Tail(q)) = Len(q) - 1 /\ Len(q) \in Nat
        /\ \A i \in 1 .. Len(Tail(q)) : Tail(q)[i] = q[i + 1]
    BY <1>3, <2>1, HeadTailProperties, LenProperties
  <2>3. DOMAIN Tail(q) = 1 .. Len(Tail(q)) /\ DOMAIN q = 1 .. Len(q)
    BY <1>3, <2>2, LenProperties
  <2> QED BY <1>4, <2>2, <2>3
<1>6. PICK w : w = WithoutCopy(s, f)
  OBVIOUS
<1>7. \A i \in DOMAIN w : w[i] \in Way(s)
  <2>1. w = q \/ (Len(stream[s]) > 1 /\ w = Tail(q))
    BY <1>2, <1>6 DEF WithoutCopy
  <2> QED BY <1>4, <1>5, <2>1
<1>8. \A t \in Sessions : Way(t)' \subseteq Way(t)
  <2>1. stream' = [stream EXCEPT ![s] = w]
    BY <1>6
  <2>2. TAKE t \in Sessions
  <2>3. CASE t = s
    <3>1. stream'[t] = w
      BY <1>1, <2>1, <2>3
    <3> QED BY <1>7, <2>3, <3>1 DEF Way
  <2>4. CASE t # s
    <3>1. stream'[t] = stream[t]
      BY <1>1, <2>1, <2>4
    <3> QED BY <3>1 DEF Way
  <2> QED BY <2>3, <2>4
<1>9. Head(stream[s]) \in Way(s)
  <2>1. Head(stream[s]) = stream[s][1] /\ 1 \in DOMAIN stream[s]
    BY <1>1, LenProperties, HeadTailProperties
  <2> QED BY <2>1 DEF Way
<1> QED BY <1>8, <1>9 DEF Coming

(* ConcatProperties, for a concatenation that has a name.                   *)
Joins(p, q, w) == w = p \o q

LEMMA Concatenated ==
  ASSUME NEW S, NEW p \in Seq(S), NEW q \in Seq(S), NEW w, Joins(p, q, w)
  PROVE  /\ w \in Seq(S) /\ Len(w) = Len(p) + Len(q)
         /\ \A i \in 1 .. Len(w) : w[i] = IF i <= Len(p) THEN p[i] ELSE q[i - Len(p)]
  BY ConcatProperties DEF Joins

LEMMA WayAdds ==
  ASSUME Types, NEW s \in Sessions, NEW f, NEW n, OrderStep(s, f, n)
  PROVE  NewOrder(f)
<1>1. stream[s] \in Seq(Reports) /\ stream \in [Sessions -> Seq(Reports)]
  BY DEF Types, ExchTypes
<1>2. /\ f \in Reports /\ n \in {1, 2} /\ orders' = orders + 1 /\ f.order = orders + 1
      /\ UNCHANGED <<executions, published>>
  BY DEF OrderStep, Sent, monitorVars
<1>3. \A t \in Sessions : Way(t)' \subseteq Way(t) \cup {f}
  <2>1. CASE ~ Listening(s)
    BY <2>1 DEF OrderStep, Sent, Way
  <2>2. CASE Listening(s)
    <3>1. PICK c : c = [i \in 1 .. n |-> f]
      OBVIOUS
    <3>2. c \in Seq(Reports) /\ Len(c) = n /\ \A i \in 1 .. n : c[i] = f
      BY <1>2, <3>1
    <3>3. PICK w : w = stream[s] \o c
      OBVIOUS
    <3>4. /\ w \in Seq(Reports) /\ Len(w) = Len(stream[s]) + n
          /\ \A i \in 1 .. Len(w) : w[i] = IF i <= Len(stream[s]) THEN stream[s][i]
                                           ELSE c[i - Len(stream[s])]
      <4>1. PICK p \in Seq(Reports) : p = stream[s]
        BY <1>1
      <4>2. Joins(p, c, w)
        BY <3>3, <4>1 DEF Joins
      <4>3. /\ w \in Seq(Reports) /\ Len(w) = Len(p) + Len(c)
            /\ \A i \in 1 .. Len(w) : w[i] = IF i <= Len(p) THEN p[i] ELSE c[i - Len(p)]
        BY <3>2, <4>2, Concatenated
      <4>4. w \in Seq(Reports) /\ Len(w) = Len(stream[s]) + n
        BY <3>2, <4>1, <4>3
      <4>5. \A i \in 1 .. Len(w) : w[i] = IF i <= Len(stream[s]) THEN stream[s][i]
                                          ELSE c[i - Len(stream[s])]
        BY <4>1, <4>3
      <4> QED BY <4>4, <4>5
    <3>5. stream' = [stream EXCEPT ![s] = w]
      BY <2>2, <3>1, <3>3 DEF OrderStep, Sent
    <3>6. \A i \in DOMAIN w : w[i] \in Way(s) \cup {f}
      <4>1. DOMAIN w = 1 .. Len(w) /\ DOMAIN stream[s] = 1 .. Len(stream[s])
            /\ Len(stream[s]) \in Nat
        BY <1>1, <3>4, LenProperties
      <4>2. TAKE i \in DOMAIN w
      <4>3. CASE i <= Len(stream[s])
        BY <3>4, <4>1, <4>2, <4>3 DEF Way
      <4>4. CASE ~ i <= Len(stream[s])
        <5>1. i - Len(stream[s]) \in 1 .. n
          BY <1>2, <3>4, <4>1, <4>2, <4>4
        <5> QED BY <3>2, <3>4, <4>1, <4>2, <4>4, <5>1
      <4> QED BY <4>3, <4>4
    <3>7. TAKE t \in Sessions
    <3>8. CASE t = s
      <4>1. stream'[t] = w
        BY <1>1, <3>5, <3>8
      <4> QED BY <3>6, <3>8, <4>1 DEF Way
    <3>9. CASE t # s
      <4>1. stream'[t] = stream[t]
        BY <1>1, <3>5, <3>9
      <4> QED BY <4>1 DEF Way
    <3> QED BY <3>8, <3>9
  <2> QED BY <2>1, <2>2
<1>4. Coming' \subseteq Coming \cup {f}
  BY <1>3 DEF Coming
<1> QED BY <1>2, <1>4 DEF NewOrder

LEMMA DiesForgets ==
  ASSUME Dies, UNCHANGED orders
  PROVE  Forgotten
<1>1. stream' = [s \in Sessions |-> <<>>] /\ published' = {}
  BY DEF Dies
<1>2. \A s \in Sessions : Way(s)' = {}
  BY <1>1 DEF Way
<1> QED BY <1>1, <1>2 DEF Forgotten, Coming

LEMMA HistorySteps ==
  ASSUME Types, [Next]_vars
  PROVE  \/ Quiet
         \/ \E f : NewOrder(f) \/ Told(f) \/ (Record(f) /\ Forgotten)
         \/ UNCHANGED executions /\ Forgotten
<1>1. ASSUME NEW s \in Sessions,
             OrderOpens(s) \/ OrderCloses(s) \/ OrderTurns(s) \/ OrderAdds(s)
      PROVE  \E f : NewOrder(f)
  <2>1. \E f, n : OrderStep(s, f, n)
    BY <1>1, OpensResult, ClosesResult, TurnsResult, AddsResult
  <2> QED BY <2>1, WayAdds
<1>2. ASSUME NEW s \in Sessions, NEW f, NEW v, Delivers(s, f, v)
      PROVE  Told(f)
  BY <1>2, WayKept DEF Delivers, Told, Record, exchVars
<1>3. ASSUME NEW s \in Sessions, NEW f, NEW r, NEW v, Commits(s, f, r, v)
      PROVE  Record(f) /\ Forgotten
  <2>1. UNCHANGED orders /\ Forgotten
    BY <1>3, DiesForgets DEF Commits, exchVars
  <2>2. f \in Coming
    <3>1. f = stream[s][1] /\ 1 \in DOMAIN stream[s]
      BY <1>3, LenProperties, HeadTailProperties DEF Commits, Types, ExchTypes
    <3> QED BY <3>1 DEF Way, Coming
  <2> QED BY <1>3, <2>1, <2>2 DEF Commits, Record
<1>4. ASSUME NEW s \in Sessions,
             \/ DedupeExpires(s) \/ PositionUpdate(s) \/ Start(s) \/ Heartbeat(s)
             \/ TradeRoutes(s)
      PROVE  UNCHANGED <<stream, executions, published, orders>>
  BY <1>4 DEF DedupeExpires, PositionUpdate, Start, Heartbeat, TradeRoutes, Archive, Reset,
              monitorVars, exchVars
<1>5. Boot \/ UNCHANGED vars => UNCHANGED <<stream, executions, published, orders>>
  BY DEF Boot, vars, monitorVars, exchVars
<1>6. UNCHANGED <<stream, executions, published, orders>> => Quiet
  BY DEF Quiet, Coming, Way
<1>7. Crash => UNCHANGED executions /\ Forgotten
  BY DiesForgets DEF Crash, exchVars
<1>8. ASSUME NEW s \in Sessions,
             \/ OrderOpens(s) \/ OrderCloses(s) \/ OrderTurns(s) \/ OrderAdds(s)
             \/ \E f, v : Delivers(s, f, v)
             \/ DedupeExpires(s) \/ PositionUpdate(s) \/ Start(s) \/ Heartbeat(s)
             \/ \E f, r, v : Commits(s, f, r, v)
             \/ TradeRoutes(s)
      PROVE  Quiet \/ \E f : NewOrder(f) \/ Told(f) \/ (Record(f) /\ Forgotten)
  BY <1>1, <1>2, <1>3, <1>4, <1>6, <1>8
<1> QED BY <1>5, <1>6, <1>7, <1>8, StepKinds

(* A recorded report has a new row unless it looks like a published one.   *)
LEMMA RecordResult ==
  ASSUME Types, NEW f, Record(f)
  PROVE  \/ IsRepeat(f) /\ UNCHANGED executions
         \/ /\ ~ IsRepeat(f) /\ f.order \in 1 .. MaxOrders
            /\ \E b \in Buckets :
                 executions' = [executions EXCEPT ![b] = Append(executions[b], f.order)]
<1>1. PICK s \in Sessions : Recorded(s, f)
  BY DEF Record
<1>2. Mode(TargetJournal(s)) \in Buckets
  BY ModeOfSession DEF TargetJournal
<1>3. f.order \in 1 .. MaxOrders
  BY ReportType DEF Record
<1> QED BY <1>1, <1>2, <1>3 DEF Recorded

(* A row more: its order is new to the bucket, and the others keep theirs.  *)
LEMMA RowsGrow ==
  ASSUME Types, NEW b \in Buckets, NEW x \in 1 .. MaxOrders,
         executions' = [executions EXCEPT ![b] = Append(executions[b], x)]
  PROVE  /\ OrdersOf(b)' = OrdersOf(b) \cup {x}
         /\ Len(executions'[b]) = Len(executions[b]) + 1
         /\ \A c \in Buckets : c # b => OrdersOf(c)' = OrdersOf(c) /\ executions'[c] = executions[c]
<1>1. executions \in [Buckets -> Seq(1 .. MaxOrders)]
  BY DEF Types, MonitorTypes
<1>2. PICK q : q = executions[b]
  OBVIOUS
<1>3. q \in Seq(1 .. MaxOrders) /\ DOMAIN q = 1 .. Len(q) /\ Len(q) \in Nat
  BY <1>1, <1>2, LenProperties
<1>4. PICK p : p = Append(q, x)
  OBVIOUS
<1>5. /\ p \in Seq(1 .. MaxOrders) /\ Len(p) = Len(q) + 1 /\ DOMAIN p = 1 .. Len(q) + 1
      /\ \A i \in 1 .. Len(q) : p[i] = q[i]
      /\ p[Len(q) + 1] = x
  <2>1. /\ p \in Seq(1 .. MaxOrders) /\ Len(p) = Len(q) + 1
        /\ \A i \in 1 .. Len(q) : p[i] = q[i]
        /\ p[Len(q) + 1] = x
    BY <1>3, <1>4, AppendProperties
  <2>2. DOMAIN p = 1 .. Len(p)
    BY <2>1, LenProperties
  <2>3. DOMAIN p = 1 .. Len(q) + 1
    BY <2>1, <2>2
  <2> QED BY <2>1, <2>3
<1>6. executions'[b] = p /\ \A c \in Buckets : c # b => executions'[c] = executions[c]
  BY <1>1, <1>2, <1>4
<1>7. OrdersOf(b)' = OrdersOf(b) \cup {x}
  <2>1. OrdersOf(b) = {q[i] : i \in 1 .. Len(q)}
    BY <1>2, <1>3 DEF OrdersOf
  <2>2. OrdersOf(b)' = {p[i] : i \in 1 .. Len(q) + 1}
    BY <1>5, <1>6 DEF OrdersOf
  <2>3. ASSUME NEW e PROVE e \in OrdersOf(b)' <=> e \in OrdersOf(b) \cup {x}
    <3>1. ASSUME NEW i \in 1 .. Len(q) + 1 PROVE p[i] \in OrdersOf(b) \cup {x}
      <4>1. i = Len(q) + 1 \/ i \in 1 .. Len(q)
        BY <1>3
      <4> QED BY <1>5, <2>1, <4>1
    <3>2. ASSUME NEW i \in 1 .. Len(q) PROVE q[i] \in OrdersOf(b)'
      <4>1. i \in 1 .. Len(q) + 1
        BY <1>3
      <4> QED BY <1>5, <2>2, <4>1
    <3>3. x \in OrdersOf(b)'
      <4>1. Len(q) + 1 \in 1 .. Len(q) + 1
        BY <1>3
      <4> QED BY <1>5, <2>2, <4>1
    <3> QED BY <2>1, <2>2, <3>1, <3>2, <3>3
  <2> QED BY <2>3
<1>8. \A c \in Buckets : c # b => OrdersOf(c)' = OrdersOf(c)
  BY <1>6 DEF OrdersOf
<1> QED BY <1>2, <1>5, <1>6, <1>7, <1>8

(* The rows after a recorded report.                                       *)
LEMMA RecordStep ==
  ASSUME Types, HistoryInv, NEW f, Record(f)
  PROVE  /\ \A b \in Buckets : /\ IsFiniteSet(OrdersOf(b)')
                               /\ Cardinality(OrdersOf(b)') = Len(executions'[b])
                               /\ OrdersOf(b) \subseteq OrdersOf(b)'
                               /\ OrdersOf(b)' \subseteq OrdersOf(b) \cup {f.order}
         /\ IsRepeat(f) \/ \E b \in Buckets : f.order \in OrdersOf(b)'
<1>1. CASE IsRepeat(f) /\ UNCHANGED executions
  <2>1. \A b \in Buckets : OrdersOf(b)' = OrdersOf(b)
    BY <1>1 DEF OrdersOf
  <2> QED BY <1>1, <2>1 DEF HistoryInv
<1>2. CASE ~ IsRepeat(f) /\ f.order \in 1 .. MaxOrders /\ \E b \in Buckets :
             executions' = [executions EXCEPT ![b] = Append(executions[b], f.order)]
  <2>1. PICK b \in Buckets :
          executions' = [executions EXCEPT ![b] = Append(executions[b], f.order)]
    BY <1>2
  <2>2. /\ OrdersOf(b)' = OrdersOf(b) \cup {f.order}
        /\ Len(executions'[b]) = Len(executions[b]) + 1
        /\ \A c \in Buckets : c # b => OrdersOf(c)' = OrdersOf(c) /\ executions'[c] = executions[c]
    BY <1>2, <2>1, RowsGrow
  <2>3. f.order \notin OrdersOf(b)
    <3>1. f \notin published
      BY <1>2 DEF IsRepeat
    <3> QED BY <3>1 DEF HistoryInv, Record
  <2>4. IsFiniteSet(OrdersOf(b)) /\ Cardinality(OrdersOf(b)) = Len(executions[b])
    BY DEF HistoryInv
  <2>5. /\ IsFiniteSet(OrdersOf(b) \cup {f.order})
        /\ Cardinality(OrdersOf(b) \cup {f.order}) = Len(executions[b]) + 1
    BY <2>3, <2>4, FS_AddElement
  <2> QED BY <2>2, <2>5 DEF HistoryInv
<1> QED BY <1>1, <1>2, RecordResult

LEMMA HistoryStep ==
  ASSUME Types, HistoryInv, [Next]_vars
  PROVE  HistoryInv'
<1>0. /\ orders \in Nat
      /\ \A b \in Buckets : \A x \in OrdersOf(b) : x \in Nat
      /\ \A f \in Coming : f.order \in Nat
  <2>1. \A b \in Buckets : executions[b] \in Seq(1 .. MaxOrders)
    BY DEF Types, MonitorTypes
  <2>2. \A b \in Buckets : \A x \in OrdersOf(b) : x \in 1 .. MaxOrders
    <3>1. TAKE b \in Buckets
    <3>2. PICK q \in Seq(1 .. MaxOrders) : q = executions[b]
      BY <2>1
    <3>3. \A i \in DOMAIN q : q[i] \in 1 .. MaxOrders
      BY LenProperties
    <3> QED BY <3>2, <3>3 DEF OrdersOf
  <2>3. \A s \in Sessions : \A f \in Way(s) : f \in Reports
    BY LenProperties DEF Types, ExchTypes, Way
  <2> QED BY <2>2, <2>3, ReportType, Bounds DEF Types, ExchTypes, Coming
<1>1. CASE Quiet
  <2>1. \A b \in Buckets : OrdersOf(b)' = OrdersOf(b) /\ executions'[b] = executions[b]
    BY <1>1 DEF Quiet, OrdersOf
  <2> QED BY <1>1, <2>1 DEF Quiet, HistoryInv
<1>2. ASSUME NEW f, NewOrder(f)
      PROVE  HistoryInv'
  <2>1. \A b \in Buckets : OrdersOf(b)' = OrdersOf(b) /\ executions'[b] = executions[b]
    BY <1>2 DEF NewOrder, OrdersOf
  <2>2. \A b \in Buckets : \A x \in OrdersOf(b)' : x <= orders' /\ x # f.order
    BY <1>0, <1>2, <2>1 DEF NewOrder, HistoryInv
  <2>3. \A g \in Coming' : g = f \/ (g \in Coming /\ g.order # f.order)
    BY <1>0, <1>2 DEF NewOrder, HistoryInv
  <2>4. \A g \in Coming' : g.order <= orders'
    BY <1>0, <1>2, <2>3 DEF NewOrder, HistoryInv
  <2>5. \A g, h \in Coming' : g.order = h.order => g = h
    BY <2>3 DEF HistoryInv
  <2>6. \A b \in Buckets : \A g \in Coming' : g.order \in OrdersOf(b)' => g \in published'
    BY <1>2, <2>1, <2>2, <2>3 DEF NewOrder, HistoryInv
  <2> QED BY <1>2, <2>1, <2>2, <2>4, <2>5, <2>6 DEF NewOrder, HistoryInv
<1>3. ASSUME NEW f, Record(f), Told(f) \/ Forgotten
      PROVE  HistoryInv'
  <2>1. /\ \A b \in Buckets : /\ IsFiniteSet(OrdersOf(b)')
                              /\ Cardinality(OrdersOf(b)') = Len(executions'[b])
                              /\ OrdersOf(b) \subseteq OrdersOf(b)'
                              /\ OrdersOf(b)' \subseteq OrdersOf(b) \cup {f.order}
        /\ IsRepeat(f) \/ \E b \in Buckets : f.order \in OrdersOf(b)'
    BY <1>3, RecordStep
  <2>2. f \in Coming /\ orders' = orders /\ Coming' \subseteq Coming
    BY <1>3 DEF Record, Told, Forgotten
  <2>3. \A b \in Buckets : \A x \in OrdersOf(b)' : x <= orders'
    BY <2>1, <2>2 DEF HistoryInv
  <2>4. \A b \in Buckets : \A g \in Coming' : g.order \in OrdersOf(b)' => g \in published'
    <3>1. CASE Forgotten
      BY <3>1 DEF Forgotten
    <3>2. CASE Told(f)
      BY <2>1, <2>2, <3>2 DEF Told, HistoryInv
    <3> QED BY <1>3, <3>1, <3>2
  <2>5. \A g \in published' : \E h \in published', b \in Buckets :
          h.order \in OrdersOf(b)' /\ Trace(h) = Trace(g)
    <3>1. CASE Forgotten
      BY <3>1 DEF Forgotten
    <3>2. CASE Told(f)
      <4>1. published' = published \cup {f}
        BY <3>2 DEF Told
      <4>2. \A g \in published : \E h \in published, b \in Buckets :
              h.order \in OrdersOf(b)' /\ Trace(h) = Trace(g)
        BY <2>1 DEF HistoryInv
      <4>3. IsRepeat(f) => \E h \in published, b \in Buckets :
              h.order \in OrdersOf(b)' /\ Trace(h) = Trace(f)
        BY <4>2 DEF IsRepeat
      <4> QED BY <2>1, <4>1, <4>2, <4>3
    <3> QED BY <1>3, <3>1, <3>2
  <2> QED BY <2>1, <2>2, <2>3, <2>4, <2>5 DEF HistoryInv
<1>4. CASE UNCHANGED executions /\ Forgotten
  <2>1. \A b \in Buckets : OrdersOf(b)' = OrdersOf(b) /\ executions'[b] = executions[b]
    BY <1>4 DEF OrdersOf
  <2> QED BY <1>4, <2>1 DEF Forgotten, HistoryInv
<1> QED BY <1>1, <1>2, <1>3, <1>4, HistorySteps DEF Told

(* An order that the user stream reports, again or after others, has one row in *)
(* a bucket's execution history, and every fill that the recorder let pass as a *)
(* repetition looks like one with a row.                                    *)
THEOREM EveryFillHasItsRow == Spec => []ExecutionsAreRecorded
<1>1. Init => HistoryInv
  <2> SUFFICES ASSUME Init PROVE HistoryInv
    OBVIOUS
  <2>1. \A b \in Buckets : executions[b] = <<>> /\ OrdersOf(b) = {}
    BY DEF Init, OrdersOf
  <2>2. Coming = {} /\ published = {}
    BY DEF Init, Coming, Way
  <2>3. IsFiniteSet({}) /\ Cardinality({}) = 0
    BY FS_EmptySet
  <2>4. Len(<<>>) = 0
    OBVIOUS
  <2> QED BY <2>1, <2>2, <2>3, <2>4 DEF HistoryInv
<1>2. Types /\ HistoryInv /\ [Next]_vars => HistoryInv'
  BY HistoryStep
<1>3. HistoryInv => ExecutionsAreRecorded
  BY DEF HistoryInv, OrdersOf, ExecutionsAreRecorded
<1> QED BY <1>1, <1>2, <1>3, TypesHold, PTL DEF Spec

-----------------------------------------------------------------------------
(***************************************************************************)
(* What a stream of reports says.  A point is a position and the quantity   *)
(* closed so far; each report moves a point, but for the copy of one that   *)
(* came before.  Where a session's journal stands, the reports still on     *)
(* their way lead to where the exchange stands.                             *)
(***************************************************************************)
Points == [pos : Positions, c : Nat]

Opens(f, x, y) ==
  /\ x.pos = Flat /\ ~ f.reduceOnly
  /\ y.pos = [side |-> f.side, size |-> f.size] /\ y.c = x.c
Shuts(g, f, x, y) ==
  /\ x.pos # Flat /\ f.side = Opposite(x.pos.side) /\ f.size <= x.pos.size
  /\ y.c = x.c + f.size
  /\ y.pos = IF f.size = x.pos.size THEN Flat
             ELSE [x.pos EXCEPT !.size = x.pos.size - f.size]
  /\ g = "crash" => f.reduceOnly /\ f.size = x.pos.size
Turns(g, f, x, y) ==
  /\ x.pos # Flat /\ f.side = Opposite(x.pos.side) /\ f.size > x.pos.size
  /\ ~ f.reduceOnly /\ ~ OppositeLegDust(x.pos.size, f.size) /\ g = "hand"
  /\ y.pos = [side |-> f.side, size |-> f.size - x.pos.size] /\ y.c = x.c + x.pos.size
Moves(g, f, x, y) == Opens(f, x, y) \/ Shuts(g, f, x, y) \/ Turns(g, f, x, y)

(* The i-th report of q repeats what the journal knows: its last close L, or *)
(* the report before.                                                       *)
Spent(q, L, i) == IF i = 1 THEN q[1] \in L ELSE q[i - 1].order = q[i].order

IsRun(g, q, L, r, e) ==
  /\ r \in [1 .. Len(q) + 1 -> Points] /\ r[Len(q) + 1] = e
  /\ \A i \in 1 .. Len(q) : IF Spent(q, L, i) THEN r[i + 1] = r[i]
                            ELSE Moves(g, q[i], r[i], r[i + 1])
  /\ \A i \in 1 .. Len(q) + 1 : r[i].c <= e.c

Reaches(g, q, L, x, e) == \E r : IsRun(g, q, L, r, e) /\ r[1] = x

LEMMA ReachesNow ==
  ASSUME NEW g, NEW L, NEW e \in Points
  PROVE  Reaches(g, <<>>, L, e, e)
<1>1. PICK r : r = [i \in 1 .. 1 |-> e]
  OBVIOUS
<1>2. Len(<<>>) = 0 /\ e.c \in Nat
  BY DEF Points
<1>3. IsRun(g, <<>>, L, r, e) /\ r[1] = e
  BY <1>1, <1>2 DEF IsRun
<1> QED BY <1>3 DEF Reaches

LEMMA ReachedNow ==
  ASSUME NEW g, NEW L, NEW x, NEW e, Reaches(g, <<>>, L, x, e)
  PROVE  x = e
<1>1. PICK r : IsRun(g, <<>>, L, r, e) /\ r[1] = x
  BY DEF Reaches
<1>2. Len(<<>>) = 0
  OBVIOUS
<1> QED BY <1>1, <1>2 DEF IsRun

LEMMA ReachTypes ==
  ASSUME NEW g, NEW q \in Seq(Reports), NEW L, NEW x, NEW e, Reaches(g, q, L, x, e)
  PROVE  x \in Points /\ e \in Points /\ x.c \in Nat /\ e.c \in Nat /\ x.c <= e.c
         /\ x.pos \in Positions /\ e.pos \in Positions
<1>1. PICK r : IsRun(g, q, L, r, e) /\ r[1] = x
  BY DEF Reaches
<1>2. Len(q) \in Nat
  BY LenProperties
<1>3. 1 \in 1 .. Len(q) + 1 /\ Len(q) + 1 \in 1 .. Len(q) + 1
  BY <1>2
<1> QED BY <1>1, <1>3 DEF IsRun, Points

(* The first report moves the point, unless it is a copy.                   *)
LEMMA ReachStep ==
  ASSUME NEW g, NEW q \in Seq(Reports), q # <<>>, NEW L, NEW x, NEW e, Reaches(g, q, L, x, e),
         NEW M, Len(q) > 1 => (q[2] \in M <=> q[1].order = q[2].order)
  PROVE  \E y \in Points : /\ q[1] \in L => y = x
                           /\ q[1] \notin L => Moves(g, q[1], x, y)
                           /\ Reaches(g, Tail(q), M, y, e)
<1>1. PICK r : IsRun(g, q, L, r, e) /\ r[1] = x
  BY DEF Reaches
<1>2. PICK t : t = Tail(q)
  OBVIOUS
<1>3. PICK n : n = Len(t)
  OBVIOUS
<1>4. /\ t \in Seq(Reports) /\ n \in Nat /\ Len(q) = n + 1
      /\ \A i \in 1 .. n : t[i] = q[i + 1]
  <2>1. /\ t \in Seq(Reports) /\ Len(t) = Len(q) - 1
        /\ \A i \in 1 .. Len(t) : t[i] = q[i + 1]
    BY <1>2, HeadTailProperties
  <2>2. Len(t) \in Nat /\ Len(q) \in Nat
    BY <2>1, LenProperties
  <2> QED BY <1>3, <2>1, <2>2
<1>5. /\ r \in [1 .. n + 2 -> Points] /\ r[n + 2] = e
      /\ \A i \in 1 .. n + 1 : IF Spent(q, L, i) THEN r[i + 1] = r[i]
                               ELSE Moves(g, q[i], r[i], r[i + 1])
      /\ \A i \in 1 .. n + 2 : r[i].c <= e.c
  <2>1. Len(q) + 1 = n + 2
    BY <1>4
  <2> QED BY <1>1, <1>4, <2>1 DEF IsRun
<1>6. PICK p : p = [i \in 1 .. n + 1 |-> r[i + 1]]
  OBVIOUS
<1>7. p \in [1 .. n + 1 -> Points] /\ p[n + 1] = e /\ \A i \in 1 .. n + 1 : p[i].c <= e.c
  <2>1. \A i \in 1 .. n + 1 : i + 1 \in 1 .. n + 2
    BY <1>4
  <2> QED BY <1>4, <1>5, <1>6, <2>1
<1>8. ASSUME NEW i \in 1 .. n
      PROVE  IF Spent(t, M, i) THEN p[i + 1] = p[i] ELSE Moves(g, t[i], p[i], p[i + 1])
  <2>1. i + 1 \in 1 .. n + 1 /\ i \in 1 .. n + 1 /\ i + 1 # 1 /\ (i + 1) - 1 = i
    BY <1>4
  <2>2. p[i] = r[i + 1] /\ p[i + 1] = r[i + 1 + 1] /\ t[i] = q[i + 1]
    BY <1>4, <1>6, <2>1
  <2>3. Spent(q, L, i + 1) <=> q[i].order = q[i + 1].order
    BY <2>1 DEF Spent
  <2>4. Spent(t, M, i) <=> q[i].order = q[i + 1].order
    <3>1. CASE i = 1
      <4>1. Len(q) > 1 /\ t[1] = q[2]
        BY <1>4, <2>2, <3>1
      <4> QED BY <3>1, <4>1 DEF Spent
    <3>2. CASE i # 1
      <4>1. i - 1 \in 1 .. n /\ (i - 1) + 1 = i
        BY <1>4, <3>2
      <4>2. t[i - 1] = q[i]
        BY <1>4, <4>1
      <4> QED BY <2>2, <3>2, <4>2 DEF Spent
    <3> QED BY <3>1, <3>2
  <2> QED BY <1>5, <2>1, <2>2, <2>3, <2>4
<1>9. IsRun(g, t, M, p, e)
  BY <1>3, <1>7, <1>8 DEF IsRun
<1>10. /\ q[1] \in L => r[2] = x
       /\ q[1] \notin L => Moves(g, q[1], x, r[2])
       /\ r[2] \in Points /\ p[1] = r[2]
  <2>1. 1 \in 1 .. n + 1 /\ 2 \in 1 .. n + 2 /\ 1 + 1 = 2
    BY <1>4
  <2>2. Spent(q, L, 1) <=> q[1] \in L
    BY DEF Spent
  <2> QED BY <1>1, <1>5, <1>6, <2>1, <2>2
<1> QED BY <1>2, <1>9, <1>10 DEF Reaches

(* A journal that forgets a close no report repeats stands where it stood.  *)
LEMMA ReachForgets ==
  ASSUME NEW g, NEW q \in Seq(Reports), NEW L, NEW M, NEW x, NEW e, Reaches(g, q, L, x, e),
         q # <<>> => (q[1] \in L <=> q[1] \in M)
  PROVE  Reaches(g, q, M, x, e)
<1>1. PICK r : IsRun(g, q, L, r, e) /\ r[1] = x
  BY DEF Reaches
<1>2. ASSUME NEW i \in 1 .. Len(q)
      PROVE  Spent(q, M, i) <=> Spent(q, L, i)
  <2>1. q # <<>>
    BY <1>2
  <2> QED BY <2>1 DEF Spent
<1>3. IsRun(g, q, M, r, e)
  BY <1>1, <1>2 DEF IsRun
<1> QED BY <1>1, <1>3 DEF Reaches

(* One report more.                                                         *)
Appended(p, q, f) == p = Append(q, f)

LEMMA ReachAppend ==
  ASSUME NEW g, NEW q \in Seq(Reports), NEW L, NEW x, NEW e, Reaches(g, q, L, x, e),
         NEW f \in Reports, NEW y \in Points, e.c <= y.c,
         NEW p, Appended(p, q, f),
         IF Spent(p, L, Len(p)) THEN y = e ELSE Moves(g, f, e, y)
  PROVE  Reaches(g, p, L, x, y)
<1>1. PICK r : IsRun(g, q, L, r, e) /\ r[1] = x
  BY DEF Reaches
<1>2. PICK n : n = Len(q)
  OBVIOUS
<1>3. /\ n \in Nat /\ p \in Seq(Reports) /\ Len(p) = n + 1 /\ p[n + 1] = f
      /\ \A i \in 1 .. n : p[i] = q[i]
  BY <1>2, AppendProperties, LenProperties DEF Appended
<1>4. /\ r \in [1 .. n + 1 -> Points] /\ r[n + 1] = e
      /\ \A i \in 1 .. n : IF Spent(q, L, i) THEN r[i + 1] = r[i]
                           ELSE Moves(g, q[i], r[i], r[i + 1])
      /\ \A i \in 1 .. n + 1 : r[i].c <= e.c
  BY <1>1, <1>2 DEF IsRun
<1>5. PICK w : w = [i \in 1 .. n + 2 |-> IF i = n + 2 THEN y ELSE r[i]]
  OBVIOUS
<1>6. /\ w \in [1 .. n + 2 -> Points] /\ w[n + 2] = y
      /\ \A i \in 1 .. n + 1 : w[i] = r[i]
  <2>1. \A i \in 1 .. n + 2 : i # n + 2 => i \in 1 .. n + 1
    BY <1>3
  <2>2. \A i \in 1 .. n + 1 : i # n + 2 /\ i \in 1 .. n + 2
    BY <1>3
  <2> QED BY <1>3, <1>4, <1>5, <2>1, <2>2
<1>7. ASSUME NEW i \in 1 .. n + 1
      PROVE  IF Spent(p, L, i) THEN w[i + 1] = w[i] ELSE Moves(g, p[i], w[i], w[i + 1])
  <2>1. CASE i = n + 1
    <3>1. w[i] = e /\ w[i + 1] = y /\ p[i] = f
      BY <1>3, <1>4, <1>6, <2>1
    <3> QED BY <1>3, <2>1, <3>1
  <2>2. CASE i # n + 1
    <3>1. i \in 1 .. n /\ i + 1 \in 1 .. n + 1
      BY <1>3, <2>2
    <3>2. w[i] = r[i] /\ w[i + 1] = r[i + 1] /\ p[i] = q[i]
      BY <1>3, <1>6, <3>1
    <3>3. Spent(p, L, i) <=> Spent(q, L, i)
      <4>1. CASE i = 1
        BY <3>2, <4>1 DEF Spent
      <4>2. CASE i # 1
        <5>1. i - 1 \in 1 .. n
          BY <1>3, <3>1, <4>2
        <5>2. p[i - 1] = q[i - 1]
          BY <1>3, <5>1
        <5> QED BY <3>2, <4>2, <5>2 DEF Spent
      <4> QED BY <4>1, <4>2
    <3> QED BY <1>4, <3>1, <3>2, <3>3
  <2> QED BY <2>1, <2>2
<1>8. \A i \in 1 .. n + 2 : w[i].c <= y.c
  <2>1. e.c \in Nat /\ y.c \in Nat /\ \A i \in 1 .. n + 1 : r[i].c \in Nat
    <3>1. n + 1 \in 1 .. n + 1
      BY <1>3
    <3> QED BY <1>4, <3>1 DEF Points
  <2>2. \A i \in 1 .. n + 1 : w[i].c <= y.c
    BY <1>4, <1>6, <2>1
  <2>3. \A i \in 1 .. n + 2 : i = n + 2 \/ i \in 1 .. n + 1
    BY <1>3
  <2> QED BY <1>6, <2>1, <2>2, <2>3
<1>9. w[1] = x
  <2>1. 1 \in 1 .. n + 1
    BY <1>3
  <2> QED BY <1>1, <1>6, <2>1
<1>10. IsRun(g, p, L, w, y)
  <2>1. Len(p) = n + 1 /\ Len(p) + 1 = n + 2
    BY <1>3
  <2> QED BY <1>6, <1>7, <1>8, <2>1 DEF IsRun
<1> QED BY <1>9, <1>10 DEF Reaches

-----------------------------------------------------------------------------
(***************************************************************************)
(* The order of the reports: two reports of one order are neighbours and    *)
(* alike, and so are the journal's last close and its copy.  In the regime  *)
(* of crashes there are no copies, and only the first report may open.      *)
(***************************************************************************)
Ordered(g, q, L, m) ==
  /\ \A i \in 1 .. Len(q) : q[i].order <= m
  /\ \A i, j \in 1 .. Len(q) : i < j /\ q[i].order = q[j].order
       => j = i + 1 /\ q[i] = q[j] /\ g = "hand"
  /\ \A c \in L : /\ c.order <= m /\ c.reduceOnly
                  /\ \A i \in 1 .. Len(q) : c.order = q[i].order
                       => i = 1 /\ q[i] = c /\ g = "hand"
  /\ g = "crash" => \A i \in 1 .. Len(q) : i > 1 => q[i].reduceOnly

LEMMA OrderedNothing ==
  ASSUME NEW g, NEW L, NEW m, \A c \in L : c.order <= m /\ c.reduceOnly
  PROVE  Ordered(g, <<>>, L, m)
<1>1. Len(<<>>) = 0
  OBVIOUS
<1> QED BY <1>1 DEF Ordered

NewLast(g, p, q, L, m, f) ==
  /\ Ordered(g, p, L, m + 1) /\ p[Len(p)] = f /\ ~ Spent(p, L, Len(p))
  /\ \A i \in 1 .. Len(q) : p[i].order # f.order
  /\ \A c \in L : c.order # f.order
  /\ p \in Seq(Reports) /\ Len(p) = Len(q) + 1

LEMMA OrderedNew ==
  ASSUME NEW g, NEW q \in Seq(Reports), NEW L \in SUBSET Reports, NEW m \in Nat,
         Ordered(g, q, L, m), NEW f \in Reports, f.order = m + 1,
         g = "crash" => f.reduceOnly \/ q = <<>>, NEW p, Appended(p, q, f)
  PROVE  NewLast(g, p, q, L, m, f)
<1>1. PICK n : n = Len(q)
  OBVIOUS
<1>2. /\ n \in Nat /\ p \in Seq(Reports) /\ Len(p) = n + 1 /\ p[n + 1] = f
      /\ \A i \in 1 .. n : p[i] = q[i]
  BY <1>1, AppendProperties, LenProperties DEF Appended
<1>3. \A i \in 1 .. n + 1 : i = n + 1 \/ i \in 1 .. n
  BY <1>2
<1>4. \A i \in 1 .. n : q[i].order \in Nat /\ q[i].order <= m /\ p[i].order # f.order
  <2>1. TAKE i \in 1 .. n
  <2>2. q[i] \in Reports
    BY <1>1, LenProperties
  <2> QED BY <1>1, <1>2, <2>2, ReportType, Bounds DEF Ordered
<1>5. \A c \in L : c.order \in Nat /\ c.order <= m /\ c.reduceOnly /\ c.order # f.order
  BY ReportType, Bounds DEF Ordered
<1>6. \A i \in 1 .. Len(p) : p[i].order <= m + 1
  BY <1>2, <1>3, <1>4
<1>7. \A i, j \in 1 .. Len(p) : i < j /\ p[i].order = p[j].order
        => j = i + 1 /\ p[i] = p[j] /\ g = "hand"
  <2>1. ASSUME NEW i \in 1 .. n + 1, NEW j \in 1 .. n + 1, i < j, p[i].order = p[j].order
        PROVE  j = i + 1 /\ p[i] = p[j] /\ g = "hand"
    <3>1. i \in 1 .. n
      BY <1>2, <2>1
    <3>2. j \in 1 .. n
      BY <1>2, <1>3, <1>4, <2>1, <3>1
    <3> QED BY <1>1, <1>2, <2>1, <3>1, <3>2 DEF Ordered
  <2> QED BY <1>2, <2>1
<1>8. \A c \in L : \A i \in 1 .. Len(p) : c.order = p[i].order => i = 1 /\ p[i] = c /\ g = "hand"
  <2>1. ASSUME NEW c \in L, NEW i \in 1 .. n + 1, c.order = p[i].order
        PROVE  i = 1 /\ p[i] = c /\ g = "hand"
    <3>1. i \in 1 .. n
      BY <1>2, <1>3, <1>5, <2>1
    <3> QED BY <1>1, <1>2, <2>1, <3>1 DEF Ordered
  <2> QED BY <1>2, <2>1
<1>9. g = "crash" => \A i \in 1 .. Len(p) : i > 1 => p[i].reduceOnly
  <2>1. ASSUME g = "crash", NEW i \in 1 .. n + 1, i > 1
        PROVE  p[i].reduceOnly
    <3>1. CASE i = n + 1
      <4>1. q # <<>>
        <5>1. n # 0
          BY <2>1, <3>1
        <5> QED BY <1>1, <5>1
      <4> QED BY <1>2, <2>1, <3>1, <4>1
    <3>2. CASE i \in 1 .. n
      BY <1>1, <1>2, <2>1, <3>2 DEF Ordered
    <3> QED BY <1>3, <3>1, <3>2
  <2> QED BY <1>2, <2>1
<1>10. Ordered(g, p, L, m + 1)
  <2>1. \A c \in L : c.order <= m + 1 /\ c.reduceOnly
    BY <1>5
  <2> QED BY <1>6, <1>7, <1>8, <1>9, <2>1 DEF Ordered
<1>11. ~ Spent(p, L, Len(p))
  <2>1. CASE n = 0
    <3>1. p[1] = f /\ Len(p) = 1
      BY <1>2, <2>1
    <3> QED BY <1>5, <3>1 DEF Spent
  <2>2. CASE n # 0
    <3>1. n \in 1 .. n /\ (n + 1) - 1 = n /\ n + 1 # 1
      BY <1>2, <2>2
    <3> QED BY <1>2, <1>4, <3>1 DEF Spent
  <2> QED BY <2>1, <2>2
<1> QED BY <1>1, <1>2, <1>4, <1>5, <1>10, <1>11 DEF NewLast

(* A copy of the last report.                                               *)
LEMMA OrderedAgain ==
  ASSUME NEW g, NEW q \in Seq(Reports), NEW L \in SUBSET Reports, NEW m,
         Ordered(g, q, L, m), NEW f \in Reports, q # <<>>, q[Len(q)] = f, g = "hand",
         \A i \in 1 .. Len(q) : i < Len(q) => q[i].order # f.order,
         \A c \in L : c.order # f.order, NEW p, Appended(p, q, f)
  PROVE  Ordered(g, p, L, m) /\ Spent(p, L, Len(p)) /\ p \in Seq(Reports)
<1>1. PICK n : n = Len(q)
  OBVIOUS
<1>2. /\ n \in Nat /\ p \in Seq(Reports) /\ Len(p) = n + 1 /\ p[n + 1] = f
      /\ \A i \in 1 .. n : p[i] = q[i]
      /\ n # 0
  <2>1. Len(q) # 0
    BY EmptySeq
  <2> QED BY <1>1, <2>1, AppendProperties, LenProperties DEF Appended
<1>3. \A i \in 1 .. n + 1 : i = n + 1 \/ i \in 1 .. n
  BY <1>2
<1>4. n \in 1 .. n /\ p[n] = f /\ \A i \in 1 .. n : i # n => p[i].order # f.order
  BY <1>1, <1>2
<1>5. \A i \in 1 .. Len(p) : p[i].order <= m
  <2>1. f.order <= m
    BY <1>1, <1>4 DEF Ordered
  <2> QED BY <1>1, <1>2, <1>3, <2>1 DEF Ordered
<1>6. \A i, j \in 1 .. Len(p) : i < j /\ p[i].order = p[j].order
        => j = i + 1 /\ p[i] = p[j] /\ g = "hand"
  <2>1. ASSUME NEW i \in 1 .. n + 1, NEW j \in 1 .. n + 1, i < j, p[i].order = p[j].order
        PROVE  j = i + 1 /\ p[i] = p[j] /\ g = "hand"
    <3>1. i \in 1 .. n
      BY <1>2, <2>1
    <3>2. CASE j \in 1 .. n
      BY <1>1, <1>2, <2>1, <3>1, <3>2 DEF Ordered
    <3>3. CASE j = n + 1
      BY <1>2, <1>4, <2>1, <3>1, <3>3
    <3> QED BY <1>3, <3>2, <3>3
  <2> QED BY <1>2, <2>1
<1>7. \A c \in L : \A i \in 1 .. Len(p) : c.order = p[i].order => i = 1 /\ p[i] = c /\ g = "hand"
  <2>1. ASSUME NEW c \in L, NEW i \in 1 .. n + 1, c.order = p[i].order
        PROVE  i = 1 /\ p[i] = c /\ g = "hand"
    <3>1. i \in 1 .. n
      BY <1>2, <1>3, <2>1
    <3> QED BY <1>1, <1>2, <2>1, <3>1 DEF Ordered
  <2> QED BY <1>2, <2>1
<1>8. Ordered(g, p, L, m)
  BY <1>5, <1>6, <1>7 DEF Ordered
<1>9. Spent(p, L, Len(p))
  <2>1. (n + 1) - 1 = n /\ n + 1 # 1
    BY <1>2
  <2> QED BY <1>2, <1>4, <2>1 DEF Spent
<1> QED BY <1>2, <1>8, <1>9

(* The first report is gone, and the last close is none or that report.     *)
LEMMA OrderedTail ==
  ASSUME NEW g, NEW q \in Seq(Reports), NEW L, NEW m, Ordered(g, q, L, m), q # <<>>,
         NEW M, \A c \in M : c \in L \/ (c = q[1] /\ c.reduceOnly)
  PROVE  Ordered(g, Tail(q), M, m) /\ Tail(q) \in Seq(Reports)
<1>1. PICK t : t = Tail(q)
  OBVIOUS
<1>2. PICK n : n = Len(t)
  OBVIOUS
<1>3. /\ t \in Seq(Reports) /\ n \in Nat /\ Len(q) = n + 1
      /\ \A i \in 1 .. n : t[i] = q[i + 1]
  <2>1. /\ t \in Seq(Reports) /\ Len(t) = Len(q) - 1
        /\ \A i \in 1 .. Len(t) : t[i] = q[i + 1]
    BY <1>1, HeadTailProperties
  <2>2. Len(t) \in Nat /\ Len(q) \in Nat
    BY <2>1, LenProperties
  <2> QED BY <1>2, <2>1, <2>2
<1>4. \A i \in 1 .. n : i + 1 \in 1 .. Len(q) /\ i + 1 > 1 /\ i + 1 # 1
  BY <1>3
<1>5. 1 \in 1 .. Len(q)
  BY <1>3
<1>6. \A i \in 1 .. n : t[i].order <= m
  BY <1>3, <1>4 DEF Ordered
<1>7. \A i, j \in 1 .. n : i < j /\ t[i].order = t[j].order
        => j = i + 1 /\ t[i] = t[j] /\ g = "hand"
  <2>1. ASSUME NEW i \in 1 .. n, NEW j \in 1 .. n, i < j, t[i].order = t[j].order
        PROVE  j = i + 1 /\ t[i] = t[j] /\ g = "hand"
    <3>1. i + 1 < j + 1 /\ i + 1 \in 1 .. Len(q) /\ j + 1 \in 1 .. Len(q)
          /\ q[i + 1].order = q[j + 1].order
      BY <1>3, <1>4, <2>1
    <3>2. j + 1 = i + 1 + 1 /\ q[i + 1] = q[j + 1] /\ g = "hand"
      BY <3>1 DEF Ordered
    <3> QED BY <1>3, <3>2
  <2> QED BY <2>1
<1>8. \A c \in M : /\ c.order <= m /\ c.reduceOnly
                   /\ \A i \in 1 .. n : c.order = t[i].order => i = 1 /\ t[i] = c /\ g = "hand"
  <2>1. ASSUME NEW c \in M
        PROVE  c.order <= m /\ c.reduceOnly
    BY <1>5 DEF Ordered
  <2>2. ASSUME NEW c \in M, NEW i \in 1 .. n, c.order = t[i].order
        PROVE  i = 1 /\ t[i] = c /\ g = "hand"
    <3>1. c.order = q[i + 1].order
      BY <1>3, <2>2
    <3>2. CASE c \in L
      BY <1>4, <3>1, <3>2 DEF Ordered
    <3>3. CASE c = q[1]
      <4>1. 1 < i + 1 /\ q[1].order = q[i + 1].order
        BY <1>4, <3>1, <3>3
      <4>2. i + 1 = 1 + 1 /\ q[1] = q[i + 1] /\ g = "hand"
        BY <1>4, <1>5, <4>1 DEF Ordered
      <4> QED BY <1>3, <3>3, <4>2
    <3> QED BY <3>2, <3>3
  <2> QED BY <2>1, <2>2
<1>9. g = "crash" => \A i \in 1 .. n : i > 1 => t[i].reduceOnly
  BY <1>3, <1>4 DEF Ordered
<1> QED BY <1>1, <1>2, <1>3, <1>6, <1>7, <1>8, <1>9 DEF Ordered

LEMMA OrderedForgets ==
  ASSUME NEW g, NEW q, NEW L, NEW m, Ordered(g, q, L, m), NEW M, M \subseteq L
  PROVE  Ordered(g, q, M, m)
BY DEF Ordered

(* The reports that a delivery leaves on their way: a copy of a report that *)
(* is not reduce-only goes with it.                                         *)
Left(q, f) ==
  IF ~ f.reduceOnly /\ Len(q) > 1 /\ q[2].order = f.order THEN Tail(Tail(q)) ELSE Tail(q)

LEMMA OrderedLeft ==
  ASSUME NEW g, NEW q \in Seq(Reports), NEW L, NEW m, Ordered(g, q, L, m), q # <<>>,
         NEW M, \A c \in M : c \in L \/ (c = q[1] /\ c.reduceOnly)
  PROVE  Ordered(g, Left(q, q[1]), M, m)
<1>1. Ordered(g, Tail(q), M, m) /\ Tail(q) \in Seq(Reports)
  BY OrderedTail
<1>2. ASSUME ~ q[1].reduceOnly, Len(q) > 1
      PROVE  Ordered(g, Tail(Tail(q)), M, m)
  <2>1. PICK t \in Seq(Reports) : t = Tail(q)
    BY <1>1
  <2>2. Len(t) = Len(q) - 1 /\ Len(q) \in Nat
    BY <2>1, HeadTailProperties, LenProperties
  <2>3. t # <<>>
    <3>1. Len(t) # 0
      BY <1>2, <2>2
    <3> QED BY <3>1
  <2> QED BY <1>1, <2>1, <2>3, OrderedTail
<1> QED BY <1>1, <1>2 DEF Left

(* What the journal learns from a report, the rest of them do not repeat.   *)
Learns(f, L, M) == M = IF f.reduceOnly /\ f \notin L THEN {f} ELSE L

LEMMA ReachLeft ==
  ASSUME NEW g, NEW q \in Seq(Reports), NEW L, NEW m, Ordered(g, q, L, m), q # <<>>,
         NEW x, NEW e, Reaches(g, q, L, x, e), NEW f, f = q[1],
         NEW M, Learns(f, L, M)
  PROVE  \E y \in Points : /\ f \in L => y = x
                           /\ f \notin L => Moves(g, f, x, y)
                           /\ Reaches(g, Left(q, f), M, y, e)
<1> USE DEF Learns
<1>1. Len(q) \in Nat /\ Len(q) # 0 /\ 1 \in 1 .. Len(q)
  <2>1. Len(q) \in Nat /\ Len(q) # 0
    BY LenProperties, EmptySeq
  <2> QED BY <2>1
<1>2. \A c \in L : c.reduceOnly /\ \A i \in 1 .. Len(q) : c.order = q[i].order => i = 1
  BY DEF Ordered
<1>3. \A i \in 1 .. Len(q) : i > 1 => q[i] \notin L
  BY <1>2
<1>4. CASE ~ (~ f.reduceOnly /\ Len(q) > 1 /\ q[2].order = f.order)
  <2>1. ASSUME Len(q) > 1
        PROVE  q[2] \in M <=> q[1].order = q[2].order
    <3>1. 2 \in 1 .. Len(q) /\ 1 < 2 /\ q[2] \notin L
      BY <1>1, <1>3, <2>1
    <3>2. CASE f.reduceOnly /\ f \notin L
      <4>1. q[1].order = q[2].order => q[1] = q[2]
        BY <1>1, <3>1 DEF Ordered
      <4> QED BY <3>2, <4>1
    <3>3. CASE f \in L
      <4>1. q[1].order # q[2].order
        BY <1>2, <3>1, <3>3
      <4> QED BY <3>1, <3>3, <4>1
    <3>4. CASE ~ f.reduceOnly
      BY <1>4, <2>1, <3>1, <3>4
    <3> QED BY <3>2, <3>3, <3>4
  <2>2. \E y \in Points : /\ q[1] \in L => y = x
                          /\ q[1] \notin L => Moves(g, q[1], x, y)
                          /\ Reaches(g, Tail(q), M, y, e)
    <3>1. Len(q) > 1 => (q[2] \in M <=> q[1].order = q[2].order)
      BY <2>1
    <3>2. PICK N : N = M
      OBVIOUS
    <3>3. Len(q) > 1 => (q[2] \in N <=> q[1].order = q[2].order)
      BY <3>1, <3>2
    <3>4. \E y \in Points : /\ q[1] \in L => y = x
                            /\ q[1] \notin L => Moves(g, q[1], x, y)
                            /\ Reaches(g, Tail(q), N, y, e)
      BY <3>3, ReachStep, Zenon
    <3> QED BY <3>2, <3>4
  <2>3. Left(q, f) = Tail(q)
    BY <1>4 DEF Left
  <2> QED BY <2>2, <2>3
<1>5. CASE ~ f.reduceOnly /\ Len(q) > 1 /\ q[2].order = f.order
  <2>1. M = L /\ f \notin L /\ Left(q, f) = Tail(Tail(q))
    BY <1>2, <1>5 DEF Left
  <2>2. PICK y \in Points : /\ q[1] \notin L => Moves(g, q[1], x, y)
                            /\ Reaches(g, Tail(q), {q[2]}, y, e)
    <3>1. Len(q) > 1 => (q[2] \in {q[2]} <=> q[1].order = q[2].order)
      BY <1>5
    <3> QED BY <3>1, ReachStep
  <2>3. PICK t : t = Tail(q)
    OBVIOUS
  <2>4. /\ t \in Seq(Reports) /\ Len(t) = Len(q) - 1
        /\ \A i \in 1 .. Len(t) : t[i] = q[i + 1]
    BY <2>3, HeadTailProperties
  <2>5. Len(t) # 0 /\ t[1] = q[2] /\ t # <<>>
    <3>1. Len(t) # 0 /\ 1 \in 1 .. Len(t) /\ 1 + 1 = 2
      BY <1>1, <1>5, <2>4
    <3> QED BY <2>4, <3>1
  <2>6. ASSUME Len(t) > 1
        PROVE  t[2] \in L <=> t[1].order = t[2].order
    <3>1. 2 \in 1 .. Len(t) /\ 3 \in 1 .. Len(q) /\ t[2] = q[3]
      BY <1>1, <2>4, <2>6
    <3>2. q[3] \notin L
      BY <1>3, <3>1
    <3>3. q[1].order # q[3].order
      <4>1. q[1].order = q[3].order => 3 = 1 + 1
        BY <1>1, <3>1 DEF Ordered
      <4> QED BY <4>1
    <3> QED BY <1>5, <2>5, <3>1, <3>2, <3>3
  <2>7. PICK z \in Points : (t[1] \in {q[2]} => z = y) /\ Reaches(g, Tail(t), L, z, e)
    BY <2>2, <2>3, <2>4, <2>5, <2>6, ReachStep
  <2> QED BY <2>1, <2>2, <2>3, <2>5, <2>7
<1> QED BY <1>4, <1>5

(* Between crashes at most an opening and its close are on their way.       *)
LEMMA CrashStream ==
  ASSUME NEW q \in Seq(Reports), NEW L, NEW m, Ordered("crash", q, L, m), q # <<>>,
         NEW x, NEW e, Reaches("crash", q, L, x, e)
  PROVE  /\ q[1] \notin L
         /\ x.pos # Flat => /\ q[1].reduceOnly /\ q[1].size = x.pos.size /\ e.pos = Flat
                            /\ x.c + q[1].size <= e.c
         /\ x.pos = Flat => ~ q[1].reduceOnly
<1>1. Len(q) \in Nat /\ Len(q) # 0 /\ 1 \in 1 .. Len(q)
  <2>1. Len(q) \in Nat /\ Len(q) # 0
    BY LenProperties, EmptySeq
  <2> QED BY <2>1
<1>2. q[1] \notin L
  BY <1>1 DEF Ordered
<1>3. PICK y \in Points : /\ Moves("crash", q[1], x, y)
                          /\ Reaches("crash", Tail(q), {}, y, e)
  <2>1. Len(q) > 1 => (q[2] \in {} <=> q[1].order = q[2].order)
    <3>1. ASSUME Len(q) > 1 PROVE q[1].order # q[2].order
      <4>1. 2 \in 1 .. Len(q) /\ 1 < 2
        BY <1>1, <3>1
      <4> QED BY <1>1, <4>1 DEF Ordered
    <3> QED BY <3>1
  <2>2. PICK y \in Points : /\ q[1] \notin L => Moves("crash", q[1], x, y)
                            /\ Reaches("crash", Tail(q), {}, y, e)
    BY <2>1, ReachStep
  <2> QED BY <1>2, <2>2
<1>4. ASSUME x.pos # Flat
      PROVE  /\ q[1].reduceOnly /\ q[1].size = x.pos.size /\ e.pos = Flat
             /\ x.c + q[1].size <= e.c
  <2>1. q[1].reduceOnly /\ q[1].size = x.pos.size /\ y.pos = Flat /\ y.c = x.c + q[1].size
    BY <1>3, <1>4 DEF Moves, Opens, Shuts, Turns
  <2>2. PICK t : t = Tail(q)
    OBVIOUS
  <2>3. /\ t \in Seq(Reports) /\ Len(t) = Len(q) - 1
        /\ \A i \in 1 .. Len(t) : t[i] = q[i + 1]
    BY <2>2, HeadTailProperties
  <2>4. ASSUME t # <<>> PROVE FALSE
    <3>1. Len(t) \in Nat /\ Len(t) # 0
      BY <2>3, <2>4, LenProperties, EmptySeq
    <3>2. 1 \in 1 .. Len(t) /\ 1 + 1 = 2 /\ 2 \in 1 .. Len(q) /\ 2 > 1
      BY <1>1, <2>3, <3>1
    <3>3. t[1] = q[2] /\ t[1].reduceOnly
      BY <2>3, <3>2 DEF Ordered
    <3>4. PICK N : Len(t) > 1 => (t[2] \in N <=> t[1].order = t[2].order)
      <4>1. CASE t[1].order = t[2].order
        BY <4>1
      <4>2. CASE t[1].order # t[2].order
        <5>1. t[2] \notin {}
          OBVIOUS
        <5> QED BY <4>2, <5>1
      <4> QED BY <4>1, <4>2
    <3>5. PICK z \in Points : t[1] \notin {} => Moves("crash", t[1], y, z)
      BY <1>3, <2>2, <2>3, <2>4, <3>4, ReachStep
    <3> QED BY <2>1, <3>3, <3>5 DEF Moves, Opens, Shuts, Turns
  <2>5. y = e
    <3>1. t = <<>>
      BY <2>4
    <3> QED BY <1>3, <2>2, <3>1, ReachedNow
  <2>6. y.c \in Nat
    BY <1>3 DEF Points
  <2> QED BY <2>1, <2>5, <2>6
<1>5. x.pos = Flat => ~ q[1].reduceOnly
  BY <1>3 DEF Moves, Opens, Shuts, Turns
<1> QED BY <1>2, <1>4, <1>5

-----------------------------------------------------------------------------
(***************************************************************************)
(* A report handled: the journal follows the point.                        *)
(***************************************************************************)
Pos(t) == [side |-> t.side, size |-> t.size]

(* The journal of world r, with nothing left to restore, stands at x.       *)
StandsAt(g, r, x) ==
  /\ r.booked <= x.c
  /\ r.trade # NoTrade => x.pos = Pos(r.trade) /\ r.trade.mode = r.mode
  /\ g = "hand" /\ r.trade = NoTrade => x.pos = Flat

LEMMA PosOfTrade ==
  ASSUME NEW t \in Trades, t # NoTrade
  PROVE  /\ Pos(t) # Flat /\ Pos(t) \in Positions /\ Pos(t).side = t.side /\ Pos(t).size = t.size
         /\ t.size \in 1 .. MaxSize /\ t.size \in Nat \ {0} /\ t.side \in Sides
         /\ Opposite(t.side) # t.side
<1>1. t.size \in 1 .. MaxSize /\ t.side \in Sides
  BY Absent
<1>2. Pos(t).size = t.size /\ Pos(t).side = t.side /\ Pos(t) \in Positions
  BY <1>1 DEF Pos, Positions
<1>3. Pos(t) # Flat /\ t.size \in Nat \ {0}
  BY <1>1, <1>2, Absent, Bounds
<1>4. Opposite(t.side) # t.side
  BY <1>1 DEF Opposite, Sides
<1> QED BY <1>1, <1>2, <1>3, <1>4

LEMMA ClosedFollows ==
  ASSUME NEW g, NEW f \in Reports, NEW x \in Points, NEW y \in Points,
         NEW r \in Worlds, NEW v \in Worlds, StandsAt(g, r, x), r.pending = NoTrade,
         Shuts(g, f, x, y), ClosedBy(r, v, f.size), v.mode = r.mode
  PROVE  /\ StandsAt(g, v, y) /\ v.pending = NoTrade
         /\ v.file = r.file \/ v.file = v.trade
         /\ r.trade = NoTrade => v.trade = NoTrade /\ v.file = r.file
<1>0. f.size \in 1 .. MaxSize /\ x.c \in Nat /\ y.c \in Nat /\ r.booked \in Nat /\ f.size \in Nat
  BY ReportType, FieldTypes, Bounds DEF Points
<1>1. CASE r.trade = NoTrade
  <2>1. v.trade = NoTrade /\ v.pending = NoTrade /\ v.file = r.file /\ v.booked = r.booked
    BY <1>1 DEF ClosedBy
  <2>2. r.booked <= y.c /\ g # "hand"
    BY <1>0, <1>1 DEF StandsAt, Shuts
  <2> QED BY <2>1, <2>2 DEF StandsAt
<1>2. CASE r.trade # NoTrade
  <2>1. PICK t \in Trades : t = r.trade
    BY FieldTypes
  <2>2. /\ t # NoTrade /\ t.size \in Nat \ {0} /\ Pos(t).side = t.side /\ Pos(t).size = t.size
        /\ x.pos = Pos(t) /\ t.mode = r.mode /\ r.booked <= x.c
    BY <1>2, <2>1, PosOfTrade DEF StandsAt
  <2>3. f.size <= t.size /\ y.c = x.c + f.size
    BY <2>2 DEF Shuts
  <2>4. Least(f.size, t.size) = f.size
    BY <1>0, <2>2, <2>3 DEF Least
  <2>5. /\ v.pending = NoTrade /\ v.file = v.trade /\ v.booked = r.booked + f.size
        /\ IF f.size >= t.size THEN v.trade = NoTrade
           ELSE v.trade = [t EXCEPT !.size = t.size - f.size] /\ v.trade # NoTrade
    BY <1>2, <2>1, <2>4 DEF ClosedBy
  <2>6. v.booked <= y.c
    BY <1>0, <2>2, <2>3, <2>5
  <2>7. CASE f.size = t.size
    <3>1. v.trade = NoTrade /\ y.pos = Flat
      BY <1>0, <2>2, <2>5, <2>7 DEF Shuts
    <3> QED BY <1>2, <2>5, <2>6, <3>1 DEF StandsAt
  <2>8. CASE f.size # t.size
    <3>1. v.trade = [t EXCEPT !.size = t.size - f.size] /\ v.trade # NoTrade
      BY <1>0, <2>2, <2>3, <2>5, <2>8
    <3>2. t \in [mode : Buckets, order : 1 .. MaxOrders, side : Sides, size : 1 .. MaxSize]
      BY <2>2 DEF Trades
    <3>3. v.trade.mode = t.mode /\ v.trade.side = t.side /\ v.trade.size = t.size - f.size
      BY <3>1, <3>2
    <3>4. y.pos = [x.pos EXCEPT !.size = x.pos.size - f.size]
      BY <2>2, <2>8 DEF Shuts
    <3>5. y.pos = [side |-> t.side, size |-> t.size - f.size]
      BY <2>2, <3>4 DEF Pos
    <3>6. y.pos = Pos(v.trade)
      BY <3>3, <3>5 DEF Pos
    <3> QED BY <1>2, <2>2, <2>5, <2>6, <3>1, <3>3, <3>6 DEF StandsAt
  <2> QED BY <2>7, <2>8
<1> QED BY <1>1, <1>2

(* Before, nothing is left to restore or to recall; the report is not taken *)
(* for the copy of another.                                                 *)
LEMMA JournalFollows ==
  ASSUME NEW g \in {"crash", "hand"}, NEW f \in Reports, NEW x \in Points, NEW y \in Points,
         NEW w \in Worlds, NEW truth, NEW r, r = ResolvePendingRestore(w, truth),
         NEW v, v = HandleTrade(w, f, truth),
         StandsAt(g, r, x), r.pending = NoTrade, NothingToRecall(r),
         f.reduceOnly /\ IsDuplicateClose(w, f) => f \in w.lastClose,
         \A c \in w.lastClose : c.reduceOnly,
         f \in w.lastClose => y = x,
         f \notin w.lastClose => Moves(g, f, x, y)
  PROVE  /\ StandsAt(g, v, y) /\ v.pending = NoTrade
         /\ v.file = r.file \/ v.file = v.trade
         /\ f \notin w.lastClose /\ r.trade = NoTrade /\ ~ Opens(f, x, y)
              => v.trade = NoTrade /\ v.file = r.file
         /\ Opens(f, x, y) => v.trade # NoTrade /\ v.file = v.trade
<1>1. r \in Worlds /\ SameBooks(w, r) /\ SameLast(w, r)
  BY ResolveResult
<1>2. IsDuplicateClose(r, f) <=> IsDuplicateClose(w, f)
  BY <1>1 DEF SameLast, IsDuplicateClose
<1>3. CASE f.reduceOnly
  <2>1. v = HandleClose(w, f, truth) /\ ~ Opens(f, x, y)
    BY <1>3 DEF HandleTrade, Opens
  <2>2. CASE IsDuplicateClose(w, f)
    <3>1. v = r
      BY <1>1, <1>2, <2>1, <2>2, HandleCloseResult
    <3> QED BY <1>3, <2>1, <2>2, <3>1
  <2>3. CASE ~ IsDuplicateClose(w, f)
    <3>1. f \notin w.lastClose
      BY <2>3 DEF IsDuplicateClose
    <3>2. Kept(r, v) /\ ClosedBy(r, v, f.size)
      BY <1>1, <1>2, <2>1, <2>3, HandleCloseResult
    <3>3. v.mode = r.mode /\ v \in Worlds
      BY <3>2 DEF Kept, SameBooks, RowAdded
    <3>4. Shuts(g, f, x, y)
      BY <1>3, <3>1 DEF Moves, Opens, Turns
    <3>5. PICK u \in Worlds : u = v
      BY <3>3
    <3>6. PICK q \in Worlds : q = r
      BY <1>1
    <3>7. StandsAt(g, q, x) /\ q.pending = NoTrade /\ ClosedBy(q, u, f.size) /\ u.mode = q.mode
      BY <3>2, <3>3, <3>5, <3>6
    <3>8. /\ StandsAt(g, u, y) /\ u.pending = NoTrade
          /\ u.file = q.file \/ u.file = u.trade
          /\ q.trade = NoTrade => u.trade = NoTrade /\ u.file = q.file
      BY <3>4, <3>7, ClosedFollows
    <3> QED BY <2>1, <3>5, <3>6, <3>8
  <2> QED BY <2>2, <2>3
<1>4. CASE ~ f.reduceOnly
  <2>1. f \notin w.lastClose /\ Moves(g, f, x, y)
    BY <1>4
  <2>2. v = HandleOpenOrOpposite(w, f, truth)
    BY <1>4 DEF HandleTrade
  <2>3. /\ Kept(r, v) /\ SameLast(r, v)
        /\ r.trade = NoTrade => OpenedBy(r, v, f, f.size) /\ v.booked = r.booked
        /\ r.trade # NoTrade /\ r.trade.side # f.side /\ f.size > r.trade.size =>
              /\ v.booked = r.booked + r.trade.size
              /\ OpenedBy(r, v, f, IF OppositeLegDust(r.trade.size, f.size) THEN f.size
                                   ELSE f.size - r.trade.size)
        /\ r.trade # NoTrade /\ r.trade.side # f.side /\ ~ f.size > r.trade.size =>
              ClosedBy(r, v, f.size)
    BY <1>1, <2>2, HandleOpenResult
  <2>4. v.mode = r.mode /\ v \in Worlds
    BY <2>3 DEF Kept, SameBooks, RowAdded
  <2>5. r.trade # NoTrade =>
          /\ x.pos = Pos(r.trade) /\ x.pos # Flat /\ x.pos.side = r.trade.side
          /\ x.pos.size = r.trade.size /\ Opposite(r.trade.side) # r.trade.side
          /\ r.trade.size \in Nat \ {0}
    BY <1>1, FieldTypes, PosOfTrade DEF StandsAt
  <2>6. f.size \in Nat \ {0} /\ x.c \in Nat /\ r.booked \in Nat
    BY <1>1, ReportType, FieldTypes, Bounds DEF Points
  <2>7. CASE Opens(f, x, y)
    <3>1. r.trade = NoTrade
      BY <2>5, <2>7 DEF Opens
    <3>2. OpenedBy(r, v, f, f.size) /\ v.booked = r.booked
      BY <2>3, <3>1
    <3>3. /\ v.trade # NoTrade /\ v.trade.mode = r.mode /\ v.file = v.trade /\ v.pending = NoTrade
          /\ Pos(v.trade) = [side |-> f.side, size |-> f.size]
      BY <3>2 DEF OpenedBy, Pos
    <3>4. y.pos = Pos(v.trade) /\ v.booked <= y.c
      BY <2>7, <3>2, <3>3 DEF Opens, StandsAt
    <3> QED BY <2>4, <2>7, <3>3, <3>4 DEF StandsAt
  <2>8. CASE Shuts(g, f, x, y)
    <3>1. g = "hand" /\ r.trade # NoTrade
      BY <1>4, <2>8 DEF Shuts, StandsAt
    <3>2. r.trade.side # f.side /\ ~ f.size > r.trade.size
      BY <2>5, <2>6, <2>8, <3>1 DEF Shuts
    <3>3. ClosedBy(r, v, f.size) /\ ~ Opens(f, x, y)
      BY <2>3, <2>8, <3>1, <3>2 DEF Shuts, Opens
    <3> QED BY <1>1, <2>4, <2>8, <3>1, <3>3, ClosedFollows
  <2>9. CASE Turns(g, f, x, y)
    <3>1. g = "hand" /\ r.trade # NoTrade /\ ~ Opens(f, x, y)
      BY <2>9 DEF Turns, StandsAt, Opens
    <3>2. /\ r.trade.side # f.side /\ f.size > r.trade.size
          /\ ~ OppositeLegDust(r.trade.size, f.size)
      BY <2>5, <2>9, <3>1 DEF Turns
    <3>3. v.booked = r.booked + r.trade.size /\ OpenedBy(r, v, f, f.size - r.trade.size)
      BY <2>3, <3>1, <3>2
    <3>4. /\ v.trade # NoTrade /\ v.trade.mode = r.mode /\ v.file = v.trade /\ v.pending = NoTrade
          /\ Pos(v.trade) = [side |-> f.side, size |-> f.size - r.trade.size]
      BY <3>3 DEF OpenedBy, Pos
    <3>5. y.pos = Pos(v.trade)
      BY <2>5, <2>9, <3>1, <3>4 DEF Turns
    <3>6. v.booked <= y.c
      <4>1. y.c = x.c + r.trade.size /\ r.booked <= x.c
        BY <2>5, <2>9, <3>1 DEF Turns, StandsAt
      <4> QED BY <2>5, <2>6, <3>1, <3>3, <4>1
    <3> QED BY <2>4, <3>1, <3>4, <3>5, <3>6 DEF StandsAt
  <2> QED BY <2>1, <2>7, <2>8, <2>9 DEF Moves
<1> QED BY <1>3, <1>4

-----------------------------------------------------------------------------
(***************************************************************************)
(* The reports of every session are in order.                              *)
(***************************************************************************)
OrderInv ==
  \A s \in Sessions : Ordered(regime, stream[s], journal[s].lastClose, orders)

LEMMA BecomesFields ==
  ASSUME Types, NEW j \in Journals, NEW v \in Worlds, Becomes(j, v)
  PROVE  /\ journal'[j].trade = v.trade /\ journal'[j].pending = v.pending
         /\ journal'[j].lastClose = v.lastClose
         /\ \A k \in Journals : k # j => journal'[k] = journal[k]
         /\ openFile' = v.file /\ booked'[Mode(j)] = v.booked
         /\ \A b \in Buckets : b # Mode(j) => booked'[b] = booked[b]
<1>1. Mode(j) \in Buckets
  BY ModeOfSession
<1> QED BY <1>1 DEF Types, MemoryTypes, DiskTypes, Becomes, Memory

LEMMA WorldFields ==
  ASSUME NEW j
  PROVE  /\ World(j).trade = journal[j].trade /\ World(j).pending = journal[j].pending
         /\ World(j).lastClose = journal[j].lastClose /\ World(j).file = openFile
         /\ World(j).mode = Mode(j) /\ World(j).booked = booked[Mode(j)]
BY DEF World

LEMMA StreamTypes ==
  ASSUME Types, NEW s \in Sessions
  PROVE  /\ stream[s] \in Seq(Reports) /\ journal[s].lastClose \in SUBSET Reports
         /\ journal[s].trade \in Trades /\ journal[s].pending \in Trades
         /\ exch[s] \in Positions /\ closed[s] \in Nat /\ booked[s] \in Nat
         /\ orders \in Nat /\ regime \in {"crash", "hand"}
<1>1. s \in Journals /\ s \in Buckets
  BY ModeOfSession
<1> QED BY <1>1, Bounds DEF Types, ExchTypes, MemoryTypes, Memories, DiskTypes, BootTypes

LEMMA OrderedLater ==
  ASSUME NEW g, NEW q \in Seq(Reports), NEW L \in SUBSET Reports, NEW m \in Nat,
         Ordered(g, q, L, m)
  PROVE  Ordered(g, q, L, m + 1)
<1>1. \A i \in 1 .. Len(q) : q[i].order <= m + 1
  <2>1. TAKE i \in 1 .. Len(q)
  <2>2. q[i].order \in Nat /\ q[i].order <= m
    BY LenProperties, ReportType, Bounds DEF Ordered
  <2> QED BY <2>2
<1>2. \A c \in L : c.order <= m + 1
  <2>1. \A c \in L : c.order \in Nat /\ c.order <= m
    BY ReportType, Bounds DEF Ordered
  <2> QED BY <2>1
<1> QED BY <1>1, <1>2 DEF Ordered

(* The stream after an order, seen as one or two reports appended.          *)
LEMMA SentReports ==
  ASSUME Types, NEW s \in Sessions, NEW f, NEW n, OrderStep(s, f, n), Listening(s),
         NEW p, Appended(p, stream[s], f)
  PROVE  /\ f \in Reports /\ n \in {1, 2}
         /\ IF n = 1 THEN stream'[s] = p ELSE Appended(stream'[s], p, f)
         /\ \A t \in Sessions : t # s => stream'[t] = stream[t]
<1>1. PICK c : c = [i \in 1 .. n |-> f]
  OBVIOUS
<1>2. /\ f \in Reports /\ n \in {1, 2} /\ stream' = [stream EXCEPT ![s] = stream[s] \o c]
  BY <1>1 DEF OrderStep, Sent
<1>3. stream'[s] = stream[s] \o c /\ \A t \in Sessions : t # s => stream'[t] = stream[t]
  BY <1>2 DEF Types, ExchTypes
<1>4. stream[s] \in Seq(Reports)
  BY StreamTypes
<1>5. PICK q \in Seq(Reports) : q = stream[s]
  BY <1>4
<1>6. CASE n = 1
  <2>1. c = <<f>>
    BY <1>1, <1>6
  <2>2. q \o c = Append(q, f)
    BY <1>2, <2>1
  <2> QED BY <1>2, <1>3, <1>5, <1>6, <2>2 DEF Appended
<1>7. CASE n = 2
  <2>1. c \in Seq(Reports) /\ Len(c) = 2 /\ c[1] = f /\ c[2] = f
    BY <1>1, <1>2, <1>7
  <2>2. PICK u : u = q \o c
    OBVIOUS
  <2>3. PICK z : z = Append(Append(q, f), f)
    OBVIOUS
  <2>4. /\ u \in Seq(Reports) /\ Len(u) = Len(q) + 2
        /\ \A i \in 1 .. Len(u) : u[i] = IF i <= Len(q) THEN q[i] ELSE c[i - Len(q)]
    <3>1. /\ u \in Seq(Reports) /\ Len(u) = Len(q) + Len(c)
          /\ \A i \in 1 .. Len(q) + Len(c) :
               u[i] = IF i <= Len(q) THEN q[i] ELSE c[i - Len(q)]
      BY <2>1, <2>2, ConcatProperties
    <3> QED BY <2>1, <3>1
  <2>5. /\ z \in Seq(Reports) /\ Len(z) = Len(q) + 2
        /\ \A i \in 1 .. Len(q) : z[i] = q[i]
        /\ z[Len(q) + 1] = f /\ z[Len(q) + 2] = f
    <3>1. PICK y : y = Append(q, f)
      OBVIOUS
    <3>2. /\ y \in Seq(Reports) /\ Len(y) = Len(q) + 1 /\ Len(q) \in Nat
          /\ \A i \in 1 .. Len(q) : y[i] = q[i]
          /\ y[Len(q) + 1] = f
      BY <1>2, <3>1, AppendProperties, LenProperties
    <3>3. /\ z \in Seq(Reports) /\ Len(z) = Len(y) + 1
          /\ \A i \in 1 .. Len(y) : z[i] = y[i]
          /\ z[Len(y) + 1] = f
      BY <1>2, <2>3, <3>1, <3>2, AppendProperties
    <3>4. \A i \in 1 .. Len(q) : i \in 1 .. Len(y)
      BY <3>2
    <3>5. Len(q) + 1 \in 1 .. Len(y)
      BY <3>2
    <3> QED BY <3>2, <3>3, <3>4, <3>5
  <2>6. \A i \in 1 .. Len(u) : u[i] = z[i]
    <3>1. TAKE i \in 1 .. Len(u)
    <3>2. Len(q) \in Nat
      BY LenProperties
    <3>3. CASE i <= Len(q)
      BY <2>4, <2>5, <3>2, <3>3
    <3>4. CASE i = Len(q) + 1
      BY <2>1, <2>4, <2>5, <3>2, <3>4
    <3>5. CASE i = Len(q) + 2
      BY <2>1, <2>4, <2>5, <3>2, <3>5
    <3> QED BY <2>4, <3>2, <3>3, <3>4, <3>5
  <2>7. u = z
    BY <2>4, <2>5, <2>6, SeqEqual
  <2> QED BY <1>2, <1>3, <1>5, <1>7, <2>2, <2>3, <2>7 DEF Appended
<1> QED BY <1>2, <1>3, <1>6, <1>7

(* A delivered report, session by session.                                  *)
Handed(s, f, v) ==
  /\ f \in Reports /\ f = stream[s][1] /\ stream[s] # <<>> /\ v \in Worlds
  /\ v.mode = s /\ stream'[s] = Left(stream[s], f)
  /\ \A t \in Sessions : t # s => stream'[t] = stream[t]
  /\ v.lastClose = IF f.reduceOnly /\ ~ IsDuplicateClose(World(s), f) THEN {f}
                   ELSE journal[s].lastClose
  /\ journal'[s].lastClose = v.lastClose

LEMMA DeliversResult ==
  ASSUME Types, NEW s \in Sessions, NEW f, NEW v, Delivers(s, f, v)
  PROVE  Handed(s, f, v)
<1>1. /\ f \in Reports /\ stream[s] # <<>> /\ f = Head(stream[s])
      /\ v = HandleTrade(World(s), f, Truth(s)) /\ Kept(World(s), v) /\ Becomes(s, v)
      /\ stream' = [stream EXCEPT ![s] = WithoutCopy(s, f)]
  BY DEF Delivers
<1>2. f = stream[s][1]
  BY <1>1, StreamTypes, HeadTailProperties
<1>3. WithoutCopy(s, f) = Left(stream[s], f)
  BY DEF WithoutCopy, Left
<1>4. stream'[s] = Left(stream[s], f) /\ \A t \in Sessions : t # s => stream'[t] = stream[t]
  BY <1>1, <1>3 DEF Types, ExchTypes
<1>5. World(s).mode = s /\ World(s) \in Worlds /\ v \in Worlds /\ v.mode = s
      /\ World(s).lastClose = journal[s].lastClose
  BY <1>1, ModeOfSession, WorldFields, WorldType DEF Kept, SameBooks, RowAdded
<1>6. PICK r \in Worlds : /\ r = ResolvePendingRestore(World(s), Truth(s))
                          /\ SameLast(World(s), r)
  BY <1>5, ResolveResult
<1>7. v.lastClose = IF f.reduceOnly /\ ~ IsDuplicateClose(World(s), f) THEN {f}
                    ELSE journal[s].lastClose
  <2>1. IsDuplicateClose(r, f) <=> IsDuplicateClose(World(s), f)
    BY <1>6 DEF SameLast, IsDuplicateClose
  <2>2. CASE f.reduceOnly /\ IsDuplicateClose(World(s), f)
    <3>1. v = HandleClose(World(s), f, Truth(s))
      BY <1>1, <2>2 DEF HandleTrade
    <3>2. v = r
      BY <1>1, <1>5, <1>6, <2>1, <2>2, <3>1, HandleCloseResult
    <3> QED BY <1>5, <1>6, <2>2, <3>2 DEF SameLast
  <2>3. CASE f.reduceOnly /\ ~ IsDuplicateClose(World(s), f)
    <3>1. v = HandleClose(World(s), f, Truth(s))
      BY <1>1, <2>3 DEF HandleTrade
    <3>2. v.lastClose = {f}
      BY <1>1, <1>5, <1>6, <2>1, <2>3, <3>1, HandleCloseResult
    <3> QED BY <2>3, <3>2
  <2>4. CASE ~ f.reduceOnly
    <3>1. v = HandleOpenOrOpposite(World(s), f, Truth(s))
      BY <1>1, <2>4 DEF HandleTrade
    <3>2. SameLast(r, v)
      BY <1>1, <1>5, <1>6, <3>1, HandleOpenResult
    <3> QED BY <1>5, <1>6, <2>4, <3>2 DEF SameLast
  <2> QED BY <2>2, <2>3, <2>4
<1>8. journal'[s].lastClose = v.lastClose
  BY <1>1, <1>5, ModeOfSession, BecomesFields
<1> QED BY <1>1, <1>2, <1>4, <1>5, <1>7, <1>8 DEF Handed

LEMMA OrderedSent ==
  ASSUME Types, OrderInv, NEW s \in Sessions, NEW f, NEW n, OrderStep(s, f, n),
         regime = "crash" => n = 1 /\ (f.reduceOnly \/ stream[s] = <<>>)
  PROVE  OrderInv'
<1>1. /\ regime' = regime /\ journal' = journal /\ orders' = orders + 1 /\ f \in Reports
      /\ f.order = orders + 1 /\ orders \in Nat
  BY StreamTypes DEF OrderStep, Sent
<1>2. \A t \in Sessions : Ordered(regime, stream[t], journal[t].lastClose, orders + 1)
  BY StreamTypes, OrderedLater DEF OrderInv
<1>3. CASE ~ Listening(s)
  BY <1>1, <1>2, <1>3 DEF OrderInv, OrderStep, Sent
<1>4. CASE Listening(s)
  <2>1. PICK p : Appended(p, stream[s], f)
    BY DEF Appended
  <2>2. PICK q \in Seq(Reports) : q = stream[s]
    BY StreamTypes
  <2>3. PICK L \in SUBSET Reports : L = journal[s].lastClose
    BY StreamTypes
  <2>4. Ordered(regime, q, L, orders)
    BY <2>2, <2>3 DEF OrderInv
  <2>5. /\ Ordered(regime, p, L, orders + 1) /\ p[Len(p)] = f
        /\ (\A i \in 1 .. Len(q) : p[i].order # f.order) /\ (\A c \in L : c.order # f.order)
        /\ p \in Seq(Reports) /\ Len(p) = Len(q) + 1
    <3>1. regime = "crash" => f.reduceOnly \/ q = <<>>
      BY <2>2
    <3>2. Appended(p, q, f)
      BY <2>1, <2>2
    <3>3. PICK m \in Nat : m = orders
      BY <1>1
    <3>4. Ordered(regime, q, L, m) /\ f.order = m + 1
      BY <1>1, <2>4, <3>3
    <3>5. NewLast(regime, p, q, L, m, f)
      BY <1>1, <3>1, <3>2, <3>4, OrderedNew
    <3> QED BY <3>3, <3>5 DEF NewLast
  <2>6. ASSUME n = 2
        PROVE  \A u : Appended(u, p, f) => Ordered(regime, u, L, orders + 1)
    <3>1. regime = "hand"
      BY <2>6, StreamTypes
    <3>2. p # <<>> /\ Len(q) \in Nat
      BY <2>1, LenProperties DEF Appended
    <3>3. \A i \in 1 .. Len(p) : i < Len(p) => p[i].order # f.order
      BY <2>5, <3>2
    <3> QED BY <1>1, <2>5, <3>1, <3>2, <3>3, OrderedAgain
  <2>7. /\ n \in {1, 2} /\ (IF n = 1 THEN stream'[s] = p ELSE Appended(stream'[s], p, f))
        /\ \A t \in Sessions : t # s => stream'[t] = stream[t]
    <3>1. Types /\ OrderStep(s, f, n) /\ Listening(s)
      BY <1>4
    <3> QED BY <2>1, <3>1, SentReports
  <2>8. Ordered(regime, stream'[s], journal[s].lastClose, orders + 1)
    BY <2>3, <2>5, <2>6, <2>7
  <2> QED BY <1>1, <1>2, <2>7, <2>8 DEF OrderInv
<1> QED BY <1>3, <1>4

LEMMA OrderInvStep ==
  ASSUME Types, OrderInv, [Next]_vars
  PROVE  OrderInv'
<1>1. ASSUME NEW s \in Sessions,
             OrderOpens(s) \/ OrderCloses(s) \/ OrderTurns(s) \/ OrderAdds(s)
      PROVE  OrderInv'
  <2>1. \E f, n : OrderStep(s, f, n) /\ (regime = "crash" => n = 1 /\ (f.reduceOnly \/ stream[s] = <<>>))
    <3>1. OrderOpens(s) => \E f, n : /\ OrderStep(s, f, n)
                                     /\ regime = "crash" => n = 1 /\ stream[s] = <<>>
      BY OpensResult
    <3>2. OrderCloses(s) => \E f, n : /\ OrderStep(s, f, n)
                                      /\ regime = "crash" => n = 1 /\ f.reduceOnly
      BY ClosesResult
    <3>3. OrderTurns(s) => \E f, n : OrderStep(s, f, n) /\ regime = "hand"
      BY TurnsResult
    <3>4. OrderAdds(s) => \E f, n : OrderStep(s, f, n) /\ regime = "hand"
      BY AddsResult
    <3> QED BY <1>1, <3>1, <3>2, <3>3, <3>4
  <2> QED BY <2>1, OrderedSent
<1>2. ASSUME NEW s \in Sessions, NEW f, NEW v, Delivers(s, f, v)
      PROVE  OrderInv'
  <2>1. UNCHANGED <<regime, orders>> /\ v \in Worlds /\ Becomes(s, v) /\ s \in Journals
    BY <1>2, ModeOfSession DEF Delivers, exchVars, Kept
  <2>2. /\ f \in Reports /\ f = stream[s][1] /\ stream[s] # <<>>
        /\ stream'[s] = Left(stream[s], f)
        /\ \A t \in Sessions : t # s => stream'[t] = stream[t]
        /\ v.lastClose = IF f.reduceOnly /\ ~ IsDuplicateClose(World(s), f) THEN {f}
                         ELSE journal[s].lastClose
        /\ journal'[s].lastClose = v.lastClose
    <3>1. Handed(s, f, v)
      BY <1>2, DeliversResult
    <3> QED BY <3>1 DEF Handed
  <2>3. \A t \in Sessions : t # s => journal'[t] = journal[t]
    BY <2>1, BecomesFields, ModeOfSession
  <2>4. \A c \in v.lastClose : c \in journal[s].lastClose \/ (c = stream[s][1] /\ c.reduceOnly)
    BY <2>2
  <2>5. Ordered(regime, Left(stream[s], stream[s][1]), v.lastClose, orders)
    BY <2>2, <2>4, StreamTypes, OrderedLeft DEF OrderInv
  <2>6. Ordered(regime, stream'[s], journal'[s].lastClose, orders)
    BY <2>2, <2>5
  <2> QED BY <2>1, <2>2, <2>3, <2>6 DEF OrderInv
<1>3. ASSUME NEW s \in Sessions, DedupeExpires(s)
      PROVE  OrderInv'
  <2>1. /\ journal' = [journal EXCEPT ![s].lastClose = {}]
        /\ UNCHANGED <<exchVars, stream, regime>>
    BY <1>3 DEF DedupeExpires
  <2>2. \A t \in Sessions : journal'[t].lastClose \subseteq journal[t].lastClose
    BY <2>1, ModeOfSession DEF Types, MemoryTypes, Memories
  <2> QED BY <2>1, <2>2, OrderedForgets DEF OrderInv, exchVars
<1>4. ASSUME NEW j \in Journals, NEW truth, NEW v, Resolves(j, truth, v),
             UNCHANGED <<exchVars, stream, regime>>
      PROVE  OrderInv'
  <2>1. v \in Worlds /\ Becomes(j, v) /\ SameLast(World(j), v)
    <3>1. World(j) \in Worlds
      BY WorldType
    <3> QED BY <1>4, <3>1, ResolveResult DEF Resolves
  <2>2. \A k \in Journals : journal'[k].lastClose = journal[k].lastClose
    BY <2>1, BecomesFields, WorldFields DEF SameLast
  <2> QED BY <1>4, <2>2, ModeOfSession DEF OrderInv, exchVars
<1>5. ASSUME NEW s \in Sessions, Start(s) \/ Heartbeat(s)
      PROVE  OrderInv'
  <2>1. UNCHANGED <<exchVars, stream, regime>>
    BY <1>5 DEF Start, Heartbeat
  <2>2. \E j \in Journals : \E truth, v : Resolves(j, truth, v)
    BY <1>5, ResolvesResult, ModeOfSession DEF Start, Heartbeat
  <2> QED BY <1>4, <2>1, <2>2
<1>6. ASSUME NEW s \in Sessions, NEW f, NEW r, NEW v, Commits(s, f, r, v)
      PROVE  OrderInv'
  <2>1. /\ Dies /\ UNCHANGED <<exchVars, regime>> /\ v \in Worlds /\ Becomes(s, v)
        /\ f \in Reports /\ v = InsertRow(r, f.size) /\ r \in Worlds /\ r.trade # NoTrade
        /\ r = Recalled(ResolvePendingRestore(World(s), Truth(s)), Truth(s))
    BY <1>6 DEF Commits, Kept
  <2>2. PICK w : w = ResolvePendingRestore(World(s), Truth(s))
    OBVIOUS
  <2>3. w \in Worlds /\ SameLast(World(s), w)
    BY <2>2, WorldType, ModeOfSession, ResolveResult
  <2>4. SameLast(w, r)
    BY <2>1, <2>2, <2>3, RecalledResult
  <2>5. SameLast(r, v)
    BY <2>1, ReportType, Bounds, InsertResult
  <2>6. \A k \in Journals : journal'[k].lastClose = journal[k].lastClose
    BY <2>1, <2>3, <2>4, <2>5, BecomesFields, WorldFields, ModeOfSession DEF SameLast
  <2>7. \A t \in Sessions : stream'[t] = <<>>
    BY <2>1 DEF Dies
  <2>8. \A t \in Sessions : Ordered(regime, <<>>, journal[t].lastClose, orders)
    BY OrderedNothing DEF OrderInv, Ordered
  <2> QED BY <2>1, <2>6, <2>7, <2>8, ModeOfSession DEF OrderInv, exchVars
<1>7. CASE Crash
  <2>1. /\ UNCHANGED <<exchVars, regime, journal>> /\ \A t \in Sessions : stream'[t] = <<>>
    BY <1>7 DEF Crash, Dies
  <2>2. \A t \in Sessions : Ordered(regime, <<>>, journal[t].lastClose, orders)
    BY OrderedNothing DEF OrderInv, Ordered
  <2> QED BY <2>1, <2>2 DEF OrderInv, exchVars
<1>8. CASE Boot
  <2>1. /\ UNCHANGED <<exchVars, regime, stream>>
        /\ \A t \in Sessions : journal'[t].lastClose = {}
    BY <1>8, ModeOfSession DEF Boot, FreshJournal
  <2>2. \A t \in Sessions : Ordered(regime, stream[t], {}, orders)
    BY OrderedForgets DEF OrderInv
  <2> QED BY <2>1, <2>2 DEF OrderInv, exchVars
<1>9. ASSUME UNCHANGED <<exchVars, regime, stream, journal>>
      PROVE  OrderInv'
  BY <1>9 DEF OrderInv, exchVars
<1>10. ASSUME NEW s \in Sessions, PositionUpdate(s) \/ TradeRoutes(s)
       PROVE  OrderInv'
  BY <1>9, <1>10 DEF PositionUpdate, TradeRoutes, Archive, Reset
<1>11. ASSUME NEW s \in Sessions,
             \/ OrderOpens(s) \/ OrderCloses(s) \/ OrderTurns(s) \/ OrderAdds(s)
             \/ \E f, v : Delivers(s, f, v)
             \/ DedupeExpires(s) \/ PositionUpdate(s) \/ Start(s) \/ Heartbeat(s)
             \/ \E f, r, v : Commits(s, f, r, v)
             \/ TradeRoutes(s)
      PROVE  OrderInv'
  BY <1>1, <1>2, <1>3, <1>5, <1>6, <1>10, <1>11
<1>12. UNCHANGED vars => OrderInv'
  BY <1>9 DEF vars
<1> QED BY <1>7, <1>8, <1>11, <1>12, StepKinds

-----------------------------------------------------------------------------
(***************************************************************************)
(* Where a trade can be: in a journal's memory, or pending there, and what  *)
(* the file holds of a session is one of the two.                           *)
(***************************************************************************)
Where(s) ==
  /\ s \in started => up
  /\ ~ Listening(s) => stream[s] = <<>>
  /\ up /\ s \notin started => journal[s].trade = NoTrade
  /\ regime = "hand" => up /\ journal[s].pending = NoTrade /\ (s \notin started => exch[s] = Flat)
  /\ up /\ openFile # NoTrade /\ openFile.mode = s
       => openFile = journal[s].trade \/ openFile = journal[s].pending
  /\ up /\ journal[s].trade # NoTrade => journal[s].trade.mode = s
  /\ up /\ journal[s].pending # NoTrade
       => journal[s].pending.mode = s /\ journal[s].trade = NoTrade
WhereInv == \A s \in Sessions : Where(s)

(* A journal with nothing left to restore.                                  *)
Ready(s, r) ==
  /\ r \in Worlds /\ r = ResolvePendingRestore(World(s), Truth(s)) /\ r.mode = s
  /\ r.pending = NoTrade /\ NothingToRecall(r)
  /\ r.trade # NoTrade => r.trade.mode = s
  /\ r.file = openFile \/ r.file = NoTrade
  /\ r.file # NoTrade /\ r.file.mode = s => r.file = r.trade
  /\ r.booked = booked[s]
  /\ IF journal[s].pending = NoTrade THEN r.trade = journal[s].trade /\ r.file = openFile
     ELSE IF sync[s].side = journal[s].pending.side
          THEN r.trade = journal[s].pending /\ r.file = openFile
          ELSE r.trade = NoTrade /\ r.file = NoTrade

LEMMA ReadyResult ==
  ASSUME Types, WhereInv, NEW s \in Sessions, Listening(s)
  PROVE  \E r : Ready(s, r)
<1>1. PICK r : r = ResolvePendingRestore(World(s), Truth(s))
  OBVIOUS
<1>2. /\ World(s) \in Worlds /\ World(s).mode = s /\ World(s).trade = journal[s].trade
      /\ World(s).pending = journal[s].pending /\ World(s).file = openFile
      /\ World(s).booked = booked[s]
  BY ModeOfSession, WorldFields, WorldType
<1>3. Truth(s) = sync[s] /\ Truth(s) # Unknown
  BY ModeOfSession, Absent DEF Truth, Listening, Types, SyncTypes
<1>4. Where(s) /\ up
  BY DEF WhereInv, Listening
<1>5. PICK w \in Worlds : w = World(s)
  BY <1>2
<1>6. /\ r \in Worlds /\ SameBooks(w, r)
      /\ \/ r = w /\ (w.trade # NoTrade \/ w.pending = NoTrade)
         \/ /\ w.trade = NoTrade /\ w.pending # NoTrade /\ sync[s].side = w.pending.side
            /\ r.trade = w.pending /\ r.pending = NoTrade /\ r.file = w.file
         \/ /\ w.trade = NoTrade /\ w.pending # NoTrade /\ sync[s].side # w.pending.side
            /\ r.trade = NoTrade /\ r.pending = NoTrade /\ r.file = NoTrade
  <2>1. PICK truth : truth = sync[s]
    OBVIOUS
  <2>2. r = ResolvePendingRestore(w, truth)
    BY <1>1, <1>3, <1>5, <2>1
  <2>3. truth # Unknown
    BY <1>3, <2>1
  <2>4. r \in Worlds /\ SameBooks(w, r) /\ SameLast(w, r)
         /\ \/ r = w /\ (w.trade # NoTrade \/ w.pending = NoTrade \/ truth = Unknown)
            \/ /\ w.trade = NoTrade /\ w.pending # NoTrade /\ truth.side = w.pending.side
               /\ r.trade = w.pending /\ r.pending = NoTrade /\ r.file = w.file
            \/ /\ w.trade = NoTrade /\ w.pending # NoTrade /\ truth.side # w.pending.side
               /\ r.trade = NoTrade /\ r.pending = NoTrade /\ r.file = NoTrade
    BY <2>2, ResolveResult
  <2> QED BY <2>1, <2>3, <2>4
<1>7. r.mode = s /\ r.booked = booked[s]
  BY <1>2, <1>5, <1>6 DEF SameBooks
<1>8. CASE journal[s].pending = NoTrade
  <2>1. r = w /\ w.pending = NoTrade /\ w.trade = journal[s].trade /\ w.file = openFile
    BY <1>2, <1>5, <1>6, <1>8
  <2>2. openFile # NoTrade /\ openFile.mode = s => openFile = journal[s].trade
    BY <1>4, <1>8 DEF Where
  <2> QED BY <1>1, <1>4, <1>6, <1>7, <1>8, <2>1, <2>2 DEF Ready, NothingToRecall, Where
<1>9. CASE journal[s].pending # NoTrade
  <2>1. w.trade = NoTrade /\ w.pending # NoTrade /\ w.pending = journal[s].pending
        /\ w.file = openFile /\ w.pending.mode = s
    BY <1>2, <1>4, <1>5, <1>9 DEF Where
  <2>2. openFile # NoTrade /\ openFile.mode = s => openFile = journal[s].pending
    BY <1>2, <1>4, <1>5, <2>1 DEF Where
  <2>3. CASE sync[s].side = journal[s].pending.side
    <3>1. r.trade = w.pending /\ r.pending = NoTrade /\ r.file = w.file
      BY <1>6, <2>1, <2>3
    <3> QED BY <1>1, <1>6, <1>7, <1>9, <2>1, <2>2, <2>3, <3>1 DEF Ready, NothingToRecall
  <2>4. CASE sync[s].side # journal[s].pending.side
    <3>1. r.trade = NoTrade /\ r.pending = NoTrade /\ r.file = NoTrade
      BY <1>6, <2>1, <2>4
    <3> QED BY <1>1, <1>6, <1>7, <1>9, <2>4, <3>1 DEF Ready, NothingToRecall
  <2> QED BY <2>3, <2>4
<1> QED BY <1>8, <1>9

(* What a report leaves in memory and in the file.                          *)
Filed(s, r, v) ==
  /\ v.pending = NoTrade /\ v.mode = s
  /\ v.trade # NoTrade => v.trade.mode = s
  /\ v.file = v.trade \/ (v.file = r.file /\ v.trade = r.trade)

LEMMA FiledResult ==
  ASSUME NEW s, NEW r, Ready(s, r), NEW f \in Reports, NEW v,
         World(s) \in Worlds, v = HandleTrade(World(s), f, Truth(s))
  PROVE  Filed(s, r, v)
<1>1. PICK w \in Worlds : w = World(s)
  OBVIOUS
<1>2. PICK truth : truth = Truth(s)
  OBVIOUS
<1>3. /\ r \in Worlds /\ r = ResolvePendingRestore(w, truth) /\ r.mode = s
      /\ r.pending = NoTrade /\ NothingToRecall(r) /\ (r.trade # NoTrade => r.trade.mode = s)
  BY <1>1, <1>2 DEF Ready
<1>4. ASSUME Kept(r, v), NEW size \in Nat \ {0}, ClosedBy(r, v, size)
      PROVE  Filed(s, r, v)
  <2>1. v.mode = s
    BY <1>3, <1>4 DEF Kept, SameBooks, RowAdded
  <2>2. CASE r.trade = NoTrade
    BY <1>3, <1>4, <2>1, <2>2 DEF ClosedBy, Filed
  <2>3. CASE r.trade # NoTrade /\ size >= r.trade.size
    BY <1>3, <1>4, <2>1, <2>3 DEF ClosedBy, Filed
  <2>4. CASE r.trade # NoTrade /\ ~ size >= r.trade.size
    <3>1. v.trade = [r.trade EXCEPT !.size = r.trade.size - size] /\ v.pending = NoTrade
          /\ v.file = v.trade
      BY <1>4, <2>4 DEF ClosedBy
    <3>2. r.trade \in [mode : Buckets, order : 1 .. MaxOrders, side : Sides, size : 1 .. MaxSize]
      BY <1>3, <2>4, FieldTypes DEF Trades
    <3>3. v.trade.mode = r.trade.mode
      BY <3>1, <3>2
    <3> QED BY <1>3, <2>1, <2>4, <3>1, <3>3 DEF Filed
  <2> QED BY <2>2, <2>3, <2>4
<1>5. ASSUME Kept(r, v), NEW size, OpenedBy(r, v, f, size)
      PROVE  Filed(s, r, v)
  <2>1. v.mode = s
    BY <1>3, <1>5 DEF Kept, SameBooks, RowAdded
  <2> QED BY <1>3, <1>5, <2>1 DEF OpenedBy, Filed
<1>6. v = r => Filed(s, r, v)
  BY <1>3 DEF Filed
<1>7. f.size \in Nat \ {0}
  BY ReportType, Bounds
<1>8. CASE f.reduceOnly
  <2>1. v = HandleClose(w, f, truth)
    BY <1>1, <1>2, <1>8 DEF HandleTrade
  <2>2. Kept(r, v) /\ (v = r \/ ClosedBy(r, v, f.size))
    BY <1>3, <2>1, HandleCloseResult
  <2> QED BY <1>4, <1>6, <1>7, <2>2
<1>9. CASE ~ f.reduceOnly
  <2>1. v = HandleOpenOrOpposite(w, f, truth)
    BY <1>1, <1>2, <1>9 DEF HandleTrade
  <2>2. PICK rest : rest = IF OppositeLegDust(r.trade.size, f.size) THEN f.size
                           ELSE f.size - r.trade.size
    OBVIOUS
  <2>3. Kept(r, v) /\ (v = r \/ ClosedBy(r, v, f.size) \/ OpenedBy(r, v, f, f.size)
                       \/ OpenedBy(r, v, f, rest))
    BY <1>3, <2>1, <2>2, HandleOpenResult
  <2> QED BY <1>4, <1>5, <1>6, <1>7, <2>3
<1> QED BY <1>8, <1>9

LEMMA ListeningDef ==
  ASSUME NEW s \in Sessions
  PROVE  Listening(s) <=> (up /\ s \in started)
BY DEF Listening

(* Any order of the exchange.                                               *)
LEMMA OrdersResult ==
  ASSUME Types, NEW s \in Sessions,
         OrderOpens(s) \/ OrderCloses(s) \/ OrderTurns(s) \/ OrderAdds(s)
  PROVE  \E f, n, p : /\ OrderStep(s, f, n) /\ (Listening(s) \/ exch[s] # Flat)
                      /\ exch' = [exch EXCEPT ![s] = p]
<1>1. CASE OrderOpens(s)
  BY <1>1, OpensResult
<1>2. CASE OrderCloses(s)
  BY <1>2, ClosesResult
<1>3. CASE OrderTurns(s)
  BY <1>3, TurnsResult
<1>4. CASE OrderAdds(s)
  <2>1. PICK f, n : /\ OrderStep(s, f, n) /\ exch[s] # Flat
                    /\ exch' = [exch EXCEPT ![s].size = exch[s].size + f.size]
    BY <1>4, AddsResult
  <2>2. exch' = [exch EXCEPT ![s] = [exch[s] EXCEPT !.size = exch[s].size + f.size]]
    BY <2>1
  <2> QED BY <2>1, <2>2
<1> QED BY <1>1, <1>2, <1>3, <1>4

(* The file, after a step that writes a journal: a trade of that journal, or  *)
(* what it was, or nothing.                                                  *)
LEMMA WhereBecomes ==
  ASSUME Types, WhereInv, NEW s \in Sessions, NEW v \in Worlds, Becomes(s, v),
         Listening(s), UNCHANGED <<bootVars, exch, regime>>, v.pending = NoTrade,
         v.trade # NoTrade => v.trade.mode = s,
         v.file # NoTrade /\ v.file.mode = s => v.file = v.trade,
         v.file = v.trade \/ v.file = openFile \/ v.file = NoTrade,
         \A t \in Sessions : t # s => stream'[t] = stream[t]
  PROVE  WhereInv'
<1>1. /\ journal'[s].trade = v.trade /\ journal'[s].pending = NoTrade
      /\ \A t \in Sessions : t # s => journal'[t] = journal[t]
      /\ openFile' = v.file
  BY BecomesFields, ModeOfSession
<1>2. up' = up /\ started' = started /\ exch' = exch /\ regime' = regime
  BY DEF bootVars
<1>3. up /\ s \in started
  BY ListeningDef
<1>4. Where(s)'
  BY <1>1, <1>2, <1>3 DEF Where, Listening
<1>5. ASSUME NEW t \in Sessions, t # s
      PROVE  Where(t)'
  <2>1. Where(t)
    BY DEF WhereInv
  <2>2. v.file # NoTrade /\ v.file.mode = t => v.file = openFile
    BY <1>5
  <2> QED BY <1>1, <1>2, <1>5, <2>1, <2>2 DEF Where, Listening
<1> QED BY <1>4, <1>5 DEF WhereInv

LEMMA WhereInit == Init => WhereInv
<1>1. SUFFICES ASSUME Init PROVE WhereInv
  OBVIOUS
<1> QED BY <1>1, ModeOfSession DEF Init, WhereInv, Where

LEMMA WhereStep ==
  ASSUME Types, WhereInv, [Next]_vars
  PROVE  WhereInv'
<1>1. ASSUME NEW s \in Sessions,
             OrderOpens(s) \/ OrderCloses(s) \/ OrderTurns(s) \/ OrderAdds(s)
      PROVE  WhereInv'
  <2>1. PICK f, n, p : /\ OrderStep(s, f, n) /\ (Listening(s) \/ exch[s] # Flat)
                       /\ exch' = [exch EXCEPT ![s] = p]
    BY <1>1, OrdersResult
  <2>2. /\ up' = up /\ started' = started /\ journal' = journal /\ openFile' = openFile
        /\ regime' = regime
    BY <2>1 DEF OrderStep, bootVars, diskVars
  <2>3. \A t \in Sessions : ~ Listening(t) => stream'[t] = stream[t]
    BY <2>1 DEF OrderStep, Sent, Types, ExchTypes
  <2>4. \A t \in Sessions : regime = "hand" /\ t \notin started => exch'[t] = exch[t]
    BY <2>1 DEF Listening, WhereInv, Where, Types, ExchTypes
  <2> QED BY <2>2, <2>3, <2>4 DEF WhereInv, Where, Listening
<1>2. ASSUME NEW s \in Sessions, NEW f, NEW v, Delivers(s, f, v)
      PROVE  WhereInv'
  <2>1. /\ Listening(s) /\ UNCHANGED <<bootVars, exch, regime>> /\ f \in Reports
        /\ v = HandleTrade(World(s), f, Truth(s)) /\ v \in Worlds /\ Becomes(s, v)
    BY <1>2 DEF Delivers, exchVars, Kept
  <2>2. PICK r : Ready(s, r)
    BY <2>1, ReadyResult
  <2>3. World(s) \in Worlds
    BY WorldType, ModeOfSession
  <2>4. Filed(s, r, v)
    BY <2>1, <2>2, <2>3, FiledResult
  <2>5. \A t \in Sessions : t # s => stream'[t] = stream[t]
    BY <1>2, DeliversResult DEF Handed
  <2>6. /\ v.pending = NoTrade /\ (v.trade # NoTrade => v.trade.mode = s)
        /\ v.file # NoTrade /\ v.file.mode = s => v.file = v.trade
        /\ v.file = v.trade \/ v.file = openFile \/ v.file = NoTrade
    BY <2>2, <2>4 DEF Filed, Ready
  <2> QED BY <2>1, <2>5, <2>6, WhereBecomes
<1>3. ASSUME NEW s \in Sessions, Heartbeat(s)
      PROVE  WhereInv'
  <2>1. /\ Listening(s) /\ UNCHANGED <<bootVars, exch, regime, stream>>
        /\ Becomes(s, ResolvePendingRestore(World(s), Truth(s)))
    BY <1>3 DEF Heartbeat, exchVars
  <2>2. PICK r : Ready(s, r)
    BY <2>1, ReadyResult
  <2>3. r \in Worlds /\ Becomes(s, r)
    BY <2>1, <2>2 DEF Ready
  <2>4. /\ r.pending = NoTrade /\ (r.trade # NoTrade => r.trade.mode = s)
        /\ r.file # NoTrade /\ r.file.mode = s => r.file = r.trade
        /\ r.file = r.trade \/ r.file = openFile \/ r.file = NoTrade
    BY <2>2 DEF Ready
  <2> QED BY <2>1, <2>3, <2>4, WhereBecomes
<1>4. ASSUME NEW s \in Sessions, DedupeExpires(s)
      PROVE  WhereInv'
  <2>1. /\ journal' = [journal EXCEPT ![s].lastClose = {}]
        /\ UNCHANGED <<bootVars, exch, regime, stream, openFile>>
    BY <1>4 DEF DedupeExpires, exchVars, diskVars
  <2>2. \A t \in Sessions : journal'[t].trade = journal[t].trade
                            /\ journal'[t].pending = journal[t].pending
    BY <2>1, ModeOfSession DEF Types, MemoryTypes, Memories
  <2> QED BY <2>1, <2>2 DEF WhereInv, Where, Listening, bootVars
<1>5. ASSUME NEW s \in Sessions, Start(s)
      PROVE  WhereInv'
  <2>1. PICK v : Resolves(Legacy, exch[s], v)
    BY <1>5, ModeOfSession, ResolvesResult DEF Start
  <2>2. World(Legacy) \in Worlds /\ World(Legacy).file = openFile
    BY WorldType, WorldFields, ModeOfSession
  <2>3. v.file = openFile \/ v.file = NoTrade
    <3>1. PICK w \in Worlds : w = World(Legacy)
      BY <2>2
    <3>2. PICK truth : truth = exch[s]
      OBVIOUS
    <3>3. v = ResolvePendingRestore(w, truth)
      BY <2>1, <3>1, <3>2 DEF Resolves
    <3>4. v = w \/ v.file = w.file \/ v.file = NoTrade
      BY <3>3, ResolveResult
    <3> QED BY <2>2, <3>1, <3>4
  <2>4. (\A t \in Sessions : journal'[t] = journal[t]) /\ openFile' = v.file
    BY <2>1, BecomesFields, ModeOfSession DEF Resolves
  <2>5. started \subseteq started' /\ up /\ UNCHANGED <<up, exch, stream, regime>>
    BY <1>5 DEF Start, exchVars
  <2> QED BY <2>3, <2>4, <2>5 DEF WhereInv, Where, Listening
<1>6. ASSUME Dies, UNCHANGED regime
      PROVE  WhereInv'
  BY <1>6 DEF Dies, WhereInv, Where
<1>7. CASE Boot
  <2>1. /\ ~ up /\ up' /\ UNCHANGED <<started, exch, stream, openFile, regime>>
        /\ \A t \in Sessions : journal'[t] = FreshJournal(t) /\ Mode(t) = t
    BY <1>7, ModeOfSession DEF Boot, exchVars, diskVars
  <2>2. \A t \in Sessions : /\ stream[t] = <<>> /\ regime # "hand"
    BY <2>1 DEF WhereInv, Where, Listening
  <2>3. \A t \in Sessions : /\ journal'[t].trade = NoTrade
                            /\ journal'[t].pending = IF openFile.mode = t THEN openFile ELSE NoTrade
    <3>1. TAKE t \in Sessions
    <3>2. /\ journal'[t] = [trade |-> NoTrade, lastClose |-> {},
                            pending |-> IF openFile.mode = Mode(t) THEN openFile ELSE NoTrade]
      BY <2>1 DEF FreshJournal
    <3>3. Mode(t) = t
      BY <2>1
    <3> QED BY <3>2, <3>3
  <2> QED BY <2>1, <2>2, <2>3 DEF WhereInv, Where
<1>8. ASSUME UNCHANGED <<bootVars, exch, stream, journal, openFile, regime>>
      PROVE  WhereInv'
  BY <1>8 DEF WhereInv, Where, Listening, bootVars
<1>9. ASSUME NEW s \in Sessions, PositionUpdate(s) \/ TradeRoutes(s)
      PROVE  WhereInv'
  BY <1>8, <1>9 DEF PositionUpdate, TradeRoutes, Archive, Reset, exchVars, diskVars
<1>10. UNCHANGED vars => WhereInv'
  BY <1>8 DEF vars, exchVars, diskVars
<1>11. Crash => WhereInv'
  BY <1>6 DEF Crash
<1>12. ASSUME NEW s \in Sessions, NEW f, NEW r, NEW v, Commits(s, f, r, v)
       PROVE  WhereInv'
  BY <1>6, <1>12 DEF Commits
<1> QED BY <1>1, <1>2, <1>3, <1>4, <1>5, <1>7, <1>9, <1>10, <1>11, <1>12, StepKinds

-----------------------------------------------------------------------------
(***************************************************************************)
(* Where a session's journal stands: at a point from which the reports on    *)
(* their way lead to the exchange.  A trade held back for the exchange to    *)
(* confirm is its position, or the position is gone and nothing is to come;  *)
(* and so is, while the process is down, the trade in the file.             *)
(***************************************************************************)
End(s) == [pos |-> exch[s], c |-> closed[s]]

HeldBack(s, x) ==
  LET p == Pos(journal[s].pending)
  IN  /\ exch[s] \in {Flat, p} /\ x.pos \in {Flat, p}
      /\ x.pos = Flat => stream[s] = <<>>
      /\ s \in started => sync[s] \in {Flat, p} /\ (stream[s] = <<>> => sync[s] = exch[s])

Agree(s, x) ==
  /\ booked[s] <= x.c
  /\ up /\ journal[s].trade # NoTrade => x.pos = Pos(journal[s].trade)
  /\ regime = "hand" /\ journal[s].trade = NoTrade => x.pos = Flat
  /\ up /\ journal[s].pending # NoTrade => HeldBack(s, x)
  /\ ~ up /\ openFile # NoTrade /\ openFile.mode = s => exch[s] \in {Flat, Pos(openFile)}

Stands(s, x) == Reaches(regime, stream[s], journal[s].lastClose, x, End(s)) /\ Agree(s, x)

JInv == \A s \in Sessions : s \in misled \/ \E x : Stands(s, x)

LEMMA StandsTypes ==
  ASSUME Types, NEW s \in Sessions, NEW x, Stands(s, x)
  PROVE  /\ x \in Points /\ x.c \in Nat /\ x.pos \in Positions
         /\ End(s) \in Points /\ x.c <= closed[s] /\ booked[s] <= x.c
         /\ End(s).pos = exch[s] /\ End(s).c = closed[s]
         /\ closed[s] \in Nat /\ booked[s] \in Nat
         /\ stream[s] = <<>> => x = End(s)
<1>1. stream[s] \in Seq(Reports) /\ closed[s] \in Nat /\ booked[s] \in Nat
  BY StreamTypes
<1>2. PICK e : e = End(s)
  OBVIOUS
<1>3. e.pos = exch[s] /\ e.c = closed[s]
  BY <1>2 DEF End
<1>4. Reaches(regime, stream[s], journal[s].lastClose, x, e)
  BY <1>2 DEF Stands
<1>5. x \in Points /\ e \in Points /\ x.c \in Nat /\ x.c <= e.c /\ x.pos \in Positions
  BY <1>1, <1>4, ReachTypes
<1>6. stream[s] = <<>> => x = e
  BY <1>4, ReachedNow
<1> QED BY <1>1, <1>2, <1>3, <1>5, <1>6 DEF Stands, Agree

(* A session that a step does not touch.                                    *)
SameFor(t) ==
  /\ exch'[t] = exch[t] /\ closed'[t] = closed[t] /\ stream'[t] = stream[t]
  /\ sync'[t] = sync[t] /\ booked'[t] = booked[t] /\ journal'[t] = journal[t]
  /\ up' = up /\ (t \in started' <=> t \in started) /\ regime' = regime
  /\ up \/ openFile' = openFile

LEMMA StandsStill ==
  ASSUME NEW t \in Sessions, NEW x, Stands(t, x), SameFor(t)
  PROVE  Stands(t, x)'
BY DEF Stands, Agree, HeldBack, SameFor, End

LEMMA OthersStand ==
  ASSUME JInv, NEW s \in Sessions, \A t \in Sessions : t # s => SameFor(t),
         misled \subseteq misled', s \in misled' \/ \E x : Stands(s, x)'
  PROVE  JInv'
BY StandsStill DEF JInv

(* The point moves with an order that the journal will follow.              *)
OrderMoves(s, f, n, p, c) ==
  /\ OrderStep(s, f, n) /\ p \in Positions /\ c \in Nat /\ closed[s] <= c
  /\ exch' = [exch EXCEPT ![s] = p] /\ closed' = [closed EXCEPT ![s] = c]
  /\ Moves(regime, f, End(s), [pos |-> p, c |-> c])
  /\ ~ Listening(s) => exch[s] # Flat
  /\ regime = "crash" => n = 1 /\ (f.reduceOnly \/ stream[s] = <<>>)
  /\ regime = "crash" => p = Flat \/ (up /\ journal[s].pending = NoTrade)

LEMMA OrderReaches ==
  ASSUME Types, OrderInv, NEW s \in Sessions, NEW f, NEW n, NEW p, NEW c,
         OrderMoves(s, f, n, p, c), NEW x, Stands(s, x), Listening(s)
  PROVE  /\ Reaches(regime, stream'[s], journal[s].lastClose, x, [pos |-> p, c |-> c])
         /\ stream'[s] # <<>>
<1>1. PICK y : y = [pos |-> p, c |-> c]
  OBVIOUS
<1>2. PICK e : e = End(s)
  OBVIOUS
<1>3. PICK q \in Seq(Reports) : q = stream[s]
  BY StreamTypes
<1>4. PICK L \in SUBSET Reports : L = journal[s].lastClose
  BY StreamTypes
<1>5. PICK m \in Nat : m = orders
  BY StreamTypes
<1>6. /\ OrderStep(s, f, n) /\ f \in Reports /\ f.order = m + 1 /\ y \in Points
      /\ Moves(regime, f, e, y) /\ e.c <= y.c /\ y.c \in Nat
      /\ regime = "crash" => n = 1 /\ (f.reduceOnly \/ q = <<>>)
  BY <1>1, <1>2, <1>3, <1>5 DEF OrderMoves, OrderStep, Sent, Points, End
<1>7. Ordered(regime, q, L, m)
  BY <1>3, <1>4, <1>5 DEF OrderInv
<1>8. Reaches(regime, q, L, x, e)
  BY <1>2, <1>3, <1>4 DEF Stands
<1>9. PICK w : Appended(w, q, f)
  BY DEF Appended
<1>10. NewLast(regime, w, q, L, m, f)
  BY <1>6, <1>7, <1>9, OrderedNew
<1>11. Reaches(regime, w, L, x, y)
  <2>1. ~ Spent(w, L, Len(w))
    BY <1>10 DEF NewLast
  <2> QED BY <1>6, <1>8, <1>9, <2>1, ReachAppend
<1>12. /\ n \in {1, 2} /\ (IF n = 1 THEN stream'[s] = w ELSE Appended(stream'[s], w, f))
  <2>1. Types /\ OrderStep(s, f, n) /\ Listening(s) /\ Appended(w, stream[s], f)
    BY <1>3, <1>6, <1>9
  <2> QED BY <2>1, SentReports
<1>13. w \in Seq(Reports) /\ w # <<>> /\ w[Len(w)] = f
  BY <1>9, <1>10, LenProperties DEF Appended, NewLast
<1>14. ASSUME n = 2
       PROVE  \A u : Appended(u, w, f) => Reaches(regime, u, L, x, y) /\ u # <<>>
  <2>1. TAKE u
  <2>2. HAVE Appended(u, w, f)
  <2>3. regime = "hand"
    BY <1>6, <1>14, StreamTypes
  <2>4. \A i \in 1 .. Len(w) : i < Len(w) => w[i].order # f.order
    BY <1>10, LenProperties DEF NewLast
  <2>5. /\ Ordered(regime, w, L, m + 1) /\ \A o \in L : o.order # f.order
    BY <1>10 DEF NewLast
  <2>6. Spent(u, L, Len(u))
    BY <1>6, <1>13, <2>2, <2>3, <2>4, <2>5, OrderedAgain
  <2>7. y.c <= y.c
    BY <1>6
  <2>8. Reaches(regime, u, L, x, y)
    BY <1>6, <1>11, <1>13, <2>2, <2>6, <2>7, ReachAppend
  <2> QED BY <1>6, <1>13, <2>2, <2>8 DEF Appended
<1> QED BY <1>1, <1>4, <1>11, <1>12, <1>13, <1>14

LEMMA OrderStands ==
  ASSUME Types, OrderInv, WhereInv, NEW s \in Sessions, NEW f, NEW n, NEW p, NEW c,
         OrderMoves(s, f, n, p, c), NEW x, Stands(s, x)
  PROVE  \E y : Stands(s, y)'
<1>1. /\ up' = up /\ started' = started /\ journal' = journal /\ openFile' = openFile
      /\ regime' = regime /\ booked' = booked /\ sync' = sync
      /\ exch'[s] = p /\ closed'[s] = c /\ p \in Positions /\ c \in Nat
      /\ regime \in {"crash", "hand"}
  BY StreamTypes DEF OrderMoves, OrderStep, bootVars, diskVars, Types, ExchTypes
<1>2. PICK y : y = [pos |-> p, c |-> c]
  OBVIOUS
<1>3. End(s)' = y /\ y.pos = p /\ y.c = c /\ y \in Points
  BY <1>1, <1>2 DEF End, Points
<1>4. Where(s) /\ (Listening(s) <=> (up /\ s \in started))
  BY ListeningDef DEF WhereInv
<1>5. /\ booked[s] <= x.c /\ x.c <= closed[s] /\ closed[s] <= c
      /\ x.c \in Nat /\ closed[s] \in Nat /\ booked[s] \in Nat
      /\ stream[s] = <<>> => x.pos = exch[s]
  BY StandsTypes DEF OrderMoves, End
<1>6. p = Flat \/ (up /\ journal[s].pending = NoTrade)
  BY <1>1, <1>4 DEF OrderMoves, Where
<1>7. CASE Listening(s)
  <2>1. /\ Reaches(regime, stream'[s], journal[s].lastClose, x, y) /\ stream'[s] # <<>>
    BY <1>2, <1>7, OrderReaches
  <2>2. up /\ journal[s].pending # NoTrade => HeldBack(s, x)'
    <3>1. SUFFICES ASSUME up, journal[s].pending # NoTrade PROVE HeldBack(s, x)'
      OBVIOUS
    <3>2. HeldBack(s, x) /\ p = Flat
      BY <1>6, <3>1 DEF Stands, Agree
    <3>3. x.pos # Flat
      <4>1. ASSUME x.pos = Flat PROVE FALSE
        <5>1. exch[s] = Flat
          BY <1>5, <3>2, <4>1 DEF HeldBack
        <5>2. Opens(f, End(s), [pos |-> p, c |-> c])
          BY <5>1 DEF OrderMoves, Moves, Shuts, Turns, End
        <5>3. p = [side |-> f.side, size |-> f.size] /\ f \in Reports
          BY <5>2 DEF Opens, OrderMoves, OrderStep, Sent
        <5> QED BY <3>2, <5>3, ReportType, Absent
      <4> QED BY <4>1
    <3> QED BY <1>1, <2>1, <3>2, <3>3 DEF HeldBack
  <2>3. Agree(s, x)'
    BY <1>1, <1>4, <1>5, <1>7, <2>2 DEF Agree, Stands
  <2> QED BY <1>1, <1>3, <2>1, <2>3 DEF Stands
<1>8. CASE ~ Listening(s)
  <2>1. stream[s] = <<>> /\ stream'[s] = <<>> /\ exch[s] # Flat
    BY <1>4, <1>8 DEF Where, OrderMoves, OrderStep, Sent
  <2>2. Reaches(regime, <<>>, journal[s].lastClose, y, y)
    BY <1>3, ReachesNow
  <2>3. regime = "crash"
    BY <1>1, <1>4, <1>8, <2>1 DEF Where
  <2>4. booked[s] <= c
    BY <1>1, <1>5
  <2>5. Agree(s, y)'
    <3>1. up => journal[s].trade = NoTrade /\ s \notin started
      BY <1>4, <1>8 DEF Where
    <3>2. up /\ journal[s].pending # NoTrade => HeldBack(s, y)'
      BY <1>1, <1>3, <1>6, <2>1, <3>1 DEF HeldBack
    <3> QED BY <1>1, <1>3, <1>6, <2>3, <2>4, <3>1, <3>2 DEF Agree
  <2> QED BY <1>1, <1>3, <2>1, <2>2, <2>5 DEF Stands
<1> QED BY <1>7, <1>8

LEMMA OrderOthers ==
  ASSUME Types, NEW s \in Sessions, NEW f, NEW n, OrderStep(s, f, n), NEW p, NEW c,
         exch' = [exch EXCEPT ![s] = p], closed' = [closed EXCEPT ![s] = c]
  PROVE  \A t \in Sessions : t # s => SameFor(t)
<1>1. \A t \in Sessions : t # s => stream'[t] = stream[t]
  BY DEF OrderStep, Sent, Types, ExchTypes
<1> QED BY <1>1 DEF OrderStep, SameFor, bootVars, diskVars, Types, ExchTypes

(* Each kind of order.                                                      *)
LEMMA OrdersStand ==
  ASSUME Types, OrderInv, WhereInv, JInv, NEW s \in Sessions,
         OrderOpens(s) \/ OrderCloses(s) \/ OrderTurns(s) \/ OrderAdds(s)
  PROVE  JInv'
<1>0. exch[s] \in Positions /\ closed[s] \in Nat /\ closed \in [Sessions -> Nat]
      /\ regime \in {"crash", "hand"}
  BY StreamTypes DEF Types, ExchTypes
<1>1. ASSUME NEW f, NEW n, NEW p, NEW c, OrderMoves(s, f, n, p, c), misled' = misled
      PROVE  JInv'
  <2>1. \A t \in Sessions : t # s => SameFor(t)
    <3>1. /\ Types /\ OrderStep(s, f, n) /\ exch' = [exch EXCEPT ![s] = p]
          /\ closed' = [closed EXCEPT ![s] = c]
      BY <1>1 DEF OrderMoves
    <3> QED BY <3>1, OrderOthers
  <2>2. s \in misled' \/ \E y : Stands(s, y)'
    BY <1>1, OrderStands DEF JInv
  <2>3. misled \subseteq misled'
    BY <1>1
  <2> QED BY <2>1, <2>2, <2>3, OthersStand
<1>2. ASSUME NEW f, NEW n, NEW p, NEW c, OrderStep(s, f, n), misled' = misled \cup {s},
             exch' = [exch EXCEPT ![s] = p], closed' = [closed EXCEPT ![s] = c]
      PROVE  JInv'
  <2>1. \A t \in Sessions : t # s => SameFor(t)
    BY <1>2, OrderOthers
  <2> QED BY <1>2, <2>1, OthersStand
<1>3. CASE OrderOpens(s)
  <2>1. PICK f, n : /\ OrderStep(s, f, n) /\ ~ f.reduceOnly /\ exch[s] = Flat
                    /\ Listening(s)
                    /\ regime = "crash" => n = 1 /\ stream[s] = <<>> /\ journal[s].pending = NoTrade
                    /\ exch' = [exch EXCEPT ![s] = [side |-> f.side, size |-> f.size]]
                    /\ UNCHANGED <<closed, misled>>
    BY <1>3, OpensResult
  <2>2. PICK p : p = [side |-> f.side, size |-> f.size]
    OBVIOUS
  <2>3. p \in Positions
    BY <2>1, <2>2, ReportType DEF OrderStep, Sent, Positions
  <2>4. Opens(f, End(s), [pos |-> p, c |-> closed[s]])
    BY <2>1, <2>2 DEF Opens, End
  <2>5. closed' = [closed EXCEPT ![s] = closed[s]]
    BY <1>0, <2>1
  <2>6. closed[s] <= closed[s]
    BY <1>0
  <2>7. up
    BY <2>1, ListeningDef
  <2>8. OrderMoves(s, f, n, p, closed[s])
    BY <1>0, <2>1, <2>2, <2>3, <2>4, <2>5, <2>6, <2>7 DEF OrderMoves, Moves
  <2> QED BY <1>1, <2>1, <2>8
<1>4. CASE OrderCloses(s)
  <2>1. PICK f, n : /\ OrderStep(s, f, n) /\ exch[s] # Flat /\ f.size <= exch[s].size
                    /\ f.side = Opposite(exch[s].side)
                    /\ regime = "crash" => n = 1 /\ f.reduceOnly /\ f.size = exch[s].size
                    /\ exch' = [exch EXCEPT ![s] = IF f.size = exch[s].size THEN Flat
                                   ELSE [exch[s] EXCEPT !.size = exch[s].size - f.size]]
                    /\ closed' = [closed EXCEPT ![s] = closed[s] + f.size]
                    /\ UNCHANGED misled
    BY <1>4, ClosesResult
  <2>2. PICK p : p = IF f.size = exch[s].size THEN Flat
                     ELSE [exch[s] EXCEPT !.size = exch[s].size - f.size]
    OBVIOUS
  <2>3. f.size \in 1 .. MaxSize /\ exch[s].size \in 1 .. MaxSize
    BY <1>0, <2>1, ReportType, Absent DEF OrderStep, Sent
  <2>4. p \in Positions
    <3>1. f.size # exch[s].size => exch[s].size - f.size \in 1 .. MaxSize
      BY <2>1, <2>3, Bounds
    <3>2. exch[s] \in [side : Sides, size : 1 .. MaxSize]
      BY <1>0, <2>1 DEF Positions
    <3> QED BY <2>2, <3>1, <3>2, Absent DEF Positions
  <2>5. PICK c : c = closed[s] + f.size
    OBVIOUS
  <2>6. c \in Nat /\ closed[s] <= c
    BY <1>0, <2>3, <2>5, Bounds
  <2>7. Shuts(regime, f, End(s), [pos |-> p, c |-> c])
    BY <2>1, <2>2, <2>5 DEF Shuts, End
  <2>8. /\ exch' = [exch EXCEPT ![s] = p] /\ closed' = [closed EXCEPT ![s] = c]
        /\ regime = "crash" => p = Flat
    BY <2>1, <2>2, <2>5
  <2>9. OrderMoves(s, f, n, p, c)
    BY <2>1, <2>4, <2>6, <2>7, <2>8 DEF OrderMoves, Moves
  <2> QED BY <1>1, <2>1, <2>9
<1>5. CASE OrderTurns(s)
  <2>1. PICK f, n : /\ OrderStep(s, f, n) /\ exch[s] # Flat /\ f.size > exch[s].size
                    /\ f.side = Opposite(exch[s].side) /\ regime = "hand" /\ ~ f.reduceOnly
                    /\ exch' = [exch EXCEPT ![s] = [side |-> f.side, size |-> f.size - exch[s].size]]
                    /\ closed' = [closed EXCEPT ![s] = closed[s] + exch[s].size]
                    /\ misled' = IF OppositeLegDust(exch[s].size, f.size) THEN misled \cup {s}
                                 ELSE misled
    BY <1>5, TurnsResult
  <2>2. PICK p : p = [side |-> f.side, size |-> f.size - exch[s].size]
    OBVIOUS
  <2>3. f.size \in 1 .. MaxSize /\ exch[s].size \in 1 .. MaxSize /\ f.side \in Sides
    BY <1>0, <2>1, ReportType, Absent DEF OrderStep, Sent
  <2>4. p \in Positions
    <3>1. f.size - exch[s].size \in 1 .. MaxSize
      BY <2>1, <2>3, Bounds
    <3> QED BY <2>2, <2>3, <3>1 DEF Positions
  <2>5. PICK c : c = closed[s] + exch[s].size
    OBVIOUS
  <2>6. c \in Nat /\ closed[s] <= c
    BY <1>0, <2>3, <2>5, Bounds
  <2>7. exch' = [exch EXCEPT ![s] = p] /\ closed' = [closed EXCEPT ![s] = c]
    BY <2>1, <2>2, <2>5
  <2>8. CASE OppositeLegDust(exch[s].size, f.size)
    BY <1>2, <2>1, <2>7, <2>8
  <2>9. CASE ~ OppositeLegDust(exch[s].size, f.size)
    <3>1. Turns(regime, f, End(s), [pos |-> p, c |-> c])
      BY <2>1, <2>2, <2>5, <2>9 DEF Turns, End
    <3>2. OrderMoves(s, f, n, p, c)
      BY <2>1, <2>4, <2>6, <2>7, <3>1 DEF OrderMoves, Moves
    <3> QED BY <1>1, <2>1, <2>9, <3>2
  <2> QED BY <2>8, <2>9
<1>6. CASE OrderAdds(s)
  <2>1. PICK f, n : /\ OrderStep(s, f, n)
                    /\ exch' = [exch EXCEPT ![s].size = exch[s].size + f.size]
                    /\ misled' = misled \cup {s} /\ UNCHANGED closed
    BY <1>6, AddsResult
  <2>2. PICK p : p = [exch[s] EXCEPT !.size = exch[s].size + f.size]
    OBVIOUS
  <2>3. exch' = [exch EXCEPT ![s] = p] /\ closed' = [closed EXCEPT ![s] = closed[s]]
    BY <1>0, <2>1, <2>2
  <2> QED BY <1>2, <2>1, <2>3
<1> QED BY <1>3, <1>4, <1>5, <1>6

(* A restore is resolved as the point says.                                 *)
LEMMA ReadyStands ==
  ASSUME Types, WhereInv, NEW s \in Sessions, Listening(s), NEW x, Stands(s, x),
         NEW r, Ready(s, r)
  PROVE  StandsAt(regime, r, x)
<1>1. Where(s) /\ Agree(s, x) /\ up /\ s \in started
  BY ListeningDef DEF WhereInv, Stands
<1>2. r.booked <= x.c
  BY <1>1 DEF Ready, Agree
<1>3. CASE journal[s].pending = NoTrade
  BY <1>1, <1>2, <1>3 DEF Ready, Agree, StandsAt
<1>4. CASE journal[s].pending # NoTrade
  <2>1. regime # "hand" /\ HeldBack(s, x)
    BY <1>1, <1>4 DEF Where, Agree
  <2>2. PICK p : p = Pos(journal[s].pending)
    OBVIOUS
  <2>3. /\ p.side = journal[s].pending.side /\ p.side \in Sides /\ p # Flat
    BY <1>4, <2>2, StreamTypes, PosOfTrade
  <2>4. ASSUME sync[s].side = journal[s].pending.side
        PROVE  x.pos = p
    <3>1. sync[s] = p
      BY <1>1, <2>1, <2>2, <2>3, <2>4, Absent DEF HeldBack
    <3>2. CASE stream[s] = <<>>
      BY <1>1, <2>1, <2>3, <3>1, <3>2, StandsTypes DEF HeldBack
    <3>3. CASE stream[s] # <<>>
      BY <2>1, <2>2, <3>3 DEF HeldBack
    <3> QED BY <3>2, <3>3
  <2> QED BY <1>2, <1>4, <2>1, <2>2, <2>4 DEF Ready, StandsAt
<1> QED BY <1>3, <1>4

LEMMA WritesElsewhere ==
  ASSUME Types, NEW s \in Sessions, NEW v \in Worlds, Becomes(s, v), Listening(s),
         UNCHANGED <<bootVars, exchVars, regime>>,
         \A t \in Sessions : t # s => stream'[t] = stream[t] /\ sync'[t] = sync[t]
  PROVE  \A t \in Sessions : t # s => SameFor(t)
<1>1. /\ \A t \in Sessions : t # s => journal'[t] = journal[t] /\ booked'[t] = booked[t]
  BY BecomesFields, ModeOfSession
<1>2. up
  BY ListeningDef
<1> QED BY <1>1, <1>2 DEF SameFor, bootVars, exchVars

(* A report is delivered.                                                   *)
LEMMA DeliversStands ==
  ASSUME Types, OrderInv, WhereInv, NEW s \in Sessions, NEW f, NEW v, Delivers(s, f, v),
         ~ TakenForCopy(s, f), NEW x, Stands(s, x)
  PROVE  \E y : Stands(s, y)'
<1>1. /\ Listening(s) /\ up' = up /\ exch' = exch /\ closed' = closed /\ regime' = regime
      /\ Becomes(s, v) /\ v = HandleTrade(World(s), f, Truth(s))
      /\ regime \in {"crash", "hand"} /\ up
  BY StreamTypes, ListeningDef DEF Delivers, bootVars, exchVars
<1>2. Handed(s, f, v)
  BY DeliversResult
<1>3. /\ f \in Reports /\ f = stream[s][1] /\ stream[s] # <<>> /\ v \in Worlds
      /\ stream'[s] = Left(stream[s], f) /\ journal'[s].lastClose = v.lastClose
  BY <1>2 DEF Handed
<1>4. PICK L : L = journal[s].lastClose
  OBVIOUS
<1>5. f \in L => IsDuplicateClose(World(s), f)
  BY <1>4, WorldFields DEF IsDuplicateClose
<1>6. f.reduceOnly /\ IsDuplicateClose(World(s), f) => f \in L
  BY <1>4 DEF TakenForCopy
<1>7. \A o \in L : o.reduceOnly
  BY <1>4 DEF OrderInv, Ordered
<1>8. PICK M : M = IF f.reduceOnly /\ f \notin L THEN {f} ELSE L
  OBVIOUS
<1>9. v.lastClose = M
  <2>1. v.lastClose = IF f.reduceOnly /\ ~ IsDuplicateClose(World(s), f) THEN {f} ELSE L
    BY <1>2, <1>4 DEF Handed
  <2>2. CASE f \in L
    BY <1>5, <1>8, <2>1, <2>2
  <2>3. CASE f \notin L
    BY <1>6, <1>8, <2>1, <2>3
  <2> QED BY <2>2, <2>3
<1>10. PICK q \in Seq(Reports) : q = stream[s]
  BY StreamTypes
<1>11. PICK e : e = End(s)
  OBVIOUS
<1>12. PICK y \in Points : /\ f \in L => y = x
                           /\ f \notin L => Moves(regime, f, x, y)
                           /\ Reaches(regime, Left(q, f), M, y, e)
  <2>1. PICK g : g = regime
    OBVIOUS
  <2>2. PICK m : m = orders
    OBVIOUS
  <2>3. Ordered(g, q, L, m) /\ Reaches(g, q, L, x, e) /\ q # <<>> /\ f = q[1]
    BY <1>3, <1>4, <1>10, <1>11, <2>1, <2>2 DEF OrderInv, Stands
  <2>4. Learns(f, L, M)
    BY <1>8 DEF Learns
  <2>5. \E y \in Points : /\ f \in L => y = x
                          /\ f \notin L => Moves(g, f, x, y)
                          /\ Reaches(g, Left(q, f), M, y, e)
    BY <2>3, <2>4, ReachLeft
  <2> QED BY <2>1, <2>5
<1>13. PICK r : Ready(s, r)
  BY <1>1, ReadyResult
<1>14. StandsAt(regime, r, x)
  BY <1>1, <1>13, ReadyStands
<1>15. PICK w \in Worlds : w = World(s)
  BY WorldType, ModeOfSession
<1>16. PICK truth : truth = Truth(s)
  OBVIOUS
<1>17. r \in Worlds /\ r = ResolvePendingRestore(w, truth) /\ r.pending = NoTrade
       /\ NothingToRecall(r)
  BY <1>13, <1>15, <1>16 DEF Ready
<1>18. v = HandleTrade(w, f, truth) /\ w.lastClose = L
  BY <1>1, <1>4, <1>15, <1>16, WorldFields
<1>19. x \in Points
  BY StandsTypes
<1>20. StandsAt(regime, v, y) /\ v.pending = NoTrade
  BY <1>1, <1>3, <1>6, <1>7, <1>12, <1>14, <1>15, <1>17, <1>18, <1>19, JournalFollows
<1>21. /\ journal'[s].trade = v.trade /\ journal'[s].pending = NoTrade /\ booked'[s] = v.booked
  BY <1>1, <1>3, <1>20, BecomesFields, ModeOfSession
<1>22. Agree(s, y)'
  BY <1>1, <1>20, <1>21 DEF Agree, StandsAt
<1>23. End(s)' = e
  BY <1>1, <1>11 DEF End
<1> QED BY <1>1, <1>3, <1>9, <1>10, <1>12, <1>22, <1>23 DEF Stands

LEMMA DeliversStand ==
  ASSUME Types, OrderInv, WhereInv, JInv, NEW s \in Sessions, NEW f, NEW v, Delivers(s, f, v)
  PROVE  JInv'
<1>1. /\ Listening(s) /\ UNCHANGED <<bootVars, exchVars, regime>> /\ v \in Worlds
      /\ Becomes(s, v) /\ misled' = IF TakenForCopy(s, f) THEN misled \cup {s} ELSE misled
      /\ sync' = [sync EXCEPT ![s] = NetAfterFill(sync[s], f)] \/ sync' = sync
  BY DEF Delivers, Kept
<1>2. \A t \in Sessions : t # s => stream'[t] = stream[t] /\ sync'[t] = sync[t]
  BY <1>1, DeliversResult DEF Handed, Types, SyncTypes
<1>3. \A t \in Sessions : t # s => SameFor(t)
  BY <1>1, <1>2, WritesElsewhere
<1>4. misled \subseteq misled' /\ (TakenForCopy(s, f) => s \in misled')
  BY <1>1
<1>5. ~ TakenForCopy(s, f) => misled' = misled
  BY <1>1
<1>6. s \in misled' \/ \E y : Stands(s, y)'
  BY <1>4, <1>5, DeliversStands DEF JInv
<1> QED BY <1>3, <1>4, <1>6, OthersStand

(* A restore is resolved by the heartbeat.                                  *)
LEMMA HeartbeatStands ==
  ASSUME Types, OrderInv, WhereInv, JInv, NEW s \in Sessions, Heartbeat(s)
  PROVE  JInv'
<1>1. /\ Listening(s) /\ UNCHANGED <<bootVars, exchVars, regime, sync, stream, misled>>
      /\ Becomes(s, ResolvePendingRestore(World(s), Truth(s))) /\ up
  BY ListeningDef DEF Heartbeat
<1>2. PICK r : Ready(s, r)
  BY <1>1, ReadyResult
<1>3. r \in Worlds /\ Becomes(s, r) /\ r.pending = NoTrade
      /\ r = ResolvePendingRestore(World(s), Truth(s))
  BY <1>1, <1>2 DEF Ready
<1>4. r.lastClose = journal[s].lastClose
  <2>1. PICK w \in Worlds : w = World(s)
    BY WorldType, ModeOfSession
  <2>2. r.lastClose = w.lastClose
    <3>1. PICK truth : truth = Truth(s)
      OBVIOUS
    <3>2. r = ResolvePendingRestore(w, truth)
      BY <1>3, <2>1, <3>1
    <3> QED BY <3>2, ResolveResult DEF SameLast
  <2> QED BY <2>1, <2>2, WorldFields
<1>5. /\ journal'[s].trade = r.trade /\ journal'[s].pending = NoTrade /\ booked'[s] = r.booked
      /\ journal'[s].lastClose = journal[s].lastClose
  BY <1>3, <1>4, BecomesFields, ModeOfSession
<1>6. \A t \in Sessions : t # s => SameFor(t)
  BY <1>1, <1>3, WritesElsewhere
<1>7. ASSUME NEW x, Stands(s, x)
      PROVE  Stands(s, x)'
  <2>1. StandsAt(regime, r, x)
    BY <1>1, <1>2, <1>7, ReadyStands
  <2>2. Agree(s, x)'
    BY <1>1, <1>5, <2>1 DEF Agree, StandsAt, bootVars
  <2>3. Reaches(regime, stream[s], journal[s].lastClose, x, End(s)) /\ End(s)' = End(s)
    BY <1>1, <1>7 DEF Stands, End, exchVars
  <2> QED BY <1>1, <1>5, <2>2, <2>3 DEF Stands
<1>8. s \in misled' \/ \E x : Stands(s, x)'
  BY <1>1, <1>7 DEF JInv
<1> QED BY <1>1, <1>6, <1>8, OthersStand

(* The process dies: what the file holds is the exchange's position, or that *)
(* is gone.                                                                 *)
LEMMA DiesStands ==
  ASSUME Types, OrderInv, WhereInv, NEW s \in Sessions, NEW x, Stands(s, x), Dies,
         UNCHANGED <<exchVars, regime>>, openFile' = openFile \/ openFile' = NoTrade,
         booked'[s] <= closed[s]
  PROVE  \E y : Stands(s, y)'
<1>1. /\ regime = "crash" /\ up /\ ~ up' /\ stream'[s] = <<>> /\ exch' = exch
      /\ closed' = closed /\ regime' = regime
  BY DEF Dies, exchVars
<1>2. Where(s) /\ Agree(s, x)
  BY DEF WhereInv, Stands
<1>3. ASSUME openFile # NoTrade, openFile.mode = s
      PROVE  exch[s] \in {Flat, Pos(openFile)}
  <2>1. CASE openFile = journal[s].pending
    BY <1>1, <1>2, <1>3, <2>1 DEF Agree, HeldBack
  <2>2. CASE openFile = journal[s].trade
    <3>1. x.pos = Pos(openFile) /\ x.pos # Flat
      BY <1>1, <1>2, <1>3, <2>2, StreamTypes, PosOfTrade DEF Agree
    <3>2. CASE stream[s] = <<>>
      BY <3>1, <3>2, StandsTypes
    <3>3. CASE stream[s] # <<>>
      <4>1. PICK e : e = End(s)
        OBVIOUS
      <4>2. /\ Ordered("crash", stream[s], journal[s].lastClose, orders)
            /\ Reaches("crash", stream[s], journal[s].lastClose, x, e)
        BY <1>1, <4>1 DEF OrderInv, Stands
      <4>3. e.pos = Flat
        BY <3>1, <3>3, <4>2, StreamTypes, CrashStream
      <4> QED BY <4>1, <4>3 DEF End
    <3> QED BY <3>2, <3>3
  <2> QED BY <1>1, <1>2, <1>3, <2>1, <2>2 DEF Where
<1>4. PICK y : y = End(s)
  OBVIOUS
<1>5. y \in Points /\ y.pos = exch[s] /\ y.c = closed[s] /\ End(s)' = y
  BY <1>1, <1>4, StandsTypes DEF End
<1>6. PICK L : L = journal'[s].lastClose
  OBVIOUS
<1>7. Reaches(regime, <<>>, L, y, y)
  BY <1>5, ReachesNow
<1>8. Agree(s, y)'
  BY <1>1, <1>3, <1>5 DEF Agree
<1> QED BY <1>1, <1>5, <1>6, <1>7, <1>8 DEF Stands

LEMMA CrashStands ==
  ASSUME Types, OrderInv, WhereInv, JInv, Crash
  PROVE  JInv'
<1>1. Dies /\ UNCHANGED <<exchVars, regime, openFile, booked, misled>>
  BY DEF Crash, diskVars
<1>2. ASSUME NEW s \in Sessions, NEW x, Stands(s, x)
      PROVE  \E y : Stands(s, y)'
  <2>1. /\ booked[s] <= x.c /\ x.c <= closed[s] /\ x.c \in Nat
        /\ closed[s] \in Nat /\ booked[s] \in Nat
    BY <1>2, StandsTypes
  <2>2. booked'[s] <= closed[s]
    BY <1>1, <2>1
  <2> QED BY <1>1, <1>2, <2>2, DiesStands
<1> QED BY <1>1, <1>2 DEF JInv

(* What a commit books has been closed.                                     *)
LEMMA CommitBooks ==
  ASSUME Types, OrderInv, WhereInv, NEW s \in Sessions, NEW f, NEW r, NEW v,
         Commits(s, f, r, v), NEW x, Stands(s, x)
  PROVE  booked'[s] <= closed[s]
<1>1. /\ Listening(s) /\ stream[s] # <<>> /\ f \in Reports /\ f = stream[s][1]
      /\ r = Recalled(ResolvePendingRestore(World(s), Truth(s)), Truth(s))
      /\ r.trade # NoTrade /\ v = InsertRow(r, f.size) /\ v \in Worlds /\ Becomes(s, v)
      /\ r \in Worlds
  BY StreamTypes, HeadTailProperties DEF Commits, Kept
<1>2. PICK d : Ready(s, d)
  BY <1>1, ReadyResult
<1>3. r = d
  <2>1. d \in Worlds /\ NothingToRecall(d) /\ d = ResolvePendingRestore(World(s), Truth(s))
    BY <1>2 DEF Ready
  <2>2. PICK truth : truth = Truth(s)
    OBVIOUS
  <2>3. r = Recalled(d, truth)
    BY <1>1, <2>1, <2>2
  <2> QED BY <2>1, <2>3, RecalledResult DEF NothingToRecall
<1>4. StandsAt(regime, r, x)
  BY <1>1, <1>2, <1>3, ReadyStands
<1>5. r.booked <= x.c /\ x.pos # Flat
  BY <1>1, <1>4, FieldTypes, PosOfTrade DEF StandsAt
<1>6. PICK e : e = End(s)
  OBVIOUS
<1>7. regime = "crash"
  BY DEF Commits, Dies
<1>8. /\ Ordered("crash", stream[s], journal[s].lastClose, orders)
      /\ Reaches("crash", stream[s], journal[s].lastClose, x, e)
  BY <1>6, <1>7 DEF OrderInv, Stands
<1>9. x.c + f.size <= e.c
  BY <1>1, <1>5, <1>8, StreamTypes, CrashStream
<1>10. e.c = closed[s] /\ x.c \in Nat /\ closed[s] \in Nat
  BY <1>6, StandsTypes
<1>11. /\ v.booked = r.booked + Least(f.size, r.trade.size) /\ r.booked \in Nat
       /\ f.size \in Nat /\ r.trade.size \in Nat
  <2>1. f.size \in Nat \ {0} /\ r.trade.size \in Nat /\ r.booked \in Nat
    BY <1>1, ReportType, FieldTypes, Absent, Bounds
  <2> QED BY <1>1, <2>1, InsertResult
<1>12. Least(f.size, r.trade.size) <= f.size /\ Least(f.size, r.trade.size) \in Nat
  BY <1>11 DEF Least
<1>13. v.booked <= closed[s]
  BY <1>5, <1>9, <1>10, <1>11, <1>12
<1> QED BY <1>1, <1>13, BecomesFields, ModeOfSession

LEMMA CommitFile ==
  ASSUME Types, WhereInv, NEW s \in Sessions, NEW f, NEW r, NEW v, Commits(s, f, r, v)
  PROVE  openFile' = openFile \/ openFile' = NoTrade
<1>1. /\ Listening(s) /\ r = Recalled(ResolvePendingRestore(World(s), Truth(s)), Truth(s))
      /\ r.trade # NoTrade /\ v = InsertRow(r, f.size) /\ v \in Worlds /\ Becomes(s, v)
      /\ r \in Worlds /\ f \in Reports
  BY DEF Commits, Kept
<1>2. PICK d : Ready(s, d)
  BY <1>1, ReadyResult
<1>3. r = d
  <2>1. d \in Worlds /\ NothingToRecall(d) /\ d = ResolvePendingRestore(World(s), Truth(s))
    BY <1>2 DEF Ready
  <2>2. PICK truth : truth = Truth(s)
    OBVIOUS
  <2>3. r = Recalled(d, truth)
    BY <1>1, <2>1, <2>2
  <2> QED BY <2>1, <2>3, RecalledResult DEF NothingToRecall
<1>4. f.size \in Nat \ {0}
  BY <1>1, ReportType, Bounds
<1>5. v.file = r.file
  BY <1>1, <1>4, InsertResult
<1>6. openFile' = v.file
  BY <1>1, BecomesFields, ModeOfSession
<1> QED BY <1>2, <1>3, <1>5, <1>6 DEF Ready

LEMMA CommitStands ==
  ASSUME Types, OrderInv, WhereInv, JInv, NEW s \in Sessions, NEW f, NEW r, NEW v,
         Commits(s, f, r, v)
  PROVE  JInv'
<1>1. Dies /\ UNCHANGED <<exchVars, regime, misled>> /\ v \in Worlds /\ Becomes(s, v)
  BY DEF Commits, Kept
<1>2. openFile' = openFile \/ openFile' = NoTrade
  BY CommitFile
<1>3. \A t \in Sessions : t # s => booked'[t] = booked[t]
  BY <1>1, BecomesFields, ModeOfSession
<1>4. ASSUME NEW t \in Sessions, NEW x, Stands(t, x)
      PROVE  \E y : Stands(t, y)'
  <2>1. booked'[t] <= closed[t]
    <3>1. CASE t = s
      <4>1. Stands(s, x)
        BY <1>4, <3>1
      <4>2. booked'[s] <= closed[s]
        BY <4>1, CommitBooks
      <4> QED BY <3>1, <4>2
    <3>2. CASE t # s
      BY <1>3, <1>4, <3>2, StandsTypes
    <3> QED BY <3>1, <3>2
  <2> QED BY <1>1, <1>2, <1>4, <2>1, DiesStands
<1> QED BY <1>1, <1>4 DEF JInv

LEMMA DedupeStands ==
  ASSUME Types, OrderInv, WhereInv, JInv, NEW s \in Sessions, DedupeExpires(s)
  PROVE  JInv'
<1>1. /\ journal' = [journal EXCEPT ![s].lastClose = {}]
      /\ UNCHANGED <<bootVars, exchVars, sync, stream, openFile, booked, regime, misled>>
      /\ stream[s] # <<>> => Head(stream[s]) \notin journal[s].lastClose
  BY DEF DedupeExpires, diskVars
<1>2. /\ journal'[s].trade = journal[s].trade /\ journal'[s].pending = journal[s].pending
      /\ journal'[s].lastClose = {} /\ \A t \in Sessions : t # s => journal'[t] = journal[t]
  BY <1>1, ModeOfSession DEF Types, MemoryTypes, Memories
<1>3. \A t \in Sessions : t # s => SameFor(t)
  BY <1>1, <1>2 DEF SameFor, bootVars, exchVars
<1>4. ASSUME NEW x, Stands(s, x)
      PROVE  Stands(s, x)'
  <2>1. PICK e : e = End(s)
    OBVIOUS
  <2>2. PICK q \in Seq(Reports) : q = stream[s]
    BY StreamTypes
  <2>3. PICK L : L = journal[s].lastClose
    OBVIOUS
  <2>4. PICK g : g = regime
    OBVIOUS
  <2>5. PICK M : M = {}
    OBVIOUS
  <2>6. Reaches(g, q, L, x, e)
    BY <1>4, <2>1, <2>2, <2>3, <2>4 DEF Stands
  <2>7. q # <<>> => (q[1] \in L <=> q[1] \in M)
    BY <1>1, <2>2, <2>3, <2>5, HeadTailProperties
  <2>8. Reaches(g, q, M, x, e)
    BY <2>6, <2>7, ReachForgets
  <2>9. Agree(s, x)'
    BY <1>1, <1>2, <1>4 DEF Stands, Agree, HeldBack, bootVars, exchVars
  <2>10. End(s)' = e
    BY <1>1, <2>1 DEF End, exchVars
  <2> QED BY <1>1, <1>2, <2>2, <2>4, <2>5, <2>8, <2>9, <2>10 DEF Stands
<1>5. s \in misled' \/ \E x : Stands(s, x)'
  BY <1>1, <1>4 DEF JInv
<1> QED BY <1>1, <1>3, <1>5, OthersStand

(* The engine takes the exchange's position, and the session may start.      *)
LEMMA TruthStands ==
  ASSUME Types, JInv, NEW s \in Sessions, up, UNCHANGED <<up, exchVars, stream, regime, misled>>,
         sync' = [sync EXCEPT ![s] = exch[s]],
         \A t \in Sessions : journal'[t] = journal[t] /\ booked'[t] = booked[t],
         \A t \in Sessions : t # s => (t \in started' <=> t \in started)
  PROVE  JInv'
<1>1. /\ sync'[s] = exch[s] /\ \A t \in Sessions : t # s => sync'[t] = sync[t]
  BY DEF Types, SyncTypes
<1>2. \A t \in Sessions : t # s => SameFor(t)
  BY <1>1 DEF SameFor, exchVars
<1>3. ASSUME NEW x, Stands(s, x)
      PROVE  Stands(s, x)'
  BY <1>1, <1>3 DEF Stands, Agree, HeldBack, End, exchVars
<1>4. s \in misled' \/ \E x : Stands(s, x)'
  BY <1>3 DEF JInv
<1>5. misled \subseteq misled'
  OBVIOUS
<1> QED BY <1>2, <1>4, <1>5, OthersStand

LEMMA StartStands ==
  ASSUME Types, JInv, NEW s \in Sessions, Start(s)
  PROVE  JInv'
<1>1. /\ up /\ UNCHANGED <<up, exchVars, stream, regime, misled>>
      /\ sync' = [sync EXCEPT ![s] = exch[s]] /\ started' = started \cup {s}
  BY DEF Start
<1>2. PICK v : Resolves(Legacy, exch[s], v)
  BY ModeOfSession, ResolvesResult DEF Start
<1>3. \A t \in Sessions : journal'[t] = journal[t]
  BY <1>2, BecomesFields, ModeOfSession DEF Resolves
<1>4. booked' = [booked EXCEPT ![Mode(Legacy)] = booked[Mode(Legacy)]]
  BY <1>2, WorldFields DEF Resolves, SameBooks, Becomes
<1>5. \A t \in Sessions : booked'[t] = booked[t]
  BY <1>4, ModeOfSession DEF Types, DiskTypes
<1> QED BY <1>1, <1>3, <1>5, TruthStands

(* A booted journal holds back the trade of the file.                       *)
LEMMA BootStands ==
  ASSUME Types, WhereInv, JInv, Boot
  PROVE  JInv'
<1>1. /\ ~ up /\ up' /\ UNCHANGED <<started, exchVars, stream, openFile, booked, regime, misled>>
      /\ \A t \in Sessions : journal'[t] = FreshJournal(t) /\ Mode(t) = t
  BY ModeOfSession DEF Boot, diskVars
<1>2. ASSUME NEW s \in Sessions, NEW x, Stands(s, x)
      PROVE  Stands(s, x)'
  <2>1. Where(s) /\ Agree(s, x)
    BY <1>2 DEF WhereInv, Stands
  <2>2. /\ stream[s] = <<>> /\ s \notin started /\ regime # "hand"
    BY <1>1, <2>1 DEF Where, Listening
  <2>3. x = End(s) /\ x \in Points /\ x.pos = exch[s]
    BY <1>2, <2>2, StandsTypes
  <2>4. journal'[s] = [trade |-> NoTrade, lastClose |-> {},
                       pending |-> IF openFile.mode = s THEN openFile ELSE NoTrade]
    <3>1. journal'[s] = [trade |-> NoTrade, lastClose |-> {},
                         pending |-> IF openFile.mode = Mode(s) THEN openFile ELSE NoTrade]
      BY <1>1 DEF FreshJournal
    <3>2. Mode(s) = s
      BY <1>1
    <3> QED BY <3>1, <3>2
  <2>5. PICK L : L = journal'[s].lastClose
    OBVIOUS
  <2>6. Reaches(regime, <<>>, L, x, x)
    BY <2>3, ReachesNow
  <2>7. journal'[s].pending # NoTrade
          => exch[s] \in {Flat, Pos(journal'[s].pending)}
    BY <1>1, <2>1, <2>4 DEF Agree
  <2>8. journal'[s].pending # NoTrade => HeldBack(s, x)'
    BY <1>1, <2>2, <2>3, <2>7 DEF HeldBack, exchVars
  <2>9. Agree(s, x)'
    BY <1>1, <2>1, <2>2, <2>4, <2>8 DEF Agree
  <2>10. End(s)' = x
    BY <1>1, <2>3 DEF End, exchVars
  <2> QED BY <1>1, <2>2, <2>5, <2>6, <2>9, <2>10 DEF Stands
<1> QED BY <1>1, <1>2 DEF JInv

LEMMA JInit == Init => JInv
<1>1. SUFFICES ASSUME Init, NEW s \in Sessions PROVE \E x : Stands(s, x)
  BY DEF JInv
<1>2. PICK x : x = [pos |-> Flat, c |-> 0]
  OBVIOUS
<1>3. x \in Points /\ x.pos = Flat /\ x.c = 0
  BY <1>2, Absent DEF Points
<1>4. End(s) = x /\ stream[s] = <<>> /\ up /\ s \in Journals /\ s \in Buckets
  BY <1>1, <1>2, ModeOfSession DEF Init, End
<1>5. PICK L : L = journal[s].lastClose
  OBVIOUS
<1>6. Reaches(regime, <<>>, L, x, x)
  BY <1>3, ReachesNow
<1>7. Agree(s, x)
  BY <1>1, <1>3, <1>4 DEF Init, Agree
<1> QED BY <1>4, <1>5, <1>6, <1>7 DEF Stands

LEMMA JStep ==
  ASSUME Types, OrderInv, WhereInv, JInv, [Next]_vars
  PROVE  JInv'
<1>1. ASSUME UNCHANGED <<bootVars, exchVars, stream, sync, booked, journal, openFile, regime, misled>>
      PROVE  JInv'
  <2>1. \A t \in Sessions : SameFor(t)
    BY <1>1 DEF SameFor, bootVars, exchVars
  <2> QED BY <1>1, <2>1, StandsStill DEF JInv
<1>2. ASSUME NEW s \in Sessions, TradeRoutes(s)
      PROVE  JInv'
  BY <1>1, <1>2 DEF TradeRoutes, Archive, Reset, diskVars
<1>3. ASSUME NEW s \in Sessions, PositionUpdate(s)
      PROVE  JInv'
  <2>1. /\ up /\ UNCHANGED <<up, exchVars, stream, regime, misled, started, journal, booked>>
        /\ sync' = [sync EXCEPT ![s] = exch[s]]
    BY <1>3, ListeningDef DEF PositionUpdate, bootVars, diskVars
  <2> QED BY <2>1, TruthStands
<1>4. UNCHANGED vars => JInv'
  BY <1>1 DEF vars, diskVars
<1> QED BY <1>2, <1>3, <1>4, StepKinds, OrdersStand, DeliversStand, HeartbeatStands,
           DedupeStands, StartStands, CrashStands, CommitStands, BootStands

LEMMA OrderInit == Init => OrderInv
<1>1. SUFFICES ASSUME Init, NEW s \in Sessions
      PROVE  Ordered(regime, stream[s], journal[s].lastClose, orders)
  BY DEF OrderInv
<1>2. stream[s] = <<>> /\ journal[s].lastClose = {}
  BY <1>1, ModeOfSession DEF Init
<1>3. \A L : L = {} => Ordered(regime, <<>>, L, orders)
  BY OrderedNothing
<1> QED BY <1>2, <1>3

LEMMA JHolds == Spec => [](Types /\ OrderInv /\ WhereInv /\ JInv)
<1>1. Init => OrderInv /\ WhereInv /\ JInv
  BY OrderInit, WhereInit, JInit
<1>2. Types /\ OrderInv /\ WhereInv /\ JInv /\ [Next]_vars => (OrderInv /\ WhereInv /\ JInv)'
  BY OrderInvStep, WhereStep, JStep
<1>3. Types /\ OrderInv /\ WhereInv /\ JInv /\ [Next]_vars => Types'
  BY TypesStep
<1> QED BY <1>1, <1>2, <1>3, TypesInit, PTL DEF Spec

(* The journal books no more as closed than the exchange has closed, whatever *)
(* the user stream repeats, whenever the process dies and is started again,   *)
(* in the middle of a close too.                                            *)
THEOREM NoCloseIsBookedTwice == Spec => []BookedOnlyWhatClosed
<1>1. Types /\ OrderInv /\ WhereInv /\ JInv => BookedOnlyWhatClosed
  <2>1. SUFFICES ASSUME Types, JInv, NEW s \in Sessions, s \notin misled
        PROVE  booked[s] <= closed[s]
    BY DEF BookedOnlyWhatClosed
  <2>2. PICK x : Stands(s, x)
    BY <2>1 DEF JInv
  <2>3. /\ booked[s] <= x.c /\ x.c <= closed[s] /\ x.c \in Nat
        /\ closed[s] \in Nat /\ booked[s] \in Nat
    BY <2>1, <2>2, StandsTypes
  <2> QED BY <2>3
<1> QED BY <1>1, JHolds, PTL

-----------------------------------------------------------------------------
(***************************************************************************)
(* One session.  All journals share open_trade.json, so with two sessions   *)
(* the file of one is overwritten by the other, and a crash then loses its   *)
(* open trade.  With one session, a position that no lost report explains is *)
(* in the journal, held back or on its way; and what the journal has, the    *)
(* file has.                                                                *)
(***************************************************************************)
OneSession == \A s, t \in Sessions : s = t

Known(s) ==
  /\ up /\ journal[s].trade # NoTrade => openFile = journal[s].trade
  /\ up /\ journal[s].pending # NoTrade => openFile = journal[s].pending
  /\ ~ up => openFile # NoTrade
  /\ up /\ s \notin started => journal[s].pending # NoTrade
  /\ up /\ s \in started /\ journal[s].trade = NoTrade /\ journal[s].pending = NoTrade
       => stream[s] # <<>>

(* The legacy journal's restore is that of the same file, until a start.     *)
LegacyWaits(s) ==
  LET old == journal[Legacy]
  IN  up /\ old.pending # NoTrade =>
        /\ old.trade = NoTrade /\ s \notin started
        /\ s \notin misled => exch[s] \in {Flat, Pos(old.pending)}

Alone(s) ==
  /\ regime = "crash" /\ s \notin missed \cup misled /\ exch[s] # Flat => Known(s)
  /\ LegacyWaits(s)
  /\ openFile # NoTrade => openFile.mode = s
AloneInv == \A s \in Sessions : Alone(s)

Inv == Types /\ OrderInv /\ WhereInv /\ JInv

LEMMA AloneOrders ==
  ASSUME OneSession, Inv, AloneInv, NEW s \in Sessions,
         OrderOpens(s) \/ OrderCloses(s) \/ OrderTurns(s) \/ OrderAdds(s)
  PROVE  AloneInv'
<1>1. PICK f, n, p : /\ OrderStep(s, f, n) /\ (Listening(s) \/ exch[s] # Flat)
                     /\ exch' = [exch EXCEPT ![s] = p]
  BY OrdersResult DEF Inv
<1>2. /\ up' = up /\ started' = started /\ journal' = journal /\ openFile' = openFile
      /\ regime' = regime /\ regime \in {"crash", "hand"}
  BY <1>1, StreamTypes DEF OrderStep, bootVars, diskVars, Inv
<1>3. Alone(s) /\ Where(s)
  BY DEF AloneInv, Inv, WhereInv
<1>4. misled \subseteq misled' /\ missed \subseteq missed'
      /\ (~ Listening(s) => s \in missed') /\ (Listening(s) => stream'[s] # <<>>)
  <2>1. misled \subseteq misled'
    BY OpensResult, ClosesResult, TurnsResult, AddsResult DEF Inv
  <2>2. missed \subseteq missed' /\ (~ Listening(s) => s \in missed')
    BY <1>1 DEF OrderStep, Sent
  <2>3. ASSUME Listening(s)
        PROVE  stream'[s] # <<>>
    <3>1. PICK w : Appended(w, stream[s], f)
      BY DEF Appended
    <3>2. IF n = 1 THEN stream'[s] = w ELSE Appended(stream'[s], w, f)
      <4>1. Types /\ OrderStep(s, f, n) /\ Listening(s)
        BY <1>1, <2>3 DEF Inv
      <4> QED BY <3>1, <4>1, SentReports
    <3>3. f \in Reports /\ stream[s] \in Seq(Reports)
      BY <1>1, StreamTypes DEF Inv, OrderStep, Sent
    <3>4. w \in Seq(Reports) /\ w # <<>>
      <4>1. PICK q \in Seq(Reports) : q = stream[s]
        BY <3>3
      <4>2. Append(q, f) \in Seq(Reports) /\ Append(q, f) # <<>>
        BY <3>3, AppendProperties
      <4> QED BY <3>1, <4>1, <4>2 DEF Appended
    <3>5. Append(w, f) # <<>>
      BY <3>3, <3>4, AppendProperties
    <3> QED BY <3>2, <3>4, <3>5 DEF Appended
  <2> QED BY <2>1, <2>2, <2>3
<1>5. CASE OrderOpens(s)
  <2>1. /\ Listening(s) /\ exch[s] = Flat /\ up /\ s \in started
        /\ regime = "crash" => stream[s] = <<>> /\ journal[s].pending = NoTrade
    BY <1>5, OpensResult, ListeningDef DEF Inv
  <2>2. ASSUME regime = "crash", s \notin misled
        PROVE  journal[s].trade = NoTrade
    <3>1. PICK x : Stands(s, x)
      BY <2>2 DEF Inv, JInv
    <3>2. x.pos = Flat
      BY <2>1, <2>2, <3>1, StandsTypes DEF Inv
    <3>3. journal[s].trade # NoTrade => x.pos = Pos(journal[s].trade)
      BY <2>1, <3>1 DEF Stands, Agree
    <3> QED BY <3>2, <3>3, StreamTypes, PosOfTrade DEF Inv
  <2>3. regime = "crash" /\ s \notin misled' => Known(s)'
    BY <1>2, <1>4, <2>1, <2>2 DEF Known
  <2>4. LegacyWaits(s)'
    BY <1>2, <1>3, <2>1 DEF Alone, LegacyWaits
  <2>5. Alone(s)'
    BY <1>2, <1>3, <2>3, <2>4 DEF Alone
  <2> QED BY <2>5 DEF AloneInv, OneSession
<1>6. CASE OrderCloses(s) \/ OrderTurns(s) \/ OrderAdds(s)
  <2>1. exch[s] # Flat /\ (regime = "crash" => exch'[s] = Flat)
    <3>1. OrderCloses(s) => exch[s] # Flat /\ (regime = "crash" => exch'[s] = Flat)
      BY ClosesResult DEF Inv, Types, ExchTypes
    <3>2. OrderTurns(s) \/ OrderAdds(s) => exch[s] # Flat /\ regime = "hand"
      BY TurnsResult, AddsResult DEF Inv
    <3> QED BY <1>6, <3>1, <3>2
  <2>2. regime = "hand" => s \in started
    BY <1>3, <2>1 DEF Where
  <2>3. LegacyWaits(s)'
    <3>1. CASE regime = "hand"
      BY <1>2, <1>3, <2>2, <3>1 DEF Alone, LegacyWaits
    <3>2. CASE regime = "crash"
      BY <1>2, <1>3, <2>1, <3>2 DEF Alone, LegacyWaits
    <3> QED BY <1>2, <3>1, <3>2
  <2>4. Alone(s)'
    BY <1>2, <1>3, <2>1, <2>3 DEF Alone
  <2> QED BY <2>4 DEF AloneInv, OneSession
<1> QED BY <1>5, <1>6

(* A journal is written: the position is in it, or on its way.              *)
LEMMA AloneWrites ==
  ASSUME OneSession, Inv, AloneInv, NEW s \in Sessions, NEW v \in Worlds, Becomes(s, v),
         Listening(s), UNCHANGED <<bootVars, exch, regime, missed>>, misled \subseteq misled',
         NEW r, Ready(s, r), v.pending = NoTrade, v.trade # NoTrade => v.trade.mode = s,
         v.file = v.trade \/ (v.file = r.file /\ v.trade = r.trade),
         regime = "crash" /\ s \notin misled' /\ v.trade = NoTrade /\ exch[s] # Flat
           => stream'[s] # <<>>
  PROVE  AloneInv'
<1>1. /\ journal'[s].trade = v.trade /\ journal'[s].pending = NoTrade /\ openFile' = v.file
      /\ journal'[Legacy] = journal[Legacy]
  BY BecomesFields, ModeOfSession DEF Inv
<1>2. /\ up' = up /\ started' = started /\ exch' = exch /\ regime' = regime /\ missed' = missed
      /\ up /\ s \in started
  BY ListeningDef DEF bootVars
<1>3. Alone(s)
  BY DEF AloneInv
<1>4. ASSUME regime = "crash", s \notin missed, s \notin misled', exch[s] # Flat
      PROVE  Known(s)'
  <2>1. Known(s)
    BY <1>3, <1>4 DEF Alone
  <2>2. r.trade # NoTrade => r.file = r.trade
    BY <1>2, <2>1 DEF Known, Ready
  <2>3. v.trade # NoTrade => v.file = v.trade
    BY <2>2
  <2> QED BY <1>1, <1>2, <1>4, <2>3 DEF Known
<1>5. LegacyWaits(s)'
  BY <1>1, <1>2, <1>3 DEF Alone, LegacyWaits
<1>6. v.file # NoTrade => v.file.mode = s
  BY <1>3 DEF Alone, Ready
<1>7. Alone(s)'
  BY <1>1, <1>2, <1>4, <1>5, <1>6 DEF Alone
<1> QED BY <1>7 DEF AloneInv, OneSession

LEMMA AloneDelivers ==
  ASSUME OneSession, Inv, AloneInv, NEW s \in Sessions, NEW f, NEW v, Delivers(s, f, v)
  PROVE  AloneInv'
<1>1. /\ Listening(s) /\ UNCHANGED <<bootVars, exch, regime, missed>> /\ v \in Worlds
      /\ Becomes(s, v) /\ v = HandleTrade(World(s), f, Truth(s)) /\ f \in Reports
      /\ misled' = IF TakenForCopy(s, f) THEN misled \cup {s} ELSE misled
      /\ stream[s] # <<>> /\ f = stream[s][1]
  BY StreamTypes, HeadTailProperties DEF Delivers, Kept, exchVars, Inv
<1>2. PICK r : Ready(s, r)
  BY <1>1, ReadyResult DEF Inv
<1>3. Filed(s, r, v)
  BY <1>1, <1>2, FiledResult, WorldType, ModeOfSession DEF Inv
<1>4. misled \subseteq misled'
  BY <1>1
<1>5. ASSUME regime = "crash", s \notin misled', exch[s] # Flat
      PROVE  v.trade # NoTrade
  <2>1. ~ TakenForCopy(s, f) /\ s \notin misled
    BY <1>1, <1>5
  <2>2. PICK x : Stands(s, x)
    BY <2>1 DEF Inv, JInv
  <2>3. PICK e : e = End(s)
    OBVIOUS
  <2>4. PICK q \in Seq(Reports) : q = stream[s]
    BY StreamTypes DEF Inv
  <2>5. PICK L : L = journal[s].lastClose
    OBVIOUS
  <2>6. PICK m : m = orders
    OBVIOUS
  <2>7. Ordered("crash", q, L, m) /\ Reaches("crash", q, L, x, e) /\ q # <<>> /\ f = q[1]
    BY <1>1, <1>5, <2>2, <2>3, <2>4, <2>5, <2>6 DEF Inv, OrderInv, Stands
  <2>8. f \notin L /\ (x.pos # Flat => e.pos = Flat) /\ (x.pos = Flat => ~ f.reduceOnly)
    BY <2>7, CrashStream
  <2>9. x.pos = Flat /\ ~ f.reduceOnly
    BY <1>5, <2>3, <2>8 DEF End
  <2>10. PICK M : Learns(f, L, M)
    BY DEF Learns
  <2>11. PICK y \in Points : f \notin L => Moves("crash", f, x, y)
    BY <2>7, <2>10, ReachLeft
  <2>12. Opens(f, x, y) /\ Moves("crash", f, x, y)
    BY <2>8, <2>9, <2>11 DEF Moves, Shuts, Turns
  <2>13. PICK w \in Worlds : w = World(s)
    BY WorldType, ModeOfSession DEF Inv
  <2>14. PICK truth : truth = Truth(s)
    OBVIOUS
  <2>15. /\ r \in Worlds /\ r = ResolvePendingRestore(w, truth) /\ r.pending = NoTrade
         /\ NothingToRecall(r) /\ v = HandleTrade(w, f, truth) /\ w.lastClose = L
    BY <1>1, <1>2, <2>5, <2>13, <2>14, WorldFields DEF Ready
  <2>16. StandsAt("crash", r, x) /\ x \in Points
    BY <1>1, <1>2, <1>5, <2>2, ReadyStands, StandsTypes DEF Inv
  <2>17. \A o \in w.lastClose : o.reduceOnly
    BY <2>7, <2>15 DEF Ordered
  <2>18. f \notin w.lastClose
    BY <2>8, <2>15
  <2>19. PICK g \in {"crash", "hand"} : g = "crash"
    OBVIOUS
  <2>20. StandsAt(g, r, x) /\ Moves(g, f, x, y)
    BY <2>12, <2>16, <2>19
  <2> QED BY <1>1, <2>9, <2>12, <2>15, <2>16, <2>17, <2>18, <2>20, JournalFollows
<1>6. /\ v.pending = NoTrade /\ (v.trade # NoTrade => v.trade.mode = s)
      /\ v.file = v.trade \/ (v.file = r.file /\ v.trade = r.trade)
  BY <1>3 DEF Filed
<1> QED BY <1>1, <1>2, <1>4, <1>5, <1>6, AloneWrites

LEMMA AloneHeartbeat ==
  ASSUME OneSession, Inv, AloneInv, NEW s \in Sessions, Heartbeat(s)
  PROVE  AloneInv'
<1>1. /\ Listening(s) /\ UNCHANGED <<bootVars, exch, regime, missed, misled, stream>>
      /\ Becomes(s, ResolvePendingRestore(World(s), Truth(s)))
      /\ journal[s].pending # NoTrade /\ up /\ s \in started
  BY ListeningDef DEF Heartbeat, exchVars
<1>2. PICK r : Ready(s, r)
  BY <1>1, ReadyResult DEF Inv
<1>3. /\ r \in Worlds /\ Becomes(s, r) /\ r.pending = NoTrade
      /\ r.trade # NoTrade => r.trade.mode = s
  BY <1>1, <1>2 DEF Ready
<1>4. ASSUME regime = "crash", s \notin misled', r.trade = NoTrade, exch[s] # Flat
      PROVE  stream'[s] # <<>>
  <2>1. PICK x : Stands(s, x)
    BY <1>1, <1>4 DEF Inv, JInv
  <2>2. HeldBack(s, x)
    BY <1>1, <2>1 DEF Stands, Agree
  <2>3. sync[s].side # journal[s].pending.side
    BY <1>1, <1>2, <1>4 DEF Ready
  <2>4. journal[s].pending \in Trades
    BY StreamTypes DEF Inv
  <2>5. Pos(journal[s].pending).side = journal[s].pending.side
    BY <1>1, <2>4, PosOfTrade
  <2>6. sync[s] = Flat
    BY <1>1, <2>2, <2>3, <2>5 DEF HeldBack
  <2>7. stream[s] # <<>>
    BY <1>1, <1>4, <2>2, <2>6 DEF HeldBack
  <2> QED BY <1>1, <2>7
<1>5. misled \subseteq misled'
  BY <1>1
<1> QED BY <1>1, <1>2, <1>3, <1>4, <1>5, AloneWrites

LEMMA AloneStart ==
  ASSUME OneSession, Inv, AloneInv, NEW s \in Sessions, Start(s)
  PROVE  AloneInv'
<1>1. /\ up /\ s \notin started /\ started' = started \cup {s}
      /\ UNCHANGED <<up, exch, stream, regime, missed, misled>>
  BY DEF Start, exchVars
<1>2. PICK v : Resolves(Legacy, exch[s], v)
  BY ModeOfSession, ResolvesResult DEF Start, Inv
<1>3. Alone(s) /\ Where(s)
  BY DEF AloneInv, Inv, WhereInv
<1>4. PICK w \in Worlds : w = World(Legacy)
  BY WorldType, ModeOfSession DEF Inv
<1>5. PICK truth : truth = exch[s]
  OBVIOUS
<1>6. v = ResolvePendingRestore(w, truth) /\ v \in Worlds /\ Becomes(Legacy, v)
  BY <1>2, <1>4, <1>5 DEF Resolves
<1>7. /\ w.trade = journal[Legacy].trade /\ w.pending = journal[Legacy].pending
      /\ w.file = openFile
  BY <1>4, WorldFields
<1>8. /\ \/ v = w /\ (w.trade # NoTrade \/ w.pending = NoTrade \/ truth = Unknown)
         \/ /\ w.trade = NoTrade /\ w.pending # NoTrade /\ truth.side = w.pending.side
            /\ v.trade = w.pending /\ v.pending = NoTrade /\ v.file = w.file
         \/ /\ w.trade = NoTrade /\ w.pending # NoTrade /\ truth.side # w.pending.side
            /\ v.trade = NoTrade /\ v.pending = NoTrade /\ v.file = NoTrade
  BY <1>6, ResolveResult
<1>9. truth # Unknown
  BY <1>5, StreamTypes, Absent DEF Inv
<1>10. w.pending # NoTrade => w.trade = NoTrade
  BY <1>1, <1>3, <1>7 DEF Alone, LegacyWaits
<1>11. v.pending = NoTrade
  BY <1>8, <1>9, <1>10
<1>12. /\ journal'[s] = journal[s] /\ openFile' = v.file /\ journal'[Legacy].pending = NoTrade
  BY <1>6, <1>11, BecomesFields, ModeOfSession DEF Inv
<1>13. v.file = openFile \/ v.file = NoTrade
  BY <1>7, <1>8
<1>14. ASSUME s \notin misled, exch[s] # Flat
       PROVE  v.file = openFile
  <2>1. w.pending # NoTrade => truth.side = w.pending.side
    <3>1. SUFFICES ASSUME w.pending # NoTrade PROVE truth.side = w.pending.side
      OBVIOUS
    <3>2. truth = Pos(w.pending)
      BY <1>1, <1>3, <1>5, <1>7, <1>14, <3>1 DEF Alone, LegacyWaits
    <3> QED BY <3>1, <3>2, FieldTypes, PosOfTrade
  <2> QED BY <1>7, <1>8, <2>1
<1>15. ASSUME regime = "crash", s \notin missed \cup misled, exch[s] # Flat
       PROVE  Known(s)'
  <2>1. Known(s) /\ journal[s].trade = NoTrade
    BY <1>1, <1>3, <1>15 DEF Alone, Where
  <2>2. openFile' = openFile
    BY <1>12, <1>14, <1>15
  <2> QED BY <1>1, <1>12, <2>1, <2>2 DEF Known
<1>16. LegacyWaits(s)'
  BY <1>12 DEF LegacyWaits
<1>17. Alone(s)'
  BY <1>1, <1>3, <1>12, <1>13, <1>15, <1>16 DEF Alone
<1> QED BY <1>17 DEF AloneInv, OneSession

LEMMA AloneDies ==
  ASSUME OneSession, Inv, AloneInv, Dies, UNCHANGED <<exch, regime, misled>>,
         openFile' = openFile \/ (openFile' = NoTrade /\ \E s \in Sessions : stream[s] # <<>>)
  PROVE  AloneInv'
<1>1. SUFFICES ASSUME NEW s \in Sessions PROVE Alone(s)'
  BY DEF AloneInv
<1>2. Alone(s) /\ Where(s)
  BY DEF AloneInv, Inv, WhereInv
<1>3. up /\ ~ up' /\ missed' = missed \cup {t \in Sessions : stream[t] # <<>>}
  BY DEF Dies
<1>4. ASSUME regime = "crash", s \notin missed' \cup misled, exch[s] # Flat
      PROVE  Known(s)'
  <2>1. stream[s] = <<>> /\ s \notin missed
    BY <1>3, <1>4
  <2>2. Known(s)
    BY <1>2, <1>4, <2>1 DEF Alone
  <2>3. openFile # NoTrade
    <3>1. journal[s].trade # NoTrade \/ journal[s].pending # NoTrade
      BY <1>3, <2>1, <2>2 DEF Known
    <3> QED BY <1>3, <2>2, <3>1 DEF Known
  <2>4. openFile' = openFile
    BY <2>1 DEF OneSession
  <2> QED BY <1>3, <2>3, <2>4 DEF Known
<1>5. LegacyWaits(s)'
  BY <1>3 DEF LegacyWaits
<1> QED BY <1>2, <1>4, <1>5 DEF Alone

LEMMA AloneBoot ==
  ASSUME OneSession, Inv, AloneInv, Boot
  PROVE  AloneInv'
<1>1. SUFFICES ASSUME NEW s \in Sessions PROVE Alone(s)'
  BY DEF AloneInv
<1>2. Alone(s) /\ Where(s)
  BY DEF AloneInv, Inv, WhereInv
<1>3. /\ ~ up /\ up' /\ UNCHANGED <<started, exch, regime, openFile, missed, misled>>
      /\ journal'[s] = FreshJournal(s) /\ Mode(s) = s
      /\ journal'[Legacy] = FreshJournal(Legacy)
  BY ModeOfSession DEF Boot, exchVars, diskVars
<1>4. s \notin started
  BY <1>2, <1>3 DEF Where
<1>5. journal'[s] = [trade |-> NoTrade, lastClose |-> {},
                     pending |-> IF openFile.mode = s THEN openFile ELSE NoTrade]
  <2>1. journal'[s] = [trade |-> NoTrade, lastClose |-> {},
                       pending |-> IF openFile.mode = Mode(s) THEN openFile ELSE NoTrade]
    BY <1>3 DEF FreshJournal
  <2> QED BY <1>3, <2>1
<1>6. journal'[Legacy] = [trade |-> NoTrade, lastClose |-> {},
                          pending |-> IF openFile.mode = Mode(Legacy) THEN openFile ELSE NoTrade]
  BY <1>3 DEF FreshJournal
<1>7. ASSUME regime = "crash", s \notin missed \cup misled, exch[s] # Flat
      PROVE  Known(s)'
  <2>1. openFile # NoTrade /\ openFile.mode = s
    BY <1>2, <1>3, <1>7 DEF Alone, Known
  <2> QED BY <1>3, <1>4, <1>5, <2>1 DEF Known
<1>8. ASSUME s \notin misled, openFile # NoTrade
      PROVE  exch[s] \in {Flat, Pos(openFile)}
  <2>1. PICK x : Stands(s, x)
    BY <1>8 DEF Inv, JInv
  <2>2. openFile.mode = s
    BY <1>2, <1>8 DEF Alone
  <2> QED BY <1>3, <1>8, <2>1, <2>2 DEF Stands, Agree
<1>9. LegacyWaits(s)'
  <2>1. SUFFICES ASSUME journal'[Legacy].pending # NoTrade
                 PROVE  /\ journal'[Legacy].trade = NoTrade /\ s \notin started'
                        /\ s \notin misled' => exch'[s] \in {Flat, Pos(journal'[Legacy].pending)}
    BY DEF LegacyWaits
  <2>2. journal'[Legacy].pending = openFile /\ journal'[Legacy].trade = NoTrade
    BY <1>6, <2>1
  <2> QED BY <1>3, <1>4, <1>8, <2>1, <2>2
<1> QED BY <1>2, <1>3, <1>7, <1>9 DEF Alone

LEMMA AloneInit == Init => AloneInv
<1>1. SUFFICES ASSUME Init, NEW s \in Sessions PROVE Alone(s)
  BY DEF AloneInv
<1>2. exch[s] = Flat /\ openFile = NoTrade /\ journal[Legacy].pending = NoTrade
  BY <1>1, ModeOfSession DEF Init
<1> QED BY <1>2 DEF Alone, LegacyWaits

LEMMA AloneStep ==
  ASSUME OneSession, Inv, AloneInv, [Next]_vars
  PROVE  AloneInv'
<1>1. ASSUME UNCHANGED <<bootVars, exch, stream, openFile, regime, missed, misled>>,
             \A j \in Journals : /\ journal'[j].trade = journal[j].trade
                                 /\ journal'[j].pending = journal[j].pending
      PROVE  AloneInv'
  BY <1>1, ModeOfSession DEF AloneInv, Alone, Known, LegacyWaits, bootVars
<1>2. ASSUME NEW s \in Sessions, DedupeExpires(s)
      PROVE  AloneInv'
  <2>1. /\ journal' = [journal EXCEPT ![s].lastClose = {}]
        /\ UNCHANGED <<bootVars, exch, stream, openFile, regime, missed, misled>>
    BY <1>2 DEF DedupeExpires, exchVars, diskVars
  <2>2. \A j \in Journals : /\ journal'[j].trade = journal[j].trade
                            /\ journal'[j].pending = journal[j].pending
    BY <2>1, ModeOfSession DEF Inv, Types, MemoryTypes, Memories
  <2> QED BY <1>1, <2>1, <2>2
<1>3. ASSUME NEW s \in Sessions, PositionUpdate(s) \/ TradeRoutes(s)
      PROVE  AloneInv'
  BY <1>1, <1>3 DEF PositionUpdate, TradeRoutes, Archive, Reset, exchVars, diskVars
<1>4. Crash => AloneInv'
  BY AloneDies DEF Crash, exchVars, diskVars
<1>5. ASSUME NEW s \in Sessions, NEW f, NEW r, NEW v, Commits(s, f, r, v)
      PROVE  AloneInv'
  <2>1. /\ Dies /\ UNCHANGED <<exch, regime, misled>> /\ stream[s] # <<>>
    BY <1>5 DEF Commits, exchVars
  <2>2. openFile' = openFile \/ openFile' = NoTrade
    BY <1>5, CommitFile DEF Inv
  <2> QED BY <2>1, <2>2, AloneDies
<1>6. UNCHANGED vars => AloneInv'
  BY <1>1 DEF vars, exchVars, diskVars
<1>7. Types
  BY DEF Inv
<1> QED BY <1>2, <1>3, <1>4, <1>5, <1>6, <1>7, StepKinds, AloneOrders, AloneDelivers,
           AloneHeartbeat, AloneStart, AloneBoot

LEMMA InvHolds == Spec => []Inv
<1>1. Types /\ OrderInv /\ WhereInv /\ JInv => Inv
  BY DEF Inv
<1> QED BY <1>1, JHolds, PTL

(* Where a journal has settled, its point is the exchange's.                *)
LEMMA SettledPoint ==
  ASSUME Inv, NEW s \in Sessions, s \notin misled, Settled(s)
  PROVE  /\ journal[s].trade # NoTrade => /\ journal[s].trade.side = exch[s].side
                                          /\ journal[s].trade.size = exch[s].size
         /\ regime = "hand" /\ journal[s].trade = NoTrade => exch[s] = Flat
         /\ up /\ s \in started /\ stream[s] = <<>> /\ journal[s].pending = NoTrade
<1>1. up /\ s \in started /\ stream[s] = <<>> /\ journal[s].pending = NoTrade
  BY ListeningDef DEF Settled
<1>2. PICK x : Stands(s, x)
  BY DEF Inv, JInv
<1>3. x.pos = exch[s]
  BY <1>1, <1>2, StandsTypes DEF Inv
<1>4. journal[s].trade # NoTrade => exch[s] = Pos(journal[s].trade)
  BY <1>1, <1>2, <1>3 DEF Stands, Agree
<1>5. regime = "hand" /\ journal[s].trade = NoTrade => exch[s] = Flat
  BY <1>2, <1>3 DEF Stands, Agree
<1>6. journal[s].trade \in Trades
  BY StreamTypes DEF Inv
<1> QED BY <1>1, <1>4, <1>5, <1>6, PosOfTrade

(* With any number of sessions, an open trade that a journal shows once its  *)
(* reports are handled is the exchange's position: it was not left over by a *)
(* crash, by a copy of a report or by a turn.                               *)
OpenTradesAreReal ==
  \A s \in Sessions \ misled : Settled(s) /\ journal[s].trade # NoTrade =>
    journal[s].trade.side = exch[s].side /\ journal[s].trade.size = exch[s].size

THEOREM AnOpenTradeIsAPosition == Spec => []OpenTradesAreReal
<1>1. Inv => OpenTradesAreReal
  BY SettledPoint DEF OpenTradesAreReal
<1> QED BY <1>1, InvHolds, PTL

(* With one session, the journal also misses no position: after any crashes   *)
(* and restarts it has restored the trade, unless a report was lost.         *)
THEOREM OneJournalAgrees ==
  ASSUME OneSession
  PROVE  Spec => []JournalAgrees
<1>1. Inv /\ AloneInv => JournalAgrees
  <2>1. SUFFICES ASSUME Inv, AloneInv, NEW s \in Sessions, s \notin misled, Settled(s)
        PROVE  LET t == journal[s].trade
               IN  /\ t # NoTrade => t.side = exch[s].side /\ t.size = exch[s].size
                   /\ t = NoTrade /\ exch[s] # Flat => s \in missed
    BY DEF JournalAgrees
  <2>2. ASSUME journal[s].trade = NoTrade, exch[s] # Flat, s \notin missed
        PROVE  FALSE
    <3>1. regime = "crash"
      BY <2>1, <2>2, SettledPoint, StreamTypes DEF Inv
    <3>2. Known(s)
      BY <2>1, <2>2, <3>1 DEF AloneInv, Alone
    <3> QED BY <2>1, <2>2, <3>2, SettledPoint DEF Known
  <2> QED BY <2>1, <2>2, SettledPoint
<1>2. Init => AloneInv
  BY AloneInit
<1>3. Inv /\ AloneInv /\ [Next]_vars => AloneInv'
  BY AloneStep
<1> QED BY <1>1, <1>2, <1>3, InvHolds, PTL DEF Spec
=============================================================================

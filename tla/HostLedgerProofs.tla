-------------------------- MODULE HostLedgerProofs --------------------------
(***************************************************************************)
(* What the writes to the ledger do to its tables, for any accounts, days  *)
(* and amounts.  HostEmulatorProofs and AtmAppProofs rest on these.        *)
(***************************************************************************)
EXTENDS HostLedger, Sums

(* The two writes to the ledger keep it in its type.                       *)
LEMMA LedgerTypes ==
    ASSUME LedgerTypeOK, NEW a \in Accounts, NEW amt \in Amounts, NEW s \in Stans
    PROVE  /\ Debit(a, amt, s) => LedgerTypeOK'
           /\ Credit(a, amt, s) => LedgerTypeOK'
<1> USE LedgerAssumption
<1>1. ASSUME Debit(a, amt, s) PROVE LedgerTypeOK'
  <2>1. [stanNo |-> s, amount |-> amt, status |-> "COMPLETED"] \in Row
    BY DEF Row, Status
  <2>2. rows' \in [Accounts -> [Days -> Seq(Row)]]
    BY <1>1, <2>1 DEF Debit, LedgerTypeOK
  <2> QED
    BY <1>1, <2>2 DEF Debit, LedgerTypeOK
<1>2. ASSUME Credit(a, amt, s) PROVE LedgerTypeOK'
  <2>1. [stanNo |-> s, amount |-> amt, status |-> "REVERSED"] \in Row
    BY DEF Row, Status
  <2>2. ASSUME NEW table \in Seq(Row) PROVE MarkReversed(table, s) \in Seq(Row)
    <3>1. ASSUME NEW row \in Row PROVE [row EXCEPT !.status = "REVERSED"] \in Row
      BY DEF Row, Status
    <3>2. MarkReversed(table, s) \in [1 .. Len(table) -> Row]
      BY <3>1 DEF MarkReversed
    <3> QED
      BY <3>2
  <2>3. rows' \in [Accounts -> [Days -> Seq(Row)]]
    BY <1>2, <2>1, <2>2 DEF Credit, LedgerTypeOK
  <2> QED
    BY <1>2, <2>3 DEF Credit, LedgerTypeOK
<1> QED
  BY <1>1, <1>2

(* Marking a table that has no completed row of the STAN changes nothing.  *)
LEMMA MarkNothing ==
    ASSUME NEW table \in Seq(Row), NEW s,
           \A i \in DOMAIN table : ~(table[i].stanNo = s /\ table[i].status = "COMPLETED")
    PROVE  MarkReversed(table, s) = table
BY DEF MarkReversed

(* Where the completed rows are after a debit.                             *)
LEMMA RowsAfterDebit ==
    ASSUME LedgerTypeOK, NEW a \in Accounts, NEW amt \in Amounts, NEW s \in Stans,
           Debit(a, amt, s)
    PROVE  /\ \A b \in Accounts, e \in Days : \A j \in DOMAIN rows[b][e] :
                 j \in DOMAIN rows'[b][e] /\ rows'[b][e][j] = rows[b][e][j]
           /\ \A b \in Accounts, e \in Days : \A j \in DOMAIN rows'[b][e] :
                 \/ j \in DOMAIN rows[b][e]
                 \/ b = a /\ e = today /\ j = Len(rows[a][today]) + 1
           /\ Len(rows[a][today]) + 1 \in DOMAIN rows'[a][today]
           /\ rows'[a][today][Len(rows[a][today]) + 1] =
                 [stanNo |-> s, amount |-> amt, status |-> "COMPLETED"]
           /\ \A b \in Accounts, e \in Days : b # a \/ e # today => rows'[b][e] = rows[b][e]
<1> DEFINE new == [stanNo |-> s, amount |-> amt, status |-> "COMPLETED"]
<1>1. new \in Row
  BY DEF Row, Status
<1>2. \A b \in Accounts, e \in Days : rows[b][e] \in Seq(Row)
  BY DEF LedgerTypeOK
<1>3. \A b \in Accounts, e \in Days : b # a \/ e # today => rows'[b][e] = rows[b][e]
  BY DEF Debit, LedgerTypeOK
<1>4. rows'[a][today] = Append(rows[a][today], new)
  BY DEF Debit, LedgerTypeOK
<1>5. today \in Days
  BY DEF LedgerTypeOK
<1> HIDE DEF new
<1>6. /\ \A j \in DOMAIN rows[a][today] :
            j \in DOMAIN rows'[a][today] /\ rows'[a][today][j] = rows[a][today][j]
      /\ \A j \in DOMAIN rows'[a][today] :
            j \in DOMAIN rows[a][today] \/ j = Len(rows[a][today]) + 1
      /\ Len(rows[a][today]) + 1 \in DOMAIN rows'[a][today]
      /\ rows'[a][today][Len(rows[a][today]) + 1] = new
  BY <1>1, <1>2, <1>4, <1>5, SMTT(30)
<1> QED
  BY <1>3, <1>5, <1>6 DEF new

(* Where the completed rows are after a credit.                            *)
LEMMA RowsAfterCredit ==
    ASSUME LedgerTypeOK, NEW a \in Accounts, NEW amt \in Amounts, NEW s \in Stans,
           Credit(a, amt, s)
    PROVE  /\ \A b \in Accounts, e \in Days : \A j \in DOMAIN rows[b][e] :
                 /\ j \in DOMAIN rows'[b][e]
                 /\ rows'[b][e][j].stanNo = rows[b][e][j].stanNo
                 /\ rows'[b][e][j].amount = rows[b][e][j].amount
                 /\ rows'[b][e][j].status = "COMPLETED" <=>
                       (rows[b][e][j].status = "COMPLETED" /\ rows[b][e][j].stanNo # s)
           /\ \A b \in Accounts, e \in Days : \A j \in DOMAIN rows'[b][e] :
                 j \notin DOMAIN rows[b][e] =>
                     /\ rows'[b][e][j].stanNo = s /\ rows'[b][e][j].status = "REVERSED"
                     /\ rows'[b][e][j].amount = amt
           /\ \A b \in Accounts, e \in Days :
                 b # a \/ e # today => rows'[b][e] = MarkReversed(rows[b][e], s)
<1> DEFINE new == [stanNo |-> s, amount |-> amt, status |-> "REVERSED"]
<1>1. new \in Row /\ new.stanNo = s /\ new.status = "REVERSED" /\ new.amount = amt
  BY DEF Row, Status
<1>2. ASSUME NEW b \in Accounts, NEW e \in Days
      PROVE  rows[b][e] \in Seq(Row)
  BY DEF LedgerTypeOK
<1>3. ASSUME NEW table \in Seq(Row)
      PROVE  /\ MarkReversed(table, s) \in Seq(Row)
             /\ Len(MarkReversed(table, s)) = Len(table)
             /\ \A j \in DOMAIN table :
                   /\ MarkReversed(table, s)[j].stanNo = table[j].stanNo
                   /\ MarkReversed(table, s)[j].amount = table[j].amount
                   /\ MarkReversed(table, s)[j].status = "COMPLETED" <=>
                         (table[j].status = "COMPLETED" /\ table[j].stanNo # s)
  <2>1. ASSUME NEW row \in Row
        PROVE  /\ [row EXCEPT !.status = "REVERSED"] \in Row
               /\ [row EXCEPT !.status = "REVERSED"].stanNo = row.stanNo
               /\ [row EXCEPT !.status = "REVERSED"].amount = row.amount
               /\ [row EXCEPT !.status = "REVERSED"].status = "REVERSED"
    BY DEF Row, Status
  <2>2. MarkReversed(table, s) \in [1 .. Len(table) -> Row]
    BY <2>1 DEF MarkReversed
  <2>3. ASSUME NEW j \in DOMAIN table
        PROVE  MarkReversed(table, s)[j] =
                  IF table[j].stanNo = s /\ table[j].status = "COMPLETED"
                  THEN [table[j] EXCEPT !.status = "REVERSED"] ELSE table[j]
    BY DEF MarkReversed
  <2>4. \A j \in DOMAIN table : table[j] \in Row
    OBVIOUS
  <2>5. MarkReversed(table, s) \in Seq(Row) /\ Len(MarkReversed(table, s)) = Len(table)
    BY <2>2
  <2>6. ASSUME NEW j \in DOMAIN table
        PROVE  /\ MarkReversed(table, s)[j].stanNo = table[j].stanNo
               /\ MarkReversed(table, s)[j].amount = table[j].amount
               /\ MarkReversed(table, s)[j].status = "COMPLETED" <=>
                     (table[j].status = "COMPLETED" /\ table[j].stanNo # s)
    BY <2>1, <2>3, <2>4
  <2> QED
    BY <2>5, <2>6
<1>4. ASSUME NEW b \in Accounts, NEW e \in Days, b # a \/ e # today
      PROVE  rows'[b][e] = MarkReversed(rows[b][e], s)
  BY <1>4 DEF Credit
<1>5. today \in Days /\ rows'[a][today] = Append(MarkReversed(rows[a][today], s), new)
  BY DEF Credit, LedgerTypeOK
<1> HIDE DEF new
<1>6. /\ \A j \in DOMAIN rows[a][today] :
            /\ j \in DOMAIN rows'[a][today]
            /\ rows'[a][today][j] = MarkReversed(rows[a][today], s)[j]
      /\ \A j \in DOMAIN rows'[a][today] :
            j \notin DOMAIN rows[a][today] => rows'[a][today][j] = new
  BY <1>1, <1>2, <1>3, <1>5
<1>7. ASSUME NEW b \in Accounts, NEW e \in Days, NEW j \in DOMAIN rows[b][e]
      PROVE  /\ j \in DOMAIN rows'[b][e]
             /\ rows'[b][e][j] = MarkReversed(rows[b][e], s)[j]
  <2>1. CASE b # a \/ e # today
    BY <1>2, <1>3, <1>4, <2>1
  <2>2. CASE b = a /\ e = today
    BY <1>6, <2>2
  <2> QED
    BY <2>1, <2>2
<1>8. ASSUME NEW b \in Accounts, NEW e \in Days, NEW j \in DOMAIN rows'[b][e],
             j \notin DOMAIN rows[b][e]
      PROVE  rows'[b][e][j] = new
  <2>1. CASE b # a \/ e # today
    <3>1. DOMAIN rows'[b][e] = DOMAIN rows[b][e]
      BY <1>2, <1>3, <1>4, <2>1
    <3> QED
      BY <1>8, <3>1
  <2>2. CASE b = a /\ e = today
    BY <1>6, <1>8, <2>2
  <2> QED
    BY <2>1, <2>2
<1>9. ASSUME NEW b \in Accounts, NEW e \in Days, NEW j \in DOMAIN rows[b][e]
      PROVE  /\ j \in DOMAIN rows'[b][e]
             /\ rows'[b][e][j].stanNo = rows[b][e][j].stanNo
             /\ rows'[b][e][j].amount = rows[b][e][j].amount
             /\ rows'[b][e][j].status = "COMPLETED" <=>
                   (rows[b][e][j].status = "COMPLETED" /\ rows[b][e][j].stanNo # s)
  BY <1>2, <1>3, <1>7
<1> QED
  BY <1>1, <1>4, <1>8, <1>9

-----------------------------------------------------------------------------
(* No row of the table is of an amount below zero.                         *)
NoneBelowZero(table) == \A i \in DOMAIN table : table[i].amount >= 0

(* What a table counts is an integer, and nothing for an empty one.        *)
LEMMA AmountsCounted ==
    ASSUME NEW table \in Seq(Row)
    PROVE  /\ IsFiniteSet(DOMAIN table)
           /\ DOMAIN CompletedAmounts(table) = DOMAIN table
           /\ \A i \in DOMAIN table :
                 /\ table[i].amount \in Int
                 /\ CompletedAmounts(table)[i] \in Int
                 /\ CompletedAmounts(table)[i] =
                       IF table[i].status = "COMPLETED" THEN table[i].amount ELSE 0
           /\ IntOn(CompletedAmounts(table), DOMAIN table)
           /\ CompletedTotal(table) = SumFunctionOnSet(CompletedAmounts(table), DOMAIN table)
           /\ CompletedTotal(table) \in Int
<1>1. DOMAIN table = 1 .. Len(table) /\ Len(table) \in Nat
  OBVIOUS
<1>2. IsFiniteSet(DOMAIN table)
  BY <1>1, FS_Interval
<1>3. DOMAIN CompletedAmounts(table) = DOMAIN table
  BY DEF CompletedAmounts
<1>4. ASSUME NEW i \in DOMAIN table
      PROVE  /\ table[i].amount \in Int
             /\ CompletedAmounts(table)[i] \in Int
             /\ CompletedAmounts(table)[i] =
                   IF table[i].status = "COMPLETED" THEN table[i].amount ELSE 0
  <2>1. table[i] \in Row
    OBVIOUS
  <2>2. table[i].amount \in Int
    BY <2>1, LedgerAssumption DEF Row
  <2> QED
    BY <2>2 DEF CompletedAmounts
<1>5. CompletedTotal(table) = SumFunctionOnSet(CompletedAmounts(table), DOMAIN table)
  BY <1>3 DEF CompletedTotal, SumFunction
<1>6. SumFunctionOnSet(CompletedAmounts(table), DOMAIN table) \in Int
  BY <1>2, <1>4, SumType DEF IntOn
<1> QED
  BY <1>2, <1>3, <1>4, <1>5, <1>6 DEF IntOn

(* Without an amount below zero the total is none either.                  *)
LEMMA TotalNatural ==
    ASSUME NEW table \in Seq(Row), NoneBelowZero(table)
    PROVE  CompletedTotal(table) \in Nat
<1>1. /\ IsFiniteSet(DOMAIN table)
      /\ CompletedTotal(table) = SumFunctionOnSet(CompletedAmounts(table), DOMAIN table)
      /\ \A i \in DOMAIN table :
            /\ table[i].amount \in Int
            /\ CompletedAmounts(table)[i] =
                  IF table[i].status = "COMPLETED" THEN table[i].amount ELSE 0
  BY AmountsCounted
<1>2. \A i \in DOMAIN table : CompletedAmounts(table)[i] \in Nat
  BY <1>1 DEF NoneBelowZero
<1> QED
  BY <1>1, <1>2, SumNat

LEMMA TotalEmpty == CompletedTotal(<< >>) = 0
<1>1. DOMAIN CompletedAmounts(<< >>) = {}
  BY DEF CompletedAmounts
<1> QED
  BY <1>1, SumEmpty DEF CompletedTotal, SumFunction

(* A new row adds its amount if it is completed.                           *)
LEMMA TotalAppend ==
    ASSUME NEW table \in Seq(Row), NEW row \in Row
    PROVE  CompletedTotal(Append(table, row)) =
              CompletedTotal(table) + (IF row.status = "COMPLETED" THEN row.amount ELSE 0)
<1> DEFINE longer == Append(table, row)
           n == Len(table) + 1
           f == CompletedAmounts(table)
           g == CompletedAmounts(longer)
<1>1. /\ longer \in Seq(Row) /\ DOMAIN longer = DOMAIN table \cup {n} /\ n \notin DOMAIN table
      /\ \A i \in DOMAIN table : longer[i] = table[i]
      /\ longer[n] = row
  OBVIOUS
<1> HIDE DEF longer
<1>2. /\ IntOn(g, DOMAIN longer) /\ IntOn(f, DOMAIN table) /\ IsFiniteSet(DOMAIN table)
      /\ \A i \in DOMAIN table : g[i] = f[i]
      /\ g[n] = IF row.status = "COMPLETED" THEN row.amount ELSE 0
      /\ g[n] \in Int
  BY <1>1, AmountsCounted, ZenonT(40)
<1> HIDE DEF f, g, n
<1>3. SumFunctionOnSet(g, DOMAIN longer) = g[n] + SumFunctionOnSet(g, DOMAIN table)
  <2>1. IntOn(g, DOMAIN table \cup {n})
    BY <1>1, <1>2
  <2>2. SumFunctionOnSet(g, DOMAIN table \cup {n}) = g[n] + SumFunctionOnSet(g, DOMAIN table)
    BY <1>1, <1>2, <2>1, SumAdd
  <2> QED
    BY <1>1, <2>2
<1>4. SumFunctionOnSet(g, DOMAIN table) = SumFunctionOnSet(f, DOMAIN table)
  BY <1>2, SumEqual
<1>5. /\ CompletedTotal(longer) = SumFunctionOnSet(g, DOMAIN longer)
      /\ CompletedTotal(table) = SumFunctionOnSet(f, DOMAIN table)
      /\ CompletedTotal(table) \in Int
  BY <1>1, AmountsCounted DEF f, g
<1>6. CompletedTotal(longer) = CompletedTotal(table) + g[n]
  BY <1>2, <1>3, <1>4, <1>5
<1> QED
  BY <1>2, <1>6 DEF longer

(* The rows of a marked table.                                             *)
LEMMA MarkedRows ==
    ASSUME NEW table \in Seq(Row), NEW s
    PROVE  /\ MarkReversed(table, s) \in Seq(Row)
           /\ DOMAIN MarkReversed(table, s) = DOMAIN table
           /\ \A i \in DOMAIN table :
                 IF table[i].stanNo = s /\ table[i].status = "COMPLETED"
                 THEN MarkReversed(table, s)[i].status = "REVERSED"
                 ELSE MarkReversed(table, s)[i] = table[i]
<1>1. ASSUME NEW row \in Row
      PROVE  /\ [row EXCEPT !.status = "REVERSED"] \in Row
             /\ [row EXCEPT !.status = "REVERSED"].status = "REVERSED"
  BY DEF Row, Status
<1>2. MarkReversed(table, s) \in [1 .. Len(table) -> Row]
  BY <1>1 DEF MarkReversed
<1>3. ASSUME NEW i \in DOMAIN table
      PROVE  MarkReversed(table, s)[i] =
                IF table[i].stanNo = s /\ table[i].status = "COMPLETED"
                THEN [table[i] EXCEPT !.status = "REVERSED"] ELSE table[i]
  BY DEF MarkReversed
<1>4. \A i \in DOMAIN table : table[i] \in Row
  OBVIOUS
<1>5. MarkReversed(table, s) \in Seq(Row) /\ DOMAIN MarkReversed(table, s) = DOMAIN table
  BY <1>2
<1>6. ASSUME NEW i \in DOMAIN table
      PROVE  IF table[i].stanNo = s /\ table[i].status = "COMPLETED"
             THEN MarkReversed(table, s)[i].status = "REVERSED"
             ELSE MarkReversed(table, s)[i] = table[i]
  <2>1. [table[i] EXCEPT !.status = "REVERSED"].status = "REVERSED"
    BY <1>1, <1>4
  <2>2. CASE table[i].stanNo = s /\ table[i].status = "COMPLETED"
    BY <1>3, <2>1, <2>2
  <2>3. CASE ~ (table[i].stanNo = s /\ table[i].status = "COMPLETED")
    BY <1>3, <2>3
  <2> QED
    BY <2>2, <2>3
<1> QED
  BY <1>5, <1>6

(* Marking rows without an amount below zero never adds to the total, and  *)
(* marking takes the amount of the one completed row of the STAN out of it. *)
LEMMA TotalMarked ==
    ASSUME NEW table \in Seq(Row), NEW s
    PROVE  /\ NoneBelowZero(table) =>
                 CompletedTotal(MarkReversed(table, s)) <= CompletedTotal(table)
           /\ \A i \in DOMAIN table :
                 /\ table[i].stanNo = s /\ table[i].status = "COMPLETED"
                 /\ \A j \in DOMAIN table :
                       table[j].stanNo = s /\ table[j].status = "COMPLETED" => j = i
                 => CompletedTotal(MarkReversed(table, s)) =
                       CompletedTotal(table) - table[i].amount
<1> DEFINE marked == MarkReversed(table, s)
           f == CompletedAmounts(table)
           g == CompletedAmounts(marked)
<1>1. /\ marked \in Seq(Row) /\ DOMAIN marked = DOMAIN table
      /\ \A i \in DOMAIN table :
            IF table[i].stanNo = s /\ table[i].status = "COMPLETED"
            THEN marked[i].status = "REVERSED" ELSE marked[i] = table[i]
  BY MarkedRows
<1> HIDE DEF marked
<1>2. /\ IsFiniteSet(DOMAIN table) /\ IntOn(f, DOMAIN table) /\ IntOn(g, DOMAIN table)
      /\ \A i \in DOMAIN table :
            /\ f[i] = IF table[i].status = "COMPLETED" THEN table[i].amount ELSE 0
            /\ g[i] = IF marked[i].status = "COMPLETED" THEN marked[i].amount ELSE 0
            /\ table[i].amount \in Int
      /\ CompletedTotal(table) = SumFunctionOnSet(f, DOMAIN table)
      /\ CompletedTotal(marked) = SumFunctionOnSet(g, DOMAIN table)
      /\ CompletedTotal(table) \in Int
  BY <1>1, AmountsCounted
<1> HIDE DEF f, g
<1>4. ASSUME NoneBelowZero(table) PROVE CompletedTotal(marked) <= CompletedTotal(table)
  <2>1. \A i \in DOMAIN table : g[i] <= f[i]
    BY <1>1, <1>2, <1>4 DEF NoneBelowZero
  <2> QED
    BY <1>2, <2>1, SumLeq
<1>5. ASSUME NEW i \in DOMAIN table, table[i].stanNo = s, table[i].status = "COMPLETED",
             \A j \in DOMAIN table :
                table[j].stanNo = s /\ table[j].status = "COMPLETED" => j = i
      PROVE  CompletedTotal(marked) = CompletedTotal(table) - table[i].amount
  <2>1. \A j \in DOMAIN table \ {i} : f[j] = g[j]
    BY <1>1, <1>2, <1>5
  <2>2. f[i] = table[i].amount /\ g[i] = 0 /\ f[i] \in Int
    BY <1>1, <1>2, <1>5
  <2>3. SumFunctionOnSet(g, DOMAIN table) = SumFunctionOnSet(f, DOMAIN table) - f[i] + g[i]
    BY <1>2, <2>1, SumChange
  <2> QED
    BY <1>2, <2>2, <2>3
<1> QED
  BY <1>4, <1>5 DEF marked

-----------------------------------------------------------------------------
(* Withdrawn is a sum of totals over the days.                             *)
DayTotals(tables) == [d \in Days |-> CompletedTotal(tables[d])]

LEMMA TotalsCounted ==
    ASSUME NEW tables \in [Days -> Seq(Row)]
    PROVE  /\ IsFiniteSet(Days)
           /\ \A d \in Days : /\ DayTotals(tables)[d] = CompletedTotal(tables[d])
                              /\ DayTotals(tables)[d] \in Int
           /\ IntOn(DayTotals(tables), Days)
           /\ SumFunction(DayTotals(tables)) = SumFunctionOnSet(DayTotals(tables), Days)
           /\ SumFunction(DayTotals(tables)) \in Int
<1>1. IsFiniteSet(Days)
  BY FS_Interval, LedgerAssumption DEF Days
<1>2. ASSUME NEW d \in Days
      PROVE  DayTotals(tables)[d] = CompletedTotal(tables[d]) /\ DayTotals(tables)[d] \in Int
  BY AmountsCounted DEF DayTotals
<1>3. SumFunction(DayTotals(tables)) = SumFunctionOnSet(DayTotals(tables), Days)
  <2>1. DOMAIN DayTotals(tables) = Days
    BY DEF DayTotals
  <2> QED
    BY <2>1 DEF SumFunction
<1>4. SumFunctionOnSet(DayTotals(tables), Days) \in Int
  BY <1>1, <1>2, SumType DEF IntOn
<1> QED
  BY <1>1, <1>2, <1>3, <1>4 DEF IntOn

(* When the total of one day changes, Withdrawn changes by as much.        *)
LEMMA WithdrawnChange ==
    ASSUME LedgerTypeOK, LedgerTypeOK', NEW a \in Accounts, NEW d \in Days,
           \A e \in Days \ {d} : CompletedTotal(rows'[a][e]) = CompletedTotal(rows[a][e])
    PROVE  /\ Withdrawn(a) \in Int
           /\ Withdrawn(a)' = Withdrawn(a) - CompletedTotal(rows[a][d])
                                           + CompletedTotal(rows'[a][d])
<1> DEFINE f == DayTotals(rows[a])
           g == DayTotals(rows'[a])
<1>1. rows[a] \in [Days -> Seq(Row)] /\ rows'[a] \in [Days -> Seq(Row)]
  BY DEF LedgerTypeOK
<1>2. /\ Withdrawn(a) = SumFunction(f)
      /\ Withdrawn(a)' = SumFunction(g)
  BY DEF Withdrawn, DayTotals
<1>3. /\ IsFiniteSet(Days) /\ IntOn(f, Days) /\ SumFunction(f) = SumFunctionOnSet(f, Days)
      /\ \A e \in Days : f[e] = CompletedTotal(rows[a][e])
      /\ SumFunction(f) \in Int
  BY <1>1, TotalsCounted
<1>4. /\ IntOn(g, Days) /\ SumFunction(g) = SumFunctionOnSet(g, Days)
      /\ \A e \in Days : g[e] = CompletedTotal(rows'[a][e])
  BY <1>1, TotalsCounted
<1> HIDE DEF f, g
<1>5. \A e \in Days \ {d} : f[e] = g[e]
  BY <1>3, <1>4
<1>6. SumFunctionOnSet(g, Days) = SumFunctionOnSet(f, Days) - f[d] + g[d]
  BY <1>3, <1>4, <1>5, SumChange
<1> QED
  BY <1>2, <1>3, <1>4, <1>6

(* An approval adds its amount to what its account has withdrawn.          *)
LEMMA WithdrawnDebit ==
    ASSUME LedgerTypeOK, NEW a \in Accounts, NEW amt \in Amounts, NEW s \in Stans,
           Debit(a, amt, s), NEW b \in Accounts
    PROVE  /\ Withdrawn(b) \in Int
           /\ Withdrawn(b)' = Withdrawn(b) + (IF b = a THEN amt ELSE 0)
<1> DEFINE new == [stanNo |-> s, amount |-> amt, status |-> "COMPLETED"]
<1>1. /\ LedgerTypeOK' /\ today \in Days /\ new \in Row /\ new.status = "COMPLETED"
      /\ new.amount = amt /\ amt \in Int
      /\ \A c \in Accounts, e \in Days : rows[c][e] \in Seq(Row)
  BY LedgerTypes, LedgerAssumption DEF LedgerTypeOK, Row, Status
<1>2. \A e \in Days : b # a \/ e # today => rows'[b][e] = rows[b][e]
  BY RowsAfterDebit
<1>3. rows'[a][today] = Append(rows[a][today], new)
  BY DEF Debit, LedgerTypeOK
<1> HIDE DEF new
<1>4. /\ CompletedTotal(rows'[a][today]) = CompletedTotal(rows[a][today]) + amt
      /\ \A e \in Days : CompletedTotal(rows[b][e]) \in Int
  BY <1>1, <1>3, TotalAppend, AmountsCounted
<1>5. \A e \in Days \ {today} : CompletedTotal(rows'[b][e]) = CompletedTotal(rows[b][e])
  BY <1>2
<1>6. /\ Withdrawn(b) \in Int
      /\ Withdrawn(b)' = Withdrawn(b) - CompletedTotal(rows[b][today])
                                       + CompletedTotal(rows'[b][today])
  BY <1>1, <1>5, WithdrawnChange
<1> QED
  BY <1>1, <1>2, <1>4, <1>6

(* What a reversal leaves of the totals: never more than there was, where  *)
(* no amount is below zero.                                                *)
LEMMA TotalsCredit ==
    ASSUME LedgerTypeOK, NEW a \in Accounts, NEW amt \in Amounts, NEW s \in Stans,
           Credit(a, amt, s), NEW b \in Accounts, NEW e \in Days
    PROVE  /\ CompletedTotal(rows[b][e]) \in Int /\ CompletedTotal(rows'[b][e]) \in Int
           /\ CompletedTotal(rows'[b][e]) = CompletedTotal(MarkReversed(rows[b][e], s))
           /\ NoneBelowZero(rows[b][e]) =>
                 CompletedTotal(rows'[b][e]) <= CompletedTotal(rows[b][e])
<1> DEFINE new == [stanNo |-> s, amount |-> amt, status |-> "REVERSED"]
           marked == MarkReversed(rows[b][e], s)
<1>1. new \in Row /\ new.status # "COMPLETED" /\ rows[b][e] \in Seq(Row) /\ amt \in Int
  BY LedgerAssumption DEF LedgerTypeOK, Row, Status
<1>2. rows'[b][e] = IF b = a /\ e = today THEN Append(marked, new) ELSE marked
  BY DEF Credit
<1>3. /\ marked \in Seq(Row)
      /\ NoneBelowZero(rows[b][e]) => CompletedTotal(marked) <= CompletedTotal(rows[b][e])
  BY <1>1, MarkedRows, TotalMarked
<1> HIDE DEF new, marked
<1>4. CompletedTotal(marked) \in Int /\ CompletedTotal(rows[b][e]) \in Int
  BY <1>1, <1>3, AmountsCounted
<1>5. CompletedTotal(Append(marked, new)) = CompletedTotal(marked)
  BY <1>1, <1>3, <1>4, TotalAppend
<1>6. CompletedTotal(rows'[b][e]) = CompletedTotal(marked)
  BY <1>2, <1>5
<1> QED
  BY <1>3, <1>4, <1>6 DEF marked

(* A reversal takes its amount out of what its account has withdrawn.      *)
LEMMA WithdrawnReverse ==
    ASSUME LedgerTypeOK, NEW a \in Accounts, NEW amt \in Amounts, NEW s \in Stans,
           ReverseWithdrawal(a, amt, s), NEW b \in Accounts
    PROVE  /\ Withdrawn(b) \in Int
           /\ Withdrawn(b)' = Withdrawn(b) - (IF b = a THEN amt ELSE 0)
<1>1. /\ LedgerTypeOK' /\ amt \in Int /\ Credit(a, amt, s)
      /\ \A c \in Accounts, e \in Days : rows[c][e] \in Seq(Row)
  BY LedgerTypes, LedgerAssumption DEF LedgerTypeOK, ReverseWithdrawal
<1>0. PICK d \in Days : \E i \in DOMAIN rows[a][d] :
         /\ CompletedAt(a, d, i, s)
         /\ rows[a][d][i].amount = amt
         /\ \A c \in Accounts, e \in Days : \A j \in DOMAIN rows[c][e] :
               CompletedAt(c, e, j, s) => c = a /\ e = d /\ j = i
  BY DEF ReverseWithdrawal, OutstandingOnce
<1>2. PICK i \in DOMAIN rows[a][d] :
         /\ CompletedAt(a, d, i, s)
         /\ rows[a][d][i].amount = amt
         /\ \A c \in Accounts, e \in Days : \A j \in DOMAIN rows[c][e] :
               CompletedAt(c, e, j, s) => c = a /\ e = d /\ j = i
  BY <1>0
<1>3. ASSUME NEW c \in Accounts, NEW e \in Days
      PROVE  /\ CompletedTotal(rows[c][e]) \in Int
             /\ CompletedTotal(rows'[c][e]) = CompletedTotal(MarkReversed(rows[c][e], s))
  BY <1>1, TotalsCredit
<1>4. ASSUME NEW c \in Accounts, NEW e \in Days, c # a \/ e # d
      PROVE  CompletedTotal(rows'[c][e]) = CompletedTotal(rows[c][e])
  <2>1. \A j \in DOMAIN rows[c][e] :
           ~(rows[c][e][j].stanNo = s /\ rows[c][e][j].status = "COMPLETED")
    BY <1>2, <1>4 DEF CompletedAt
  <2>2. MarkReversed(rows[c][e], s) = rows[c][e]
    BY <1>1, <2>1, MarkNothing
  <2> QED
    BY <1>3, <2>2
<1>5. CompletedTotal(rows'[a][d]) = CompletedTotal(rows[a][d]) - amt
  <2>1. /\ rows[a][d][i].stanNo = s /\ rows[a][d][i].status = "COMPLETED"
        /\ \A j \in DOMAIN rows[a][d] :
              rows[a][d][j].stanNo = s /\ rows[a][d][j].status = "COMPLETED" => j = i
    BY <1>2 DEF CompletedAt
  <2>2. CompletedTotal(MarkReversed(rows[a][d], s)) = CompletedTotal(rows[a][d]) - rows[a][d][i].amount
    BY <1>1, <1>2, <2>1, TotalMarked
  <2> QED
    BY <1>2, <1>3, <2>2
<1>6. /\ Withdrawn(b) \in Int
      /\ Withdrawn(b)' = Withdrawn(b) - CompletedTotal(rows[b][d]) + CompletedTotal(rows'[b][d])
  BY <1>1, <1>4, WithdrawnChange
<1> QED
  BY <1>1, <1>3, <1>4, <1>5, <1>6

-----------------------------------------------------------------------------
(***************************************************************************)
(* The books balance: what is missing from an account is what its          *)
(* completed rows say was withdrawn from it.                               *)
(***************************************************************************)
BooksBalance == \A a \in Accounts : balance[a] + Withdrawn(a) = InitialBalance[a]

LEMMA BooksInit == LedgerInit => LedgerTypeOK /\ BooksBalance
<1> SUFFICES ASSUME LedgerInit PROVE LedgerTypeOK /\ BooksBalance
    OBVIOUS
<1>1. LedgerTypeOK
  BY LedgerAssumption DEF LedgerInit, LedgerTypeOK, Days
<1>2. ASSUME NEW a \in Accounts PROVE balance[a] + Withdrawn(a) = InitialBalance[a]
  <2> DEFINE f == DayTotals(rows[a])
  <2>1. /\ Withdrawn(a) = SumFunction(f)
        /\ \A e \in Days : rows[a][e] = << >>
    BY DEF Withdrawn, DayTotals, LedgerInit
  <2>2. /\ IsFiniteSet(Days) /\ IntOn(f, Days) /\ SumFunction(f) = SumFunctionOnSet(f, Days)
        /\ \A e \in Days : f[e] = CompletedTotal(rows[a][e])
    BY <1>1, TotalsCounted DEF LedgerTypeOK
  <2> HIDE DEF f
  <2>3. \A e \in Days : f[e] = 0
    BY <2>1, <2>2, TotalEmpty
  <2>4. SumFunctionOnSet(f, Days) = 0
    BY <2>2, <2>3, SumZero
  <2> QED
    BY <2>1, <2>2, <2>4, LedgerAssumption DEF LedgerInit
<1> QED
  BY <1>1, <1>2 DEF BooksBalance

LEMMA BooksStep ==
    ASSUME LedgerTypeOK, BooksBalance, [LedgerNext]_ledgerVars
    PROVE  LedgerTypeOK' /\ BooksBalance'
<1> USE LedgerAssumption
<1>1. ASSUME NEW a \in Accounts, NEW amt \in Amounts, NEW s \in Stans, Approve(a, amt, s)
      PROVE  LedgerTypeOK' /\ BooksBalance'
  <2>1. Debit(a, amt, s) /\ LedgerTypeOK' /\ amt \in Int
    BY <1>1, LedgerTypes DEF Approve
  <2>2. ASSUME NEW b \in Accounts PROVE balance'[b] + Withdrawn(b)' = InitialBalance[b]
    <3>1. Withdrawn(b) \in Int /\ Withdrawn(b)' = Withdrawn(b) + (IF b = a THEN amt ELSE 0)
      BY <2>1, WithdrawnDebit
    <3>2. balance[b] \in Int /\ balance'[b] = balance[b] - (IF b = a THEN amt ELSE 0)
      BY <2>1 DEF Debit, LedgerTypeOK
    <3>3. balance[b] + Withdrawn(b) = InitialBalance[b]
      BY DEF BooksBalance
    <3> QED
      BY <2>1, <3>1, <3>2, <3>3
  <2> QED
    BY <2>1, <2>2 DEF BooksBalance
<1>2. ASSUME NEW a \in Accounts, NEW amt \in Amounts, NEW s \in Stans,
             ReverseWithdrawal(a, amt, s)
      PROVE  LedgerTypeOK' /\ BooksBalance'
  <2>1. Credit(a, amt, s) /\ LedgerTypeOK' /\ amt \in Int
    BY <1>2, LedgerTypes DEF ReverseWithdrawal
  <2>2. ASSUME NEW b \in Accounts PROVE balance'[b] + Withdrawn(b)' = InitialBalance[b]
    <3>1. Withdrawn(b) \in Int /\ Withdrawn(b)' = Withdrawn(b) - (IF b = a THEN amt ELSE 0)
      BY <1>2, WithdrawnReverse
    <3>2. balance[b] \in Int /\ balance'[b] = balance[b] + (IF b = a THEN amt ELSE 0)
      BY <2>1 DEF Credit, LedgerTypeOK
    <3>3. balance[b] + Withdrawn(b) = InitialBalance[b]
      BY DEF BooksBalance
    <3> QED
      BY <2>1, <3>1, <3>2, <3>3
  <2> QED
    BY <2>1, <2>2 DEF BooksBalance
<1>3. CASE UNCHANGED <<balance, rows>> /\ today' \in Days
  BY <1>3 DEF BooksBalance, LedgerTypeOK, Withdrawn
<1>4. CASE Midnight
  BY <1>3, <1>4 DEF Midnight, LedgerTypeOK, Days
<1>5. CASE UNCHANGED ledgerVars
  BY <1>3, <1>5 DEF ledgerVars, LedgerTypeOK
<1> QED
  BY <1>1, <1>2, <1>4, <1>5 DEF LedgerNext

(***************************************************************************)
(* The atomic ledger keeps its books: for every account, its balance and   *)
(* the amounts of its completed withdrawals, over all days, add up to what *)
(* it was opened with.                                                     *)
(***************************************************************************)
THEOREM LedgerBooksBalance == LedgerSpec => []BooksBalance
<1>1. LedgerTypeOK /\ BooksBalance /\ [LedgerNext]_ledgerVars => (LedgerTypeOK /\ BooksBalance)'
  BY BooksStep
<1> QED
  BY <1>1, BooksInit, PTL DEF LedgerSpec

=============================================================================

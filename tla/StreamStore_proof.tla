-------------------------- MODULE StreamStore_proof --------------------------
(***************************************************************************)
(* Theorems about the window's projection of a run, for every run, page    *)
(* size, number of attempts, of failing queries and of reloads: what is    *)
(* shown is in order, no stored event is skipped, and no restore goes back.*)
(*                                                                         *)
(* The argument follows the rows from the ledger into the projection: a    *)
(* page holds every stored event of its range (GoodPage), a reader has     *)
(* collected every stored event between the cursor it started from and the *)
(* one it has reached (GoodReader), and so the suffix that it applies      *)
(* leaves no stored event behind the new cursor (NothingSkipped).          *)
(***************************************************************************)
EXTENDS StreamStore, FiniteSetTheorems, WellFoundedInduction, TLAPS

Numbers == 0..Len(log)
Marks == Nat \cup {NoMark}
Pages == [rows : SUBSET Nat, high : Marks, more : BOOLEAN, seen : Nat]
Statuses == {"none", "open", "active", "suspended", "terminal"}
Streams == [present : BOOLEAN, bound : BOOLEAN, streaming : BOOLEAN, last : Nat,
            pending : SUBSET Nat, timer : BOOLEAN, visible : BOOLEAN]
ReaderStates ==
    [pc : {"idle", "runs", "page", "delay", "project"}, cursor : Nat, mark : Marks,
     live : Nat, attempt : Nat, rows : SUBSET Nat, status : Statuses, page : Pages,
     got : BOOLEAN, generation : Generations, bound : BOOLEAN, seen : Nat, after : Nat,
     present : BOOLEAN, streaming : BOOLEAN]
Queries == [cursor : Nat, mark : Marks, read : BOOLEAN, page : Pages]

(* The rows hold every stored event above "low" up to "high".              *)
Complete(rows, low, high) == \A n \in Durable : low < n /\ n <= high => n \in rows

(* What a page of the ledger tells about the range it was asked for.       *)
GoodPage(page, cursor, mark) ==
    /\ page \in Pages /\ page.rows \subseteq 1..Len(log)
    /\ page.high \in Numbers /\ page.seen \in Numbers
    /\ mark # NoMark => page.high = mark
    /\ \A n \in page.rows : cursor < n /\ n <= page.high
    /\ Complete(page.rows, cursor,
                IF page.more THEN Highest({cursor} \cup page.rows) ELSE page.high)
    /\ mark = NoMark => \A n \in Durable : n <= page.seen => n <= page.high

GoodQuery(q) ==
    /\ q \in Queries /\ q.cursor \in Numbers /\ q.mark \in Numbers \cup {NoMark}
    /\ q.read => GoodPage(q.page, q.cursor, q.mark)

(* What a reader remembers across its awaits.                              *)
GoodReader(r) ==
    /\ r \in ReaderStates /\ r.cursor \in Numbers /\ r.after \in Numbers
    /\ r.rows \subseteq 1..Len(log) /\ r.page.rows \subseteq 1..Len(log)
    /\ r.seen \in Numbers
    /\ r.mark # NoMark => \A n \in Durable : n <= r.seen => n <= r.mark
    /\ r.attempt < MaxAttempts
    /\ r.pc = "delay" => r.attempt + 1 < MaxAttempts
    /\ r.pc \in {"runs", "page"} =>
            /\ Complete(r.rows, r.after, r.cursor)
            /\ \A n \in r.rows : n <= r.cursor
    /\ r.got => r.pc = "page" /\ GoodPage(r.page, r.cursor, r.mark)

(* Hydration reads from the first event on, and is admitted only when it   *)
(* has read as far as the projection had got.                              *)
GoodHydration(r) ==
    /\ r.pc = "page" => r.after = 0
    /\ r.pc = "project" => /\ Complete(r.rows, 0, Highest(r.rows))
                           /\ r.after <= Highest(r.rows)

ReadersGood(rs) ==
    /\ DOMAIN rs = Readers
    /\ \A p \in Readers : GoodReader(rs[p])
    /\ GoodHydration(rs["hydration"])
QueriesGood(qs) == \A q \in qs : GoodQuery(q)

(* The projection's cursor and buffer keep within the run.                 *)
GoodStream(s) ==
    /\ s \in Streams /\ s.last \in Numbers /\ s.pending \subseteq 1..Len(log)
    /\ ~s.present => s.last = 0

TypedInv ==
    /\ log \in Seq(Kinds) /\ wire \subseteq 1..Len(log)
    /\ launching \in BOOLEAN /\ late \in BOOLEAN
    /\ runsQuery \in Statuses

WindowInv == GoodStream(stream) /\ ReadersGood(reader) /\ QueriesGood(queries)

(* Nothing follows the end of the run.                                     *)
EndIsLast == \A n \in 1..Len(log) : IsTerminal(log[n]) => n = Len(log)

(* The cursor is ahead of everything shown.                                *)
ShownBelow == \A i \in 1..Len(shown) : 0 < shown[i] /\ shown[i] <= stream.last

ShownInv == shown \in Seq(Nat) /\ ShownInOrder /\ ShownBelow

StoreInv ==
    TypedInv /\ WindowInv /\ EndIsLast /\ ShownInv /\ NothingSkippedInTime


----------------------------------------------------------------------------
(*                       Numbers and finite sets                           *)

(* A non-empty set of numbers has a least member.                          *)
LEMMA LeastNumber ==
    ASSUME NEW S \in SUBSET Nat, S # {}
    PROVE  \E x \in S : \A y \in S : x <= y
  <1> DEFINE R == OpToRel(<, Nat)
  <1>1. IsWellFoundedOn(R, Nat)
      BY NatLessThanWellFounded
  <1>2. PICK x \in S : \A y \in S : ~(<<y, x>> \in R)
      BY <1>1, WFMin
  <1>3. ASSUME NEW y \in S PROVE x <= y
    <2>1. y < x => <<y, x>> \in R
        BY DEF OpToRel
    <2>2. x \in Nat /\ y \in Nat /\ ~(y < x)
        BY <1>2, <2>1
    <2> QED
        BY <2>2
  <1> QED
      BY <1>3

(* Induction over the numbers, for a set.                                  *)
LEMMA SetInduction ==
    ASSUME NEW S, 0 \in S, \A n \in Nat : n \in S => n + 1 \in S
    PROVE  \A n \in Nat : n \in S
  <1> DEFINE Rest == {n \in Nat : n \notin S}
  <1> SUFFICES ASSUME Rest # {} PROVE FALSE
      OBVIOUS
  <1>1. PICK x \in Rest : \A y \in Rest : x <= y
      BY LeastNumber
  <1>2. x - 1 \in Nat /\ ~(x <= x - 1) /\ (x - 1) + 1 = x
      BY <1>1
  <1> QED
      BY <1>1, <1>2

(* A bounded set of numbers has a greatest member, and Max finds it.       *)
LEMMA MaxOf ==
    ASSUME NEW n \in Nat, NEW S \in SUBSET (0..n), S # {}
    PROVE  Max(S) \in S /\ (\A y \in S : y <= Max(S)) /\ Max(S) \in 0..n
  <1> DEFINE T == {m \in 0..n : \A y \in S : y <= m}
  <1>0. T \in SUBSET Nat /\ n \in T
      OBVIOUS
  <1>1. PICK m \in T : \A k \in T : m <= k
    <2> HIDE DEF T
    <2> QED
        BY <1>0, LeastNumber
  <1>2. m \in 0..n /\ \A y \in S : y \in 0..n /\ y <= m
      BY <1>1
  <1>3. ASSUME m \notin S PROVE FALSE
    <2>1. PICK y \in S : TRUE
        OBVIOUS
    <2>2. m # 0
        BY <1>2, <1>3, <2>1
    <2>3. \A z \in S : z <= m - 1
        BY <1>2, <1>3
    <2>4. m - 1 \in T
        BY <1>2, <2>2, <2>3
    <2> QED
        BY <1>1, <1>2, <2>4
  <1>4. \E x \in S : \A y \in S : x >= y
      BY <1>2, <1>3
  <1>5. Max(S) \in S /\ \A y \in S : Max(S) >= y
      BY <1>4 DEF Max
  <1>6. Max(S) \in 0..n /\ \A y \in S : y \in 0..n /\ Max(S) >= y
      BY <1>5
  <1> QED
      BY <1>5, <1>6

LEMMA HighestOf ==
    ASSUME NEW n \in Nat, NEW S \in SUBSET (0..n)
    PROVE  /\ Highest(S) \in 0..n
           /\ Highest(S) \in S \/ Highest(S) = 0
           /\ \A y \in S : y <= Highest(S)
  <1> DEFINE T == S \cup {0}
  <1>1. T \in SUBSET (0..n) /\ T # {}
      OBVIOUS
  <1>2. Max(T) \in T /\ (\A y \in T : y <= Max(T)) /\ Max(T) \in 0..n
    <2> HIDE DEF T
    <2> QED
        BY <1>1, MaxOf
  <1> QED
      BY <1>2 DEF Highest

(* The greater of two numbers.                                             *)
LEMMA MaxOfTwo ==
    ASSUME NEW a \in Nat, NEW b \in Nat
    PROVE  /\ Max({a, b}) \in {a, b} /\ Max({a, b}) \in Nat
           /\ a <= Max({a, b}) /\ b <= Max({a, b})
  <1>1. CASE a <= b
    <2>1. b \in Nat /\ {a, b} \in SUBSET (0..b) /\ {a, b} # {}
        BY <1>1
    <2> QED
        BY <2>1, MaxOf
  <1>2. CASE b <= a
    <2>1. a \in Nat /\ {a, b} \in SUBSET (0..a) /\ {a, b} # {}
        BY <1>2
    <2> QED
        BY <2>1, MaxOf
  <1> QED
      BY <1>1, <1>2

(* A bounded set of numbers can be listed in order.                        *)
Listings(S) ==
    {q \in Surjection(1..Cardinality(S), S) :
        \A i, j \in DOMAIN q : i < j => q[i] < q[j]}

LEMMA BoundedIsFinite ==
    ASSUME NEW n \in Nat, NEW S \in SUBSET (0..n)
    PROVE  IsFiniteSet(S) /\ Cardinality(S) \in Nat
  <1>1. IsFiniteSet(0..n)
      BY FS_Interval
  <1> QED
      BY <1>1, FS_Subset, FS_CardinalityType

LEMMA ListingExists ==
    ASSUME NEW n \in Nat, NEW S \in SUBSET (0..n)
    PROVE  Listings(S) # {}
  <1> DEFINE Good == {m \in Nat : \A T \in SUBSET (0..m) : Listings(T) # {}}
  <1>1. ASSUME NEW m \in Nat, NEW T \in SUBSET (0..m), NEW x \in Nat, x > m,
               Listings(T) # {}
        PROVE  Listings(T \cup {x}) # {}
    <2>1. PICK q \in Listings(T) : TRUE
        BY <1>1
    <2> DEFINE c == Cardinality(T)
               U == T \cup {x}
               r == [i \in 1..c+1 |-> IF i = c + 1 THEN x ELSE q[i]]
    <2>2. IsFiniteSet(T) /\ c \in Nat /\ x \notin T
      <3>1. x \notin 0..m
          BY <1>1
      <3> QED
          BY <3>1, BoundedIsFinite
    <2>3. Cardinality(U) = c + 1
        BY <2>2, FS_AddElement
    <2>4. /\ q \in [1..c -> T] /\ \A t \in T : \E s \in 1..c : q[s] = t
          /\ \A i, j \in 1..c : i < j => q[i] < q[j]
        BY <2>1 DEF Listings, Surjection
    <2> HIDE DEF c
    <2>5. r \in [1..c+1 -> U]
        BY <2>2, <2>4
    <2>6. ASSUME NEW t \in U PROVE \E s \in 1..c+1 : r[s] = t
      <3>1. CASE t = x
          BY <2>2, <3>1
      <3>2. CASE t \in T
        <4>1. PICK s \in 1..c : q[s] = t
            BY <2>4, <3>2
        <4>2. s \in 1..c+1 /\ s # c + 1
            BY <2>2
        <4> QED
            BY <4>1, <4>2
      <3> QED
          BY <3>1, <3>2
    <2>7. ASSUME NEW i \in 1..c+1, NEW j \in 1..c+1, i < j PROVE r[i] < r[j]
      <3>0. i \in 1..c /\ i # c + 1
          BY <2>2, <2>7
      <3>1. i \in 1..c /\ r[i] = q[i] /\ q[i] \in 0..m
          BY <2>4, <3>0
      <3>2. CASE j = c + 1
          BY <1>1, <3>1, <3>2
      <3>3. CASE j # c + 1
          BY <2>2, <2>4, <2>7, <3>1, <3>3
      <3> QED
          BY <3>2, <3>3
    <2>8. r \in Listings(U)
        BY <2>3, <2>5, <2>6, <2>7 DEF Listings, Surjection
    <2> QED
        BY <2>8
  <1>2. Listings({}) # {}
    <2> DEFINE e == [i \in 1..0 |-> 0]
    <2>1. Cardinality({}) = 0
        BY FS_EmptySet
    <2>2. e \in [1..0 -> {}] /\ DOMAIN e = 1..0
        OBVIOUS
    <2>3. e \in Listings({})
        BY <2>1, <2>2 DEF Listings, Surjection
    <2> QED
        BY <2>3
  <1>3. 0 \in Good
    <2>1. ASSUME NEW T \in SUBSET (0..0) PROVE Listings(T) # {}
      <3>1. T = {} \/ T = {0}
        <4>1. \A y \in T : y = 0
            OBVIOUS
        <4> QED
            BY <4>1
      <3>2. Listings({0}) # {}
        <4> DEFINE e == [i \in 1..1 |-> 0]
        <4>1. Cardinality({0}) = 1
            BY FS_Singleton
        <4>2. e \in Listings({0})
            BY <4>1 DEF Listings, Surjection
        <4> QED
            BY <4>2
      <3> QED
          BY <1>2, <3>1, <3>2
    <2> QED
        BY <2>1
  <1>4. ASSUME NEW m \in Nat, m \in Good PROVE m + 1 \in Good
    <2>1. ASSUME NEW T \in SUBSET (0..m+1) PROVE Listings(T) # {}
      <3> DEFINE V == T \ {m + 1}
      <3>1. V \in SUBSET (0..m)
          OBVIOUS
      <3>2. Listings(V) # {}
          BY <1>4, <3>1
      <3>3. CASE m + 1 \in T
        <4>1. V \cup {m + 1} = T
            BY <3>3
        <4>2. m + 1 \in Nat /\ m + 1 > m
            OBVIOUS
        <4> HIDE DEF V
        <4>3. Listings(V \cup {m + 1}) # {}
            BY <1>1, <3>1, <3>2, <4>2
        <4> QED
            BY <4>1, <4>3
      <3>4. CASE m + 1 \notin T
        <4>1. V = T
            BY <3>4
        <4> QED
            BY <3>2, <4>1
      <3> QED
          BY <3>3, <3>4
    <2> QED
        BY <2>1
  <1>5. \A m \in Nat : m \in Good
    <2> HIDE DEF Good
    <2> QED
        BY <1>3, <1>4, SetInduction
  <1> QED
      BY <1>5

(* InOrder lists the events of a set in the order of their numbers.        *)
LEMMA InOrderLists ==
    ASSUME NEW n \in Nat, NEW S \in SUBSET (0..n)
    PROVE  /\ InOrder(S) \in Seq(S)
           /\ \A t \in S : \E i \in 1..Len(InOrder(S)) : InOrder(S)[i] = t
           /\ \A i, j \in 1..Len(InOrder(S)) : i < j => InOrder(S)[i] < InOrder(S)[j]
  <1>1. \E q \in Surjection(1..Cardinality(S), S) :
            \A i, j \in DOMAIN q : i < j => q[i] < q[j]
      BY ListingExists DEF Listings
  <1>2. PICK q : q = InOrder(S)
      OBVIOUS
  <1>3. q \in Surjection(1..Cardinality(S), S) /\ \A i, j \in DOMAIN q : i < j => q[i] < q[j]
      BY <1>1, <1>2 DEF InOrder
  <1>4. Cardinality(S) \in Nat
      BY BoundedIsFinite
  <1>5. q \in [1..Cardinality(S) -> S] /\ \A t \in S : \E i \in 1..Cardinality(S) : q[i] = t
      BY <1>3 DEF Surjection
  <1>6. q \in Seq(S) /\ Len(q) = Cardinality(S)
      BY <1>4, <1>5
  <1> QED
      BY <1>2, <1>3, <1>5, <1>6

----------------------------------------------------------------------------
(*                       Pages of the ledger                               *)

(* The first rows of a page leave none out.                                *)
LEMMA FirstRowsLeaveNoneOut ==
    ASSUME NEW k \in Nat, NEW S \in SUBSET (0..k), NEW n \in FirstRows(S), NEW m \in S, m < n
    PROVE  m \in FirstRows(S)
  <1> DEFINE Below(x) == {y \in S : y < x}
  <1>1. n \in S /\ Cardinality(Below(n)) < PageSize
      BY DEF FirstRows
  <1>2. Below(m) \subseteq Below(n)
    <2>1. ASSUME NEW y \in S, y < m PROVE y < n
      <3>1. y \in Nat /\ m \in Nat /\ n \in Nat
          BY <1>1
      <3> QED
          BY <2>1, <3>1
    <2> QED
        BY <2>1
  <1>3. Below(n) \in SUBSET (0..k) /\ Below(m) \in SUBSET (0..k)
      OBVIOUS
  <1> HIDE DEF Below
  <1>4. /\ IsFiniteSet(Below(n)) /\ Cardinality(Below(n)) \in Nat
        /\ Cardinality(Below(m)) \in Nat
      BY <1>3, BoundedIsFinite
  <1>5. Cardinality(Below(m)) <= Cardinality(Below(n))
      BY <1>2, <1>4, FS_Subset
  <1>6. Cardinality(Below(m)) < PageSize
      BY <1>1, <1>4, <1>5, StreamAssumption
  <1> QED
      BY <1>6 DEF FirstRows, Below

(* list_agent_run_event_page: the page of a range holds every stored event *)
(* up to its last row, and all of them if it says that there are no more.  *)
LEMMA PageAfterIsGood ==
    ASSUME log \in Seq(Kinds), NEW cursor \in Numbers, NEW mark \in Numbers \cup {NoMark}
    PROVE  GoodPage(PageAfter(cursor, mark), cursor, mark)
  <1> DEFINE high == IF mark = NoMark THEN Highest(Durable) ELSE mark
             rows == {n \in Durable : cursor < n /\ n <= high}
             page == PageAfter(cursor, mark)
             top == Highest({cursor} \cup FirstRows(rows))
  <1>0. /\ Len(log) \in Nat /\ Durable \in SUBSET (0..Len(log)) /\ DOMAIN log = 1..Len(log)
        /\ Durable \subseteq 1..Len(log)
      BY DEF Durable
  <1>1. /\ Highest(Durable) \in 0..Len(log) /\ \A n \in Durable : n <= Highest(Durable)
      BY <1>0, HighestOf
  <1>2. high \in Numbers
      BY <1>1 DEF Numbers, NoMark
  <1>3. rows \in SUBSET (0..Len(log)) /\ FirstRows(rows) \subseteq rows
        /\ FirstRows(rows) \subseteq 1..Len(log)
      BY <1>0 DEF FirstRows
  <1>4. page = [rows |-> FirstRows(rows), high |-> high, more |-> FirstRows(rows) # rows,
                seen |-> Len(log)]
      BY DEF PageAfter
  <1>5. page \in Pages
    <2>1. FirstRows(rows) \in SUBSET Nat /\ high \in Marks /\ Len(log) \in Nat
        BY <1>0, <1>2, <1>3 DEF Marks, Numbers
    <2> QED
        BY <1>4, <2>1 DEF Pages
  <1>6. \A n \in page.rows : cursor < n /\ n <= page.high
      BY <1>3, <1>4
  <1>7. Complete(FirstRows(rows), cursor, top)
    <2>1. SUFFICES ASSUME NEW n \in Durable, cursor < n, n <= top PROVE n \in FirstRows(rows)
        BY DEF Complete
    <2>2. {cursor} \cup FirstRows(rows) \in SUBSET (0..Len(log))
        BY <1>3 DEF Numbers
    <2>3. top \in 0..Len(log) /\ (top \in {cursor} \cup FirstRows(rows) \/ top = 0)
        BY <1>0, <2>2, HighestOf
    <2>4. n \in Nat /\ cursor \in Nat /\ top \in Nat
        BY <1>0, <2>3 DEF Numbers
    <2>5. top \in FirstRows(rows)
        BY <2>1, <2>3, <2>4
    <2>6. n \in rows
      <3>1. top <= high
          BY <1>3, <2>5
      <3>2. high \in Nat
          BY <1>2 DEF Numbers
      <3> QED
          BY <2>1, <2>4, <3>1, <3>2
    <2>7. CASE n = top
        BY <2>5, <2>7
    <2>8. CASE n < top
      <3> HIDE DEF rows, top
      <3> QED
          BY <1>0, <1>3, <2>5, <2>6, <2>8, FirstRowsLeaveNoneOut
    <2> QED
        BY <2>1, <2>4, <2>7, <2>8
  <1>8. FirstRows(rows) = rows => Complete(FirstRows(rows), cursor, high)
      BY DEF Complete
  <1>9. mark = NoMark => \A n \in Durable : n <= page.seen => n <= page.high
      BY <1>1, <1>4
  <1>10. mark # NoMark => page.high = mark
      BY <1>4
  <1>11. page.rows = FirstRows(rows) /\ page.high = high /\ page.seen = Len(log)
         /\ page.more = (FirstRows(rows) # rows)
      BY <1>4
  <1>12. Complete(page.rows, cursor,
                  IF page.more THEN Highest({cursor} \cup page.rows) ELSE page.high)
    <2>1. CASE page.more
        BY <1>7, <1>11, <2>1
    <2>2. CASE ~page.more
        BY <1>8, <1>11, <2>2
    <2> QED
        BY <2>1, <2>2
  <1>13. page.seen \in Numbers
      BY <1>0, <1>11 DEF Numbers
  <1>14. page.rows \subseteq 1..Len(log) /\ page.high \in Numbers
      BY <1>2, <1>3, <1>11
  <1> HIDE DEF page
  <1>15. GoodPage(page, cursor, mark)
      BY <1>5, <1>6, <1>9, <1>10, <1>12, <1>13, <1>14 DEF GoodPage
  <1> QED
      BY <1>15 DEF page

(* A page stays good while the ledger grows: what is stored later has a    *)
(* higher number than everything the page speaks about.                    *)
LEMMA GrownLog ==
    ASSUME log \in Seq(Kinds), NEW k \in Kinds, log' = Append(log, k)
    PROVE  /\ log' \in Seq(Kinds) /\ Len(log') = Len(log) + 1 /\ Len(log) \in Nat
           /\ \A n \in Durable' : n <= Len(log) => n \in Durable
           /\ Numbers \subseteq Numbers' /\ 1..Len(log) \subseteq 1..Len(log')
           /\ Durable \subseteq Durable'
           /\ Durable \subseteq 1..Len(log) /\ Durable' \subseteq 1..Len(log')
  <1>1. log' \in Seq(Kinds) /\ Len(log') = Len(log) + 1 /\ Len(log) \in Nat
      OBVIOUS
  <1>2. \A n \in 1..Len(log) : log'[n] = log[n]
      OBVIOUS
  <1>3. DOMAIN log = 1..Len(log) /\ DOMAIN log' = 1..Len(log')
      BY <1>1
  <1>4. ASSUME NEW n \in Durable', n <= Len(log) PROVE n \in Durable
      BY <1>1, <1>2, <1>3, <1>4 DEF Durable
  <1>5. Durable \subseteq Durable' /\ Durable \subseteq 1..Len(log)
        /\ Durable' \subseteq 1..Len(log')
      BY <1>1, <1>2, <1>3 DEF Durable
  <1> QED
      BY <1>1, <1>4, <1>5 DEF Numbers

LEMMA CompleteGrows ==
    ASSUME log \in Seq(Kinds), NEW k \in Kinds, log' = Append(log, k),
           NEW rows, NEW low, NEW high \in Numbers, Complete(rows, low, high)
    PROVE  Complete(rows, low, high)'
  <1>1. SUFFICES ASSUME NEW n \in Durable', low < n, n <= high PROVE n \in rows
      BY DEF Complete
  <1>2. n \in Nat /\ high \in Nat /\ high <= Len(log) /\ Len(log) \in Nat
      BY GrownLog DEF Numbers
  <1>3. n \in Durable
      BY <1>1, <1>2, GrownLog
  <1> QED
      BY <1>1, <1>3 DEF Complete

LEMMA GoodPageGrows ==
    ASSUME log \in Seq(Kinds), NEW k \in Kinds, log' = Append(log, k),
           NEW page, NEW cursor \in Numbers, NEW mark, GoodPage(page, cursor, mark)
    PROVE  GoodPage(page, cursor, mark)'
  <1>1. PICK high : high = IF page.more THEN Highest({cursor} \cup page.rows) ELSE page.high
      OBVIOUS
  <1>2. {cursor} \cup page.rows \in SUBSET (0..Len(log)) /\ Len(log) \in Nat
      BY GrownLog DEF GoodPage, Numbers
  <1>3. high \in Numbers
      BY <1>1, <1>2, HighestOf DEF GoodPage, Numbers
  <1>4. Complete(page.rows, cursor, high)'
    <2>1. Complete(page.rows, cursor, high)
        BY <1>1 DEF GoodPage
    <2> QED
        BY <1>3, <2>1, CompleteGrows
  <1>5. mark = NoMark => \A n \in Durable' : n <= page.seen => n <= page.high
    <2>1. SUFFICES ASSUME mark = NoMark, NEW n \in Durable', n <= page.seen
                   PROVE  n <= page.high
        OBVIOUS
    <2>2. n \in Nat /\ page.seen \in Nat /\ page.seen <= Len(log) /\ Len(log) \in Nat
        BY GrownLog DEF GoodPage, Numbers
    <2>3. n \in Durable
        BY <2>1, <2>2, GrownLog
    <2> QED
        BY <2>1, <2>3 DEF GoodPage
  <1>6. /\ page.rows \subseteq 1..Len(log') /\ page.high \in Numbers' /\ page.seen \in Numbers'
      BY GrownLog DEF GoodPage
  <1> QED
      BY <1>1, <1>4, <1>5, <1>6 DEF GoodPage

LEMMA GoodQueryGrows ==
    ASSUME log \in Seq(Kinds), NEW k \in Kinds, log' = Append(log, k),
           NEW q, GoodQuery(q)
    PROVE  GoodQuery(q)'
  <1>1. q.read => GoodPage(q.page, q.cursor, q.mark)'
      BY GoodPageGrows DEF GoodQuery
  <1>2. q.cursor \in Numbers' /\ q.mark \in Numbers' \cup {NoMark}
      BY GrownLog DEF GoodQuery
  <1> QED
      BY <1>1, <1>2 DEF GoodQuery

LEMMA GoodReaderGrows ==
    ASSUME log \in Seq(Kinds), NEW k \in Kinds, log' = Append(log, k),
           NEW r, GoodReader(r)
    PROVE  GoodReader(r)'
  <1>1. r.pc = "page" /\ r.got => GoodPage(r.page, r.cursor, r.mark)'
      BY GoodPageGrows DEF GoodReader
  <1>2. r.pc \in {"runs", "page"} => Complete(r.rows, r.after, r.cursor)'
      BY CompleteGrows DEF GoodReader
  <1>3. r.mark # NoMark => \A n \in Durable' : n <= r.seen => n <= r.mark
    <2>1. SUFFICES ASSUME r.mark # NoMark, NEW n \in Durable', n <= r.seen
                   PROVE  n <= r.mark
        OBVIOUS
    <2>2. n \in Nat /\ r.seen \in Nat /\ r.seen <= Len(log) /\ Len(log) \in Nat
        BY GrownLog DEF GoodReader, Numbers
    <2>3. n \in Durable
        BY <2>1, <2>2, GrownLog
    <2> QED
        BY <2>1, <2>3 DEF GoodReader
  <1>4. /\ r.cursor \in Numbers' /\ r.after \in Numbers' /\ r.seen \in Numbers'
        /\ r.rows \subseteq 1..Len(log') /\ r.page.rows \subseteq 1..Len(log')
      BY GrownLog DEF GoodReader
  <1> QED
      BY <1>1, <1>2, <1>3, <1>4 DEF GoodReader

LEMMA GoodHydrationGrows ==
    ASSUME log \in Seq(Kinds), NEW k \in Kinds, log' = Append(log, k),
           NEW r, GoodReader(r), GoodHydration(r)
    PROVE  GoodHydration(r)'
  <1>1. r.rows \in SUBSET (0..Len(log)) /\ Len(log) \in Nat
      BY GrownLog DEF GoodReader
  <1>2. Highest(r.rows) \in Numbers
      BY <1>1, HighestOf DEF Numbers
  <1>3. r.pc = "project" => Complete(r.rows, 0, Highest(r.rows))'
    <2>1. PICK high \in Numbers : high = Highest(r.rows)
        BY <1>2
    <2> QED
        BY <2>1, CompleteGrows DEF GoodHydration
  <1> QED
      BY <1>3 DEF GoodHydration

(* All of these speak of the ledger only.                                  *)
LEMMA SameLog ==
    ASSUME UNCHANGED log
    PROVE  /\ Durable' = Durable /\ Numbers' = Numbers
           /\ \A q : GoodQuery(q)' = GoodQuery(q)
           /\ \A r : GoodReader(r)' = GoodReader(r)
           /\ \A r : GoodHydration(r)' = GoodHydration(r)
  <1>1. Durable' = Durable /\ Numbers' = Numbers /\ Len(log') = Len(log)
      BY DEF Durable, Numbers
  <1>2. \A rows, low, high : Complete(rows, low, high)' = Complete(rows, low, high)
      BY <1>1 DEF Complete
  <1>3. \A page, cursor, mark : GoodPage(page, cursor, mark)' = GoodPage(page, cursor, mark)
      BY <1>1, <1>2 DEF GoodPage
  <1> QED
      BY <1>1, <1>2, <1>3 DEF GoodQuery, GoodReader, GoodHydration

----------------------------------------------------------------------------
(*                       What readers remember                             *)

LEMMA GoodIdle ==
    ASSUME log \in Seq(Kinds)
    PROVE  GoodReader(Idle) /\ GoodHydration(Idle)
  <1>1. Len(log) \in Nat /\ 0 \in Numbers /\ NoMark \in Marks
      BY DEF Numbers, Marks
  <1>2. NoPage \in Pages /\ NoPage.rows = {}
      BY <1>1 DEF NoPage, Pages
  <1>3. Idle \in ReaderStates
      BY <1>1, <1>2 DEF Idle, ReaderStates, Statuses, Generations
  <1>4. /\ Idle.pc = "idle" /\ Idle.cursor = 0 /\ Idle.after = 0 /\ Idle.seen = 0
        /\ Idle.rows = {} /\ Idle.page.rows = {} /\ Idle.attempt = 0 /\ Idle.mark = NoMark
        /\ Idle.got = FALSE
      BY <1>2 DEF Idle
  <1> QED
      BY <1>1, <1>3, <1>4, StreamAssumption DEF GoodReader, GoodHydration

(* An attempt begins with what is buffered at that moment.                 *)
LEMMA LiveIsNumber ==
    ASSUME log \in Seq(Kinds), NEW s, s.pending \subseteq 1..Len(log), NEW after \in Numbers
    PROVE  LiveThrough(s, after) \in Nat
  <1>1. Len(log) \in Nat /\ s.pending \in SUBSET (0..Len(log)) /\ after \in Nat
      BY DEF Numbers
  <1>2. s.pending # {} => Max(s.pending) \in Nat
      BY <1>1, MaxOf
  <1> QED
      BY <1>1, <1>2 DEF LiveThrough

LEMMA GoodAttempt ==
    ASSUME log \in Seq(Kinds), NEW s, s.pending \subseteq 1..Len(log),
           NEW n \in Nat, n < MaxAttempts, NEW after \in Numbers
    PROVE  GoodReader(Attempt(s, n, after))
  <1> DEFINE r == Attempt(s, n, after)
  <1>0. Idle \in ReaderStates /\ Idle.rows = {} /\ Idle.page.rows = {} /\ Idle.seen = 0
        /\ Idle.mark = NoMark /\ Idle.got = FALSE
      BY GoodIdle DEF GoodReader, Idle, NoPage
  <1>1. LiveThrough(s, after) \in Nat /\ after \in Nat /\ 0 \in Numbers
      BY LiveIsNumber DEF Numbers
  <1>2. r \in ReaderStates
      BY <1>0, <1>1 DEF Attempt, ReaderStates
  <1>3. /\ r.pc = "page" /\ r.cursor = after /\ r.after = after /\ r.attempt = n
        /\ r.rows = {} /\ r.page.rows = {} /\ r.seen = 0 /\ r.mark = NoMark /\ r.got = FALSE
      BY <1>0 DEF Attempt, ReaderStates
  <1>4. Complete({}, after, after)
    <2>1. \A m \in Durable : m \in Nat
        BY DEF Durable
    <2> QED
        BY <1>1, <2>1 DEF Complete
  <1> HIDE DEF r
  <1>5. GoodReader(r)
      BY <1>1, <1>2, <1>3, <1>4 DEF GoodReader
  <1> QED
      BY <1>5 DEF r

(* A new generation of the watchdog.                                       *)
LEMMA GoodRenewed ==
    ASSUME NEW r, GoodReader(r), NEW g \in Generations
    PROVE  GoodReader([r EXCEPT !.generation = g])
  <1> DEFINE t == [r EXCEPT !.generation = g]
  <1>1. r \in ReaderStates
      BY DEF GoodReader
  <1>2. t \in ReaderStates
      BY <1>1 DEF ReaderStates
  <1>3. /\ t.pc = r.pc /\ t.cursor = r.cursor /\ t.after = r.after /\ t.rows = r.rows
        /\ t.page = r.page /\ t.seen = r.seen /\ t.mark = r.mark /\ t.attempt = r.attempt
        /\ t.got = r.got
      BY <1>1 DEF ReaderStates
  <1> HIDE DEF t
  <1>4. GoodReader(t)
      BY <1>2, <1>3 DEF GoodReader
  <1> QED
      BY <1>4 DEF t

(* The answer of a query that several readers wait for.                    *)
LEMMA GoodGot ==
    ASSUME NEW r, GoodReader(r), r.pc = "page", NEW page, GoodPage(page, r.cursor, r.mark)
    PROVE  /\ GoodReader([r EXCEPT !.page = page, !.got = TRUE])
           /\ GoodHydration(r) => GoodHydration([r EXCEPT !.page = page, !.got = TRUE])
  <1> DEFINE t == [r EXCEPT !.page = page, !.got = TRUE]
  <1>1. r \in ReaderStates /\ page \in Pages /\ page.rows \subseteq 1..Len(log)
      BY DEF GoodReader, GoodPage
  <1>2. t \in ReaderStates
      BY <1>1 DEF ReaderStates
  <1>3. /\ t.pc = r.pc /\ t.cursor = r.cursor /\ t.after = r.after /\ t.rows = r.rows
        /\ t.page = page /\ t.seen = r.seen /\ t.mark = r.mark /\ t.attempt = r.attempt
      BY <1>1 DEF ReaderStates
  <1> HIDE DEF t
  <1>4. GoodReader(t)
      BY <1>1, <1>2, <1>3 DEF GoodReader
  <1>5. GoodHydration(r) => GoodHydration(t)
      BY <1>3 DEF GoodHydration
  <1> QED
      BY <1>4, <1>5 DEF t

(* The page of a reader ends within the ledger.                            *)
LEMMA PageEndIsNumber ==
    ASSUME log \in Seq(Kinds), NEW r, r.cursor \in Numbers,
           NEW page, page.rows \subseteq 1..Len(log)
    PROVE  /\ PageEnd(r, page) \in Numbers /\ r.cursor <= PageEnd(r, page)
           /\ \A n \in page.rows : n <= PageEnd(r, page)
  <1>1. Len(log) \in Nat /\ {r.cursor} \cup page.rows \in SUBSET (0..Len(log))
      BY DEF Numbers
  <1> QED
      BY <1>1, HighestOf DEF PageEnd, Numbers

(* What the first page vouches for.                                        *)
LEMMA MarkVouches ==
    ASSUME NEW r, GoodReader(r), NEW page, GoodPage(page, r.cursor, r.mark)
    PROVE  /\ FirstSeen(r, page) \in Numbers
           /\ \A n \in Durable : n <= FirstSeen(r, page) => n <= page.high
  BY DEF FirstSeen, GoodReader, GoodPage

LEMMA GoodContinued ==
    ASSUME log \in Seq(Kinds), NEW r, GoodReader(r), r.pc = "page",
           NEW page, GoodPage(page, r.cursor, r.mark), page.more
    PROVE  /\ GoodReader(Continued(r, page))
           /\ GoodHydration(r) => GoodHydration(Continued(r, page))
  <1> DEFINE t == Continued(r, page)
             end == PageEnd(r, page)
  <1>1. r \in ReaderStates /\ page \in Pages /\ page.rows \subseteq 1..Len(log)
        /\ r.rows \subseteq 1..Len(log) /\ r.cursor \in Numbers /\ page.high \in Numbers
      BY DEF GoodReader, GoodPage
  <1>2. end \in Numbers /\ r.cursor <= end /\ \A n \in page.rows : n <= end
      BY <1>1, PageEndIsNumber
  <1>3. /\ FirstSeen(r, page) \in Numbers
        /\ \A n \in Durable : n <= FirstSeen(r, page) => n <= page.high
      BY MarkVouches
  <1>4. Len(log) \in Nat /\ \A n \in Numbers : n \in Nat
      BY DEF Numbers
  <1>5. NoPage \in Pages /\ NoPage.rows = {}
      BY DEF NoPage, Pages, Marks
  <1> HIDE DEF end
  <1>6. t \in ReaderStates
    <2>1. end \in Nat /\ page.high \in Marks /\ FirstSeen(r, page) \in Nat
          /\ r.rows \cup page.rows \in SUBSET Nat
        BY <1>1, <1>2, <1>3, <1>4 DEF Marks
    <2> QED
        BY <1>1, <1>5, <2>1 DEF Continued, ReaderStates, end
  <1>7. /\ t.pc = r.pc /\ t.cursor = end /\ t.after = r.after
        /\ t.rows = r.rows \cup page.rows
        /\ t.page = NoPage /\ t.seen = FirstSeen(r, page) /\ t.mark = page.high
        /\ t.attempt = r.attempt /\ t.got = FALSE
      BY <1>1 DEF Continued, ReaderStates, end
  <1>8. Complete(r.rows \cup page.rows, r.after, end)
    <2>1. SUFFICES ASSUME NEW n \in Durable, r.after < n, n <= end
                   PROVE  n \in r.rows \cup page.rows
        BY DEF Complete
    <2>2. n \in Nat /\ r.cursor \in Nat /\ end \in Nat
        BY <1>1, <1>2, <1>4 DEF Durable
    <2>3. CASE n <= r.cursor
        BY <2>1, <2>3 DEF GoodReader, Complete
    <2>4. CASE r.cursor < n
        BY <2>1, <2>4 DEF GoodPage, Complete, end, PageEnd
    <2> QED
        BY <2>2, <2>3, <2>4
  <1>9. \A n \in r.rows \cup page.rows : n <= end
    <2>1. ASSUME NEW n \in r.rows PROVE n <= end
      <3>1. n \in Nat /\ n <= r.cursor /\ r.cursor \in Nat /\ end \in Nat
          BY <1>1, <1>2, <1>4 DEF GoodReader
      <3> QED
          BY <1>2, <3>1
    <2> QED
        BY <1>2, <2>1
  <1> HIDE DEF t
  <1>10. GoodReader(t)
    <2>1. t.rows \subseteq 1..Len(log) /\ t.page.rows \subseteq 1..Len(log)
          /\ t.cursor \in Numbers /\ t.after \in Numbers /\ t.seen \in Numbers
          /\ t.attempt < MaxAttempts
        BY <1>1, <1>2, <1>3, <1>5, <1>7 DEF GoodReader
    <2>2. t.mark # NoMark => \A n \in Durable : n <= t.seen => n <= t.mark
        BY <1>3, <1>7
    <2>3. Complete(t.rows, t.after, t.cursor) /\ \A n \in t.rows : n <= t.cursor
        BY <1>7, <1>8, <1>9
    <2> QED
        BY <1>6, <1>7, <2>1, <2>2, <2>3 DEF GoodReader
  <1>11. GoodHydration(r) => GoodHydration(t)
      BY <1>7 DEF GoodHydration
  <1> QED
      BY <1>10, <1>11 DEF t

LEMMA GoodEndAttempt ==
    ASSUME log \in Seq(Kinds), NEW r, GoodReader(r), NEW after \in Numbers
    PROVE  GoodReader(EndAttempt(r, after))
  <1> DEFINE t == [Idle EXCEPT !.pc = "delay", !.attempt = r.attempt, !.after = after]
  <1>0. Idle \in ReaderStates /\ Idle.rows = {} /\ Idle.page.rows = {} /\ Idle.seen = 0
        /\ Idle.mark = NoMark /\ Idle.cursor = 0 /\ Idle.got = FALSE
        /\ 0 \in Numbers /\ after \in Nat
      BY GoodIdle DEF GoodReader, Idle, NoPage, Numbers
  <1>1. r.attempt \in Nat /\ r.attempt < MaxAttempts
      BY DEF GoodReader, ReaderStates
  <1>2. t \in ReaderStates
      BY <1>0, <1>1 DEF ReaderStates
  <1>3. /\ t.pc = "delay" /\ t.cursor = 0 /\ t.after = after /\ t.attempt = r.attempt
        /\ t.rows = {} /\ t.page.rows = {} /\ t.seen = 0 /\ t.mark = NoMark /\ t.got = FALSE
      BY <1>0 DEF ReaderStates
  <1> HIDE DEF t
  <1>4. ~LastAttempt(r) => GoodReader(t)
      BY <1>0, <1>1, <1>2, <1>3, StreamAssumption DEF GoodReader, LastAttempt
  <1> QED
      BY <1>4, GoodIdle DEF EndAttempt, t

LEMMA GoodJoin ==
    ASSUME log \in Seq(Kinds), NEW qs, \A q \in qs : GoodQuery(q),
           NEW cursor \in Numbers, NEW mark \in Numbers \cup {NoMark}
    PROVE  \A q \in Join(qs, cursor, mark) : GoodQuery(q)
  <1> DEFINE q0 == [cursor |-> cursor, mark |-> mark, read |-> FALSE, page |-> NoPage]
  <1>1. q0 \in Queries
    <2>1. cursor \in Nat /\ mark \in Marks /\ NoPage \in Pages
        BY DEF Numbers, Marks, NoPage, Pages
    <2> QED
        BY <2>1 DEF Queries
  <1>2. q0.cursor = cursor /\ q0.mark = mark /\ q0.read = FALSE
      OBVIOUS
  <1> HIDE DEF q0
  <1>3. GoodQuery(q0)
      BY <1>1, <1>2 DEF GoodQuery
  <1> QED
      BY <1>3 DEF Join, q0

LEMMA GoodWith ==
    ASSUME NEW rs, ReadersGood(rs), NEW p \in Readers, NEW t, GoodReader(t),
           p = "hydration" => GoodHydration(t)
    PROVE  ReadersGood([rs EXCEPT ![p] = t])
  <1>1. "hydration" \in Readers
      BY DEF Readers
  <1> QED
      BY <1>1 DEF ReadersGood

LEMMA GoodGeneration ==
    ASSUME NEW rs, ReadersGood(rs), NEW g \in Generations
    PROVE  ReadersGood([rs EXCEPT !["watchdog"].generation = g])
  <1>1. "watchdog" \in Readers /\ "watchdog" # "hydration"
      BY DEF Readers
  <1>2. GoodReader([rs["watchdog"] EXCEPT !.generation = g])
      BY <1>1, GoodRenewed DEF ReadersGood
  <1>3. [rs EXCEPT !["watchdog"].generation = g]
            = [rs EXCEPT !["watchdog"] = [rs["watchdog"] EXCEPT !.generation = g]]
      OBVIOUS
  <1> QED
      BY <1>1, <1>2, <1>3, GoodWith

(* resetTimeout and the replacement of the state object leave the readers  *)
(* as they are, up to the watchdog's generation.                           *)
LEMMA GoodNewGeneration ==
    ASSUME NEW rs, ReadersGood(rs), NEW t \in NewGeneration(rs)
    PROVE  ReadersGood(t)
  <1>1. PICK g \in Generations : t = [rs EXCEPT !["watchdog"].generation = g]
      BY DEF NewGeneration, Generations
  <1> QED
      BY <1>1, GoodGeneration

LEMMA GoodReset ==
    ASSUME NEW rs, ReadersGood(rs), NEW o, NEW t \in Reset(o, rs)
    PROVE  ReadersGood(t)
  BY GoodNewGeneration DEF Reset

LEMMA GoodNewState ==
    ASSUME NEW rs, ReadersGood(rs)
    PROVE  ReadersGood(NewState(rs))
  <1>1. "behind" \in Generations
      BY DEF Generations
  <1> QED
      BY <1>1, GoodGeneration DEF NewState

(* The answer that a reader continues with is the page it asked for.       *)
LEMMA AnswerIsGood ==
    ASSUME WindowInv, NEW p \in Readers
    PROVE  /\ Answered(p) # {} =>
                /\ reader[p].pc = "page"
                /\ GoodPage(PageOf(p), reader[p].cursor, reader[p].mark)
           /\ Arrived(p) => GoodPage(PageOf(p), reader[p].cursor, reader[p].mark)
  <1>1. ASSUME Answered(p) # {}
        PROVE  /\ reader[p].pc = "page"
               /\ GoodPage(PageOf(p), reader[p].cursor, reader[p].mark)
    <2>1. PICK q : q = CHOOSE x \in Answered(p) : TRUE
        OBVIOUS
    <2>2. q \in queries /\ q.read /\ WaitsFor(p, q)
        BY <1>1, <2>1 DEF Answered
    <2>3. GoodPage(q.page, q.cursor, q.mark)
        BY <2>2 DEF WindowInv, QueriesGood, GoodQuery
    <2>4. /\ reader[p].pc = "page" /\ ~reader[p].got
          /\ reader[p].cursor = q.cursor /\ reader[p].mark = q.mark
        BY <2>2 DEF WaitsFor
    <2>5. PageOf(p) = q.page
        BY <2>1, <2>4 DEF PageOf
    <2> QED
        BY <2>3, <2>4, <2>5
  <1>2. ASSUME Arrived(p), reader[p].got
        PROVE  GoodPage(PageOf(p), reader[p].cursor, reader[p].mark)
      BY <1>2 DEF Arrived, PageOf, WindowInv, ReadersGood, GoodReader
  <1> QED
      BY <1>1, <1>2 DEF Arrived

LEMMA TakenIsGood ==
    ASSUME WindowInv, NEW p \in Readers
    PROVE  /\ ReadersGood(Taken(p)) /\ Taken(p)[p] = reader[p]
           /\ QueriesGood(LeftAfter(p))
  <1>1. ReadersGood(reader) /\ QueriesGood(LeftAfter(p))
      BY DEF WindowInv, QueriesGood, LeftAfter
  <1>2. ASSUME NEW r \in Readers
        PROVE  /\ GoodReader(Taken(p)[r])
               /\ GoodHydration(reader[r]) => GoodHydration(Taken(p)[r])
    <2>1. CASE r # p /\ \E q \in Answered(p) : WaitsFor(r, q)
      <3>1. PICK q \in Answered(p) : WaitsFor(r, q)
          BY <2>1
      <3>2. reader[r].cursor = reader[p].cursor /\ reader[r].mark = reader[p].mark
          BY <3>1 DEF Answered, WaitsFor
      <3>3. GoodPage(PageOf(p), reader[r].cursor, reader[r].mark)
          BY <3>1, <3>2, AnswerIsGood
      <3>4. Taken(p)[r] = [reader[r] EXCEPT !.page = PageOf(p), !.got = TRUE]
          BY <2>1 DEF Taken
      <3>5. GoodReader(reader[r])
          BY <1>1 DEF ReadersGood
      <3>6. PICK x, page : x = reader[r] /\ page = PageOf(p)
          OBVIOUS
      <3>7. /\ GoodReader([x EXCEPT !.page = page, !.got = TRUE])
            /\ GoodHydration(x) => GoodHydration([x EXCEPT !.page = page, !.got = TRUE])
        <4>1. GoodReader(x) /\ x.pc = "page" /\ GoodPage(page, x.cursor, x.mark)
            BY <3>1, <3>3, <3>5, <3>6 DEF WaitsFor
        <4> QED
            BY <4>1, GoodGot
      <3> QED
          BY <3>4, <3>6, <3>7
    <2>2. CASE ~(r # p /\ \E q \in Answered(p) : WaitsFor(r, q))
      <3>1. Taken(p)[r] = reader[r]
          BY <2>2 DEF Taken
      <3> QED
          BY <1>1, <3>1 DEF ReadersGood
    <2> QED
        BY <2>1, <2>2
  <1>3. DOMAIN Taken(p) = Readers /\ Taken(p)[p] = reader[p]
      BY DEF Taken
  <1>4. "hydration" \in Readers
      BY DEF Readers
  <1> QED
      BY <1>1, <1>2, <1>3, <1>4 DEF ReadersGood

----------------------------------------------------------------------------
(*                       Applying events in order                          *)

(* Nothing that is applied lies behind the end of the run, so every event  *)
(* is processed: it is shown or hidden.                                    *)
WellShaped(o, R, last) ==
    /\ GoodStream(o.stream) /\ o.stream.last = last
    /\ o.show \subseteq R /\ R \subseteq o.show \cup o.hide

LEMMA OutcomeShape ==
    ASSUME log \in Seq(Kinds), EndIsLast, NEW s, GoodStream(s), s.present = TRUE,
           NEW R \in SUBSET (1..Len(log)), NEW last \in Numbers,
           NEW pending \in SUBSET (1..Len(log))
    PROVE  WellShaped(Outcome(s, R, last, pending), R, last)
  <1> DEFINE o == Outcome(s, R, last, pending)
  <1> DEFINE show == Shows(R, s.streaming)
             streaming == ~EndsWith(R)
                          /\ StreamingAt(Processed(R), Highest(R) + 1, s.streaming)
             t == [s EXCEPT !.last = last,
                            !.pending = IF EndsWith(R) THEN {} ELSE pending,
                            !.streaming = streaming,
                            !.timer = streaming /\ (s.timer \/ show # {}),
                            !.visible = s.visible \/ show # {}]
  <1>1. o = [stream |-> t, show |-> show, hide |-> Processed(R) \ show]
      BY DEF Outcome
  <1>2. Processed(R) = R
    <2>1. ASSUME NEW n \in R, NEW x \in R, IsTerminal(log[x]) PROVE n <= x
      <3>1. x = Len(log) /\ n \in 1..Len(log) /\ Len(log) \in Nat
          BY <2>1 DEF EndIsLast
      <3> QED
          BY <3>1
    <2> QED
        BY <2>1 DEF Processed
  <1>3. show \subseteq R
      BY <1>2 DEF Shows
  <1>4. streaming \in BOOLEAN
      BY DEF EndsWith
  <1>5. s \in Streams /\ last \in Nat /\ pending \in SUBSET Nat
    <2>1. \A n \in 1..Len(log) : n \in Nat
        OBVIOUS
    <2> QED
        BY <2>1 DEF GoodStream, Numbers
  <1>6. PICK st, sh : st = streaming /\ sh = show
      OBVIOUS
  <1>7. PICK pd : pd = IF EndsWith(R) THEN {} ELSE pending
      OBVIOUS
  <1>8. pd \in SUBSET Nat /\ pd \subseteq 1..Len(log) /\ st \in BOOLEAN
      BY <1>4, <1>5, <1>6, <1>7
  <1>9. t = [s EXCEPT !.last = last, !.pending = pd, !.streaming = st,
                      !.timer = st /\ (s.timer \/ sh # {}),
                      !.visible = s.visible \/ sh # {}]
      BY <1>6, <1>7
  <1> HIDE DEF show, streaming
  <1>10. t \in Streams /\ t.last = last /\ t.pending = pd /\ t.present = s.present
    <2> HIDE DEF t
    <2>1. s.timer \in BOOLEAN /\ s.visible \in BOOLEAN
        BY <1>5 DEF Streams
    <2>2. PICK tm, vs : tm = (st /\ (s.timer \/ sh # {})) /\ vs = (s.visible \/ sh # {})
        OBVIOUS
    <2>3. tm \in BOOLEAN /\ vs \in BOOLEAN
        BY <1>8, <2>1, <2>2
    <2>4. t = [s EXCEPT !.last = last, !.pending = pd, !.streaming = st,
                        !.timer = tm, !.visible = vs]
        BY <1>9, <2>2
    <2> QED
        BY <1>5, <1>8, <2>3, <2>4 DEF Streams
  <1> HIDE DEF t
  <1>11. GoodStream(t)
      BY <1>8, <1>10 DEF GoodStream
  <1>12. o.stream = t /\ o.show = show /\ o.hide = R \ show
      BY <1>1, <1>2
  <1> HIDE DEF o
  <1>13. WellShaped(o, R, last)
      BY <1>3, <1>10, <1>11, <1>12 DEF WellShaped
  <1> QED
      BY <1>13 DEF o

(* What is shown next follows what was shown before.                       *)
LEMMA ShownExtends ==
    ASSUME shown \in Seq(Nat), ShownInOrder, NEW low \in Nat, NEW high \in Nat, low <= high,
           \A i \in 1..Len(shown) : 0 < shown[i] /\ shown[i] <= low,
           NEW S \in SUBSET (1..high), \A n \in S : low < n,
           shown' = shown \o InOrder(S)
    PROVE  /\ shown' \in Seq(Nat) /\ ShownInOrder'
           /\ \A i \in 1..Len(shown') : 0 < shown'[i] /\ shown'[i] <= high
           /\ ToSet(shown') = ToSet(shown) \cup S
  <1>0. S \in SUBSET (0..high)
      OBVIOUS
  <1>1. PICK q : q = InOrder(S)
      OBVIOUS
  <1>2. /\ q \in Seq(S) /\ (\A t \in S : \E i \in 1..Len(q) : q[i] = t)
        /\ \A i, j \in 1..Len(q) : i < j => q[i] < q[j]
      BY <1>0, <1>1, InOrderLists
  <1>3. S \in SUBSET Nat /\ q \in Seq(Nat)
    <2>1. S \subseteq Nat
        OBVIOUS
    <2>2. Len(q) \in Nat /\ q = [i \in 1..Len(q) |-> q[i]] /\ \A i \in 1..Len(q) : q[i] \in S
        BY <1>2
    <2>3. q \in [1..Len(q) -> Nat]
        BY <2>1, <2>2
    <2> QED
        BY <2>1, <2>2, <2>3
  <1>4. PICK a \in Nat, b \in Nat : a = Len(shown) /\ b = Len(q)
      BY <1>3
  <1>5. /\ shown' \in Seq(Nat) /\ Len(shown') = a + b
        /\ \A i \in 1..a : shown'[i] = shown[i]
        /\ \A i \in 1..b : shown'[a + i] = q[i]
      BY <1>1, <1>3, <1>4
  <1>6. \A i \in 1..b : q[i] \in S /\ q[i] \in Nat /\ low < q[i] /\ q[i] <= high
    <2>1. ASSUME NEW i \in 1..b PROVE q[i] \in S
        BY <1>2, <1>4
    <2>2. \A n \in S : n \in Nat /\ low < n /\ n <= high
        OBVIOUS
    <2> QED
        BY <2>1, <2>2
  <1>7. \A i \in 1..a : shown[i] \in Nat /\ 0 < shown[i] /\ shown[i] <= low
      BY <1>4
  <1>8. ASSUME NEW i \in 1..a+b
        PROVE  \/ i \in 1..a /\ shown'[i] = shown[i]
               \/ i - a \in 1..b /\ shown'[i] = q[i - a]
    <2>1. CASE i <= a
        BY <1>5, <2>1
    <2>2. CASE i > a
      <3>1. i - a \in 1..b /\ a + (i - a) = i
          BY <2>2
      <3> QED
          BY <1>5, <3>1
    <2>3. i <= a \/ i > a
        BY <1>4
    <2> QED
        BY <2>1, <2>2, <2>3
  <1>9. ASSUME NEW i \in 1..a+b PROVE 0 < shown'[i] /\ shown'[i] <= high
    <2>1. CASE i \in 1..a /\ shown'[i] = shown[i]
        BY <1>7, <2>1
    <2>2. CASE i - a \in 1..b /\ shown'[i] = q[i - a]
        BY <1>6, <2>2
    <2> QED
        BY <1>8, <2>1, <2>2
  <1>10. ASSUME NEW i \in 1..a+b, NEW j \in 1..a+b, i < j PROVE shown'[i] < shown'[j]
    <2>1. CASE j \in 1..a /\ shown'[j] = shown[j]
      <3>1. i \in 1..a /\ shown'[i] = shown[i]
          BY <1>5, <1>10, <2>1
      <3>2. DOMAIN shown = 1..a
          BY <1>4
      <3> QED
          BY <1>10, <2>1, <3>1, <3>2 DEF ShownInOrder
    <2>2. CASE j - a \in 1..b /\ shown'[j] = q[j - a]
      <3>1. CASE i \in 1..a /\ shown'[i] = shown[i]
          BY <1>6, <1>7, <2>2, <3>1
      <3>2. CASE i - a \in 1..b /\ shown'[i] = q[i - a]
        <4>1. i - a < j - a
            BY <1>10
        <4> QED
            BY <1>2, <1>4, <2>2, <3>2, <4>1
      <3> QED
          BY <1>8, <3>1, <3>2
    <2> QED
        BY <1>8, <2>1, <2>2
  <1>11. DOMAIN shown' = 1..a+b /\ DOMAIN shown = 1..a
      BY <1>4, <1>5
  <1>12. ToSet(shown') = ToSet(shown) \cup S
    <2>1. ASSUME NEW x \in ToSet(shown') PROVE x \in ToSet(shown) \cup S
      <3>1. PICK i \in 1..a+b : x = shown'[i]
          BY <1>11 DEF ToSet
      <3> QED
          BY <1>6, <1>8, <1>11, <3>1 DEF ToSet
    <2>2. ASSUME NEW x \in ToSet(shown) PROVE x \in ToSet(shown')
      <3>1. PICK i \in 1..a : x = shown[i]
          BY <1>11 DEF ToSet
      <3>2. i \in 1..a+b /\ shown'[i] = x
          BY <1>5, <3>1
      <3> QED
          BY <1>11, <3>2 DEF ToSet
    <2>3. ASSUME NEW x \in S PROVE x \in ToSet(shown')
      <3>1. PICK i \in 1..b : x = q[i]
          BY <1>2, <1>4
      <3>2. a + i \in 1..a+b /\ shown'[a + i] = x
          BY <1>5, <3>1
      <3> QED
          BY <1>11, <3>2 DEF ToSet
    <2> QED
        BY <2>1, <2>2, <2>3
  <1>13. ShownInOrder'
      BY <1>10, <1>11 DEF ShownInOrder
  <1> QED
      BY <1>5, <1>9, <1>12, <1>13

(* The events that follow a cursor without a gap.                          *)
LEMMA FollowingIsComplete ==
    ASSUME NEW k \in Nat, NEW low \in Nat, NEW S \in SUBSET (1..k),
           NEW n \in Following(low, S)
    PROVE  /\ n \in S /\ low < n
           /\ \A m \in Nat : low < m /\ m <= n => m \in Following(low, S)
  <1>1. n \in S /\ low < n /\ low+1..n \subseteq S /\ n \in Nat
      BY DEF Following
  <1>2. ASSUME NEW m \in Nat, low < m, m <= n PROVE m \in Following(low, S)
    <2>1. m \in low+1..n
        BY <1>1, <1>2
    <2>2. m \in S
        BY <1>1, <2>1
    <2>3. low+1..m \subseteq S
      <3>1. ASSUME NEW x \in low+1..m PROVE x \in S
        <4>1. x \in low+1..n
            BY <1>1, <1>2
        <4> QED
            BY <1>1, <4>1
      <3> QED
          BY <3>1
    <2> QED
        BY <1>2, <2>2, <2>3 DEF Following
  <1> QED
      BY <1>1, <1>2

(* dispatch of the next event: it and the buffered events that follow it.  *)
LEMMA DispatchApplies ==
    ASSUME log \in Seq(Kinds), NEW s, GoodStream(s), NEW n \in 1..Len(log), n = s.last + 1
    PROVE  \E R, last, pending :
              /\ DispatchInOrder(s, n) = Outcome(s, R, last, pending)
              /\ R \in SUBSET (1..Len(log)) /\ last \in Numbers
              /\ pending \in SUBSET (1..Len(log)) /\ s.last <= last
              /\ \A m \in R : s.last < m /\ m <= last
              /\ Complete(R, s.last, last)
  <1> DEFINE S == s.pending \cup {n}
             R == Following(s.last, S)
             last == Max(R)
             pending == S \ R
  <1>0. Len(log) \in Nat /\ s.last \in Nat /\ S \in SUBSET (1..Len(log))
      BY DEF GoodStream, Numbers
  <1>1. R \subseteq S /\ R \subseteq 1..Len(log) /\ pending \subseteq 1..Len(log)
      BY <1>0 DEF Following
  <1>2. n \in R
    <2>1. s.last+1..n = {n}
        BY <1>0
    <2> QED
        BY <1>0, <2>1 DEF Following
  <1>3. last \in R /\ last \in 0..Len(log) /\ \A m \in R : m <= last
    <2> HIDE DEF R
    <2>1. R \in SUBSET (0..Len(log)) /\ R # {}
        BY <1>1, <1>2
    <2> QED
        BY <1>0, <2>1, MaxOf
  <1>4. \A m \in R : s.last < m
      BY DEF Following
  <1>5. Complete(R, s.last, last)
    <2>1. SUFFICES ASSUME NEW m \in Durable, s.last < m, m <= last PROVE m \in R
        BY DEF Complete
    <2>2. m \in Nat
        BY DEF Durable
    <2> HIDE DEF S, last
    <2> QED
        BY <1>0, <1>3, <2>1, <2>2, FollowingIsComplete
  <1>6. s.last <= last
    <2> HIDE DEF R, last
    <2> QED
        BY <1>0, <1>3, <1>4
  <1>7. DispatchInOrder(s, n) = Outcome(s, R, last, pending)
      BY DEF DispatchInOrder
  <1>8. last \in Numbers
      BY <1>3 DEF Numbers
  <1> HIDE DEF R, last, pending
  <1> QED
      BY <1>1, <1>3, <1>4, <1>5, <1>6, <1>7, <1>8

(* takeAuthoritativeRunEventSuffix: if the rows, with the live events they *)
(* vouch for, leave no stored event out, neither does what is applied.     *)
Applies(o, s, U) ==
    \E R, last, pending :
       /\ o = Outcome(s, R, last, pending)
       /\ R \in SUBSET (1..Len(log)) /\ last \in Numbers
       /\ pending \in SUBSET (1..Len(log)) /\ s.last <= last
       /\ \A m \in R : s.last < m /\ m <= last
       /\ (\A h \in U : Complete(U, s.last, h)) => Complete(R, s.last, last)

LEMMA SuffixApplies ==
    ASSUME log \in Seq(Kinds), NEW s, GoodStream(s), NEW rows \in SUBSET (1..Len(log)),
           NEW complete, NEW through
    PROVE  Applies(Suffix(s, rows, complete, through), s,
                   rows \cup Vouched(s, complete, through))
  <1> DEFINE U == rows \cup Vouched(s, complete, through)
             base == {n \in U : n > s.last}
             top == Highest({s.last} \cup base)
             F == Following(top, s.pending)
             R == base \cup F
             last == Highest({s.last} \cup R)
             pending == {n \in s.pending : n > last}
  <1>0. Len(log) \in Nat /\ s.last \in Nat /\ s.last \in 0..Len(log)
        /\ s.pending \in SUBSET (1..Len(log))
      BY DEF GoodStream, Numbers
  <1>1. U \subseteq 1..Len(log)
      BY <1>0 DEF Vouched
  <1>2. {s.last} \cup base \in SUBSET (0..Len(log))
      BY <1>0, <1>1
  <1>3. /\ top \in 0..Len(log) /\ (top \in {s.last} \cup base \/ top = 0)
        /\ \A y \in {s.last} \cup base : y <= top
    <2> HIDE DEF base
    <2> QED
        BY <1>0, <1>2, HighestOf
  <1>4. F \subseteq s.pending /\ (\A m \in F : top < m)
      BY DEF Following
  <1>5. top \in Nat /\ s.last <= top
      BY <1>3
  <1>6. ASSUME NEW m \in R PROVE m \in 1..Len(log) /\ s.last < m
    <2>1. CASE m \in base
        BY <1>0, <1>1, <2>1
    <2>2. CASE m \in F
      <3>1. m \in 1..Len(log) /\ top < m
          BY <1>0, <1>4, <2>2
      <3> QED
          BY <1>0, <1>5, <3>1
    <2> QED
        BY <2>1, <2>2
  <1>7. {s.last} \cup R \in SUBSET (0..Len(log)) /\ R \subseteq 1..Len(log)
    <2> HIDE DEF R
    <2> QED
        BY <1>0, <1>6
  <1>8. /\ last \in 0..Len(log) /\ (last \in {s.last} \cup R \/ last = 0)
        /\ \A y \in {s.last} \cup R : y <= last
    <2> HIDE DEF R
    <2> QED
        BY <1>0, <1>7, HighestOf
  <1>9. Suffix(s, rows, complete, through) = Outcome(s, R, last, pending)
      BY DEF Suffix
  <1>10. ASSUME \A h \in U : Complete(U, s.last, h) PROVE Complete(R, s.last, last)
    <2>1. SUFFICES ASSUME NEW m \in Durable, s.last < m, m <= last PROVE m \in R
        BY DEF Complete
    <2>2. m \in Nat /\ last \in Nat
        BY <1>8 DEF Durable
    <2>3. last \in R
        BY <1>0, <1>8, <2>1, <2>2
    <2>4. CASE m <= top
      <3>1. top \in base
          BY <1>0, <1>3, <1>5, <2>1, <2>2, <2>4
      <3>2. Complete(U, s.last, top)
          BY <1>10, <3>1
      <3>3. m \in U
          BY <2>1, <2>4, <3>2 DEF Complete
      <3> QED
          BY <1>0, <2>1, <2>2, <3>3
    <2>5. CASE m > top
      <3>1. last \in F
        <4>1. last \notin base
          <5> HIDE DEF base, top, last
          <5> QED
              BY <1>3, <1>5, <2>1, <2>2, <2>5
        <4> QED
            BY <2>3, <4>1
      <3>2. m \in F
        <4> HIDE DEF top, last
        <4> QED
            BY <1>0, <1>5, <2>1, <2>2, <2>5, <3>1, FollowingIsComplete
      <3> QED
          BY <3>2
    <2> QED
        BY <1>5, <2>2, <2>4, <2>5
  <1>11. last \in Numbers /\ s.last <= last /\ pending \subseteq 1..Len(log)
      BY <1>0, <1>8 DEF Numbers
  <1>12. \A m \in R : s.last < m /\ m <= last
      BY <1>6, <1>8
  <1>13. R \in SUBSET (1..Len(log)) /\ pending \in SUBSET (1..Len(log))
      BY <1>7, <1>11
  <1> HIDE DEF R, last, pending, U
  <1>14. Applies(Suffix(s, rows, complete, through), s, U)
      BY <1>9, <1>10, <1>11, <1>12, <1>13 DEF Applies
  <1> QED
      BY <1>14 DEF U

----------------------------------------------------------------------------
(*                       The steps of the window                           *)

(* A step that rolls nothing back.                                         *)
Forward ==
    /\ stream'.last >= stream.last
    /\ Durable \cap ToSet(shown) \subseteq ToSet(shown')

(* Steps that apply nothing.                                               *)
LEMMA QuietStep ==
    ASSUME StoreInv, UNCHANGED <<log, historyVars>>, wire' \subseteq wire,
           GoodStream(stream'), stream'.last = stream.last,
           launching' \in BOOLEAN, runsQuery' \in Statuses,
           ReadersGood(reader'), QueriesGood(queries')
    PROVE  StoreInv' /\ Forward
  <1>1. Durable' = Durable /\ Numbers' = Numbers
      BY SameLog
  <1>2. TypedInv'
      BY DEF StoreInv, TypedInv, historyVars
  <1>3. WindowInv'
    <2>1. GoodStream(stream)'
        BY <1>1 DEF GoodStream
    <2>2. ReadersGood(reader)' /\ QueriesGood(queries)'
        BY SameLog DEF ReadersGood, QueriesGood
    <2> QED
        BY <2>1, <2>2 DEF WindowInv
  <1>4. EndIsLast'
      BY DEF StoreInv, EndIsLast
  <1>5. ShownInv'
      BY DEF StoreInv, ShownInv, ShownInOrder, ShownBelow, historyVars
  <1>6. NothingSkippedInTime'
      BY <1>1 DEF StoreInv, NothingSkippedInTime, NothingSkipped, historyVars
  <1>7. Forward
      BY DEF Forward, historyVars, StoreInv, WindowInv, GoodStream, Numbers
  <1> QED
      BY <1>2, <1>3, <1>4, <1>5, <1>6, <1>7 DEF StoreInv

(* Steps that apply the events R to the projection s.                      *)
LEMMA ApplyStep ==
    ASSUME StoreInv, UNCHANGED log, wire' \subseteq wire,
           launching' \in BOOLEAN, runsQuery' \in Statuses, late' \in BOOLEAN,
           GoodStream(stream'), ReadersGood(reader'), QueriesGood(queries'),
           NEW s, GoodStream(s), s.present = TRUE, s.last = stream.last,
           NEW R \in SUBSET (1..Len(log)), NEW last \in Numbers, s.last <= last,
           \A m \in R : s.last < m /\ m <= last,
           NEW pending \in SUBSET (1..Len(log)),
           Record(Outcome(s, R, last, pending)), stream'.last = last,
           ~late' => ~late /\ Complete(R, s.last, last)
    PROVE  StoreInv' /\ Forward
  <1>0. log \in Seq(Kinds) /\ EndIsLast
      BY DEF StoreInv, TypedInv
  <1>1. Durable' = Durable /\ Numbers' = Numbers
      BY SameLog
  <1>2. TypedInv'
      BY DEF StoreInv, TypedInv
  <1>3. WindowInv'
    <2>1. GoodStream(stream)'
        BY <1>1 DEF GoodStream
    <2>2. ReadersGood(reader)' /\ QueriesGood(queries)'
        BY SameLog DEF ReadersGood, QueriesGood
    <2> QED
        BY <2>1, <2>2 DEF WindowInv
  <1>4. EndIsLast'
      BY DEF StoreInv, EndIsLast
  <1>5. PICK o : o = Outcome(s, R, last, pending)
      OBVIOUS
  <1>6. o.show \subseteq R /\ R \subseteq o.show \cup o.hide
    <2>1. WellShaped(Outcome(s, R, last, pending), R, last)
        BY <1>0, OutcomeShape
    <2> QED
        BY <1>5, <2>1 DEF WellShaped
  <1>7. shown' = shown \o InOrder(o.show) /\ hidden' = hidden \cup o.hide
      BY <1>5 DEF Record
  <1>8. s.last \in Nat /\ last \in Nat
      BY DEF GoodStream, Numbers
  <1>9. /\ o.show \in SUBSET (1..last) /\ \A n \in o.show : s.last < n
    <2>1. ASSUME NEW n \in o.show PROVE n \in 1..last /\ s.last < n
      <3>1. n \in R /\ n \in 1..Len(log)
          BY <1>6
      <3>2. s.last < n /\ n <= last /\ n \in Nat
          BY <3>1
      <3> QED
          BY <1>8, <3>2
    <2> QED
        BY <2>1
  <1>10. /\ shown' \in Seq(Nat) /\ ShownInOrder'
         /\ \A i \in 1..Len(shown') : 0 < shown'[i] /\ shown'[i] <= last
         /\ ToSet(shown') = ToSet(shown) \cup o.show
    <2>1. /\ shown \in Seq(Nat) /\ ShownInOrder
          /\ \A i \in 1..Len(shown) : 0 < shown[i] /\ shown[i] <= s.last
        BY DEF StoreInv, ShownInv, ShownBelow
    <2> QED
        BY <1>7, <1>8, <1>9, <2>1, ShownExtends
  <1>11. ShownInv'
      BY <1>10 DEF ShownInv, ShownBelow
  <1>12. NothingSkippedInTime'
    <2>1. SUFFICES ASSUME ~late', NEW n \in Durable, n <= last
                   PROVE  n \in ToSet(shown') \cup hidden'
        BY <1>1 DEF NothingSkippedInTime, NothingSkipped
    <2>2. n \in Nat
        BY DEF Durable
    <2>3. CASE n <= s.last
        BY <1>7, <1>10, <2>1, <2>3 DEF StoreInv, NothingSkippedInTime, NothingSkipped
    <2>4. CASE s.last < n
      <3>1. n \in R
          BY <2>1, <2>4 DEF Complete
      <3> QED
          BY <1>6, <1>7, <1>10, <3>1
    <2> QED
        BY <1>8, <2>2, <2>3, <2>4
  <1>13. Forward
      BY <1>8, <1>10 DEF Forward
  <1> QED
      BY <1>2, <1>3, <1>4, <1>11, <1>12, <1>13 DEF StoreInv

(* The states that a projection may be left in.                            *)
LEMMA GoodFresh ==
    ASSUME log \in Seq(Kinds)
    PROVE  /\ GoodStream(Fresh) /\ GoodStream(Absent) /\ GoodStream([Fresh EXCEPT !.timer = TRUE])
           /\ Fresh.last = 0 /\ Absent.last = 0 /\ [Fresh EXCEPT !.timer = TRUE].last = 0
           /\ Fresh.present
  <1>1. 0 \in Numbers
      BY DEF Numbers
  <1> QED
      BY <1>1 DEF GoodStream, Fresh, Absent, Streams

LEMMA GoodLeft ==
    ASSUME NEW s, GoodStream(s), NEW status
    PROVE  /\ GoodStream(GivenUp(s)) /\ GivenUp(s).last = s.last
           /\ GoodStream(Rearmed(s)) /\ Rearmed(s).last = s.last
           /\ GoodStream(Settled(s, status)) /\ Settled(s, status).last = s.last
  <1>0. s \in Streams /\ s.last \in Numbers /\ s.pending \subseteq 1..Len(log)
        /\ (~s.present => s.last = 0)
      BY DEF GoodStream
  <1>1. ASSUME NEW t \in Streams, t.last = s.last, t.present = s.present,
               t.pending \subseteq s.pending
        PROVE  GoodStream(t)
      BY <1>0, <1>1 DEF GoodStream
  <1>2. /\ GivenUp(s) \in Streams /\ GivenUp(s).last = s.last
        /\ GivenUp(s).present = s.present /\ GivenUp(s).pending \subseteq s.pending
      BY <1>0 DEF GivenUp, Streams
  <1>3. /\ Rearmed(s) \in Streams /\ Rearmed(s).last = s.last
        /\ Rearmed(s).present = s.present /\ Rearmed(s).pending \subseteq s.pending
      BY <1>0 DEF Rearmed, Streams
  <1>4. PICK v : v = (s.visible \/ status = "terminal")
      OBVIOUS
  <1>5. v \in BOOLEAN
      BY <1>0, <1>4 DEF Streams
  <1>6. \/ Settled(s, status) = s
        \/ Settled(s, status) = [s EXCEPT !.timer = TRUE]
        \/ Settled(s, status) = [s EXCEPT !.streaming = FALSE, !.timer = FALSE, !.visible = v]
      BY <1>0, <1>4 DEF Settled, Streams
  <1>7. /\ Settled(s, status) \in Streams /\ Settled(s, status).last = s.last
        /\ Settled(s, status).present = s.present
        /\ Settled(s, status).pending \subseteq s.pending
      BY <1>0, <1>5, <1>6 DEF Streams
  <1> QED
      BY <1>1, <1>2, <1>3, <1>7

(* recoverMissingRunEvents.                                                *)
LEMMA RecoverGapIsGood ==
    ASSUME log \in Seq(Kinds), QueriesGood(queries), NEW s, GoodStream(s),
           NEW rs, ReadersGood(rs), RecoverGap(s, rs)
    PROVE  ReadersGood(reader') /\ QueriesGood(queries')
  <1>1. CASE rs["gap"].pc = "idle"
    <2>1. reader' = [rs EXCEPT !["gap"] = Attempt(s, 0, s.last)]
          /\ queries' = Join(queries, s.last, NoMark)
        BY <1>1 DEF RecoverGap
    <2>2. s.last \in Numbers /\ s.pending \subseteq 1..Len(log) /\ 0 < MaxAttempts
        BY StreamAssumption DEF GoodStream
    <2>3. PICK t : t = Attempt(s, 0, s.last)
        OBVIOUS
    <2>4. GoodReader(t)
        BY <2>2, <2>3, GoodAttempt
    <2>5. "gap" \in Readers /\ "gap" # "hydration"
        BY DEF Readers
    <2>6. ReadersGood([rs EXCEPT !["gap"] = t])
        BY <2>4, <2>5, GoodWith
    <2>7. QueriesGood(Join(queries, s.last, NoMark))
        BY <2>2, GoodJoin DEF QueriesGood
    <2> QED
        BY <2>1, <2>3, <2>6, <2>7
  <1>2. CASE rs["gap"].pc # "idle"
      BY <1>2 DEF RecoverGap
  <1> QED
      BY <1>1, <1>2

LEMMA EmitStep ==
    ASSUME StoreInv, NEW k \in Kinds, NEW lost \in BOOLEAN, Emit(k, lost)
    PROVE  StoreInv' /\ Forward
  <1> USE DEF windowVars, historyVars
  <1>0. log \in Seq(Kinds) /\ log' = Append(log, k)
      BY DEF StoreInv, TypedInv, Emit
  <1>1. UNCHANGED <<stream, launching, reader, queries, runsQuery, shown, hidden, late>>
      BY DEF Emit
  <1>2. /\ log' \in Seq(Kinds) /\ Len(log') = Len(log) + 1 /\ Len(log) \in Nat
        /\ \A n \in Durable' : n <= Len(log) => n \in Durable
        /\ Numbers \subseteq Numbers' /\ 1..Len(log) \subseteq 1..Len(log')
        /\ Durable' \subseteq 1..Len(log')
      BY <1>0, GrownLog
  <1>3. TypedInv'
    <2>1. wire' \subseteq wire \cup {Len(log) + 1}
        BY DEF Emit
    <2>2. Len(log) + 1 \in 1..Len(log')
        BY <1>2
    <2>3. wire' \subseteq 1..Len(log')
        BY <1>2, <2>1, <2>2 DEF StoreInv, TypedInv
    <2> QED
        BY <1>1, <1>2, <2>3 DEF StoreInv, TypedInv
  <1>4. WindowInv'
    <2>1. GoodStream(stream)'
        BY <1>1, <1>2 DEF StoreInv, WindowInv, GoodStream
    <2>2. ASSUME NEW q \in queries PROVE GoodQuery(q)'
        BY <1>0, GoodQueryGrows DEF StoreInv, WindowInv, QueriesGood
    <2>3. PICK rs : rs = reader
        OBVIOUS
    <2>4. ASSUME NEW p \in Readers PROVE GoodReader(rs[p])'
        BY <1>0, <2>3, GoodReaderGrows DEF StoreInv, WindowInv, ReadersGood
    <2>5. GoodHydration(rs["hydration"])'
      <3>1. GoodReader(rs["hydration"]) /\ GoodHydration(rs["hydration"])
          BY <2>3 DEF StoreInv, WindowInv, ReadersGood, Readers
      <3> QED
          BY <1>0, <3>1, GoodHydrationGrows
    <2>6. ReadersGood(reader)'
      <3>1. ReadersGood(rs)'
          BY <2>3, <2>4, <2>5 DEF StoreInv, WindowInv, ReadersGood
      <3> QED
          BY <1>1, <2>3, <3>1
    <2>7. QueriesGood(queries)'
        BY <1>1, <2>2 DEF QueriesGood
    <2> QED
        BY <2>1, <2>6, <2>7 DEF WindowInv
  <1>5. EndIsLast'
    <2>1. PICK plan \in Plans : IsPrefix(log', plan)
        BY <1>0 DEF Emit
    <2>2. plan \in Seq(Kinds)
        BY StreamAssumption
    <2>3. PICK a \in Nat, b \in Nat : a = Len(log') /\ b = Len(plan)
        BY <1>2, <2>2
    <2>4. a <= b /\ SubSeq(log', 1, a) = SubSeq(plan, 1, a)
        BY <2>1, <2>3 DEF IsPrefix
    <2>5. ASSUME NEW n \in 1..a PROVE log'[n] = plan[n]
      <3>1. SubSeq(log', 1, a)[n] = log'[n] /\ SubSeq(plan, 1, a)[n] = plan[n]
          BY <1>2, <2>2, <2>3, <2>4
      <3> QED
          BY <2>4, <3>1
    <2>6. SUFFICES ASSUME NEW n \in 1..a, IsTerminal(log'[n]) PROVE n = a
        BY <2>3 DEF EndIsLast
    <2>7. n \in 1..b /\ plan[n] \in {"done", "failed"}
        BY <2>3, <2>4, <2>5, <2>6 DEF IsTerminal
    <2>8. n = b
        BY <2>3, <2>7, StreamAssumption
    <2> QED
        BY <2>4, <2>8
  <1>6. ShownInv'
      BY <1>1 DEF StoreInv, ShownInv, ShownInOrder, ShownBelow
  <1>7. NothingSkippedInTime'
    <2>1. SUFFICES ASSUME ~late, NEW n \in Durable', n <= stream.last
                   PROVE  n \in ToSet(shown) \cup hidden
        BY <1>1 DEF NothingSkippedInTime, NothingSkipped
    <2>2. n \in Nat /\ stream.last \in Nat /\ stream.last <= Len(log)
        BY <1>2 DEF StoreInv, WindowInv, GoodStream, Numbers
    <2>3. n \in Durable
        BY <1>2, <2>1, <2>2
    <2> QED
        BY <2>1, <2>3 DEF StoreInv, NothingSkippedInTime, NothingSkipped
  <1>8. Forward
      BY <1>1 DEF Forward, StoreInv, WindowInv, GoodStream, Numbers
  <1> QED
      BY <1>3, <1>4, <1>5, <1>6, <1>7, <1>8 DEF StoreInv

(* A projection that is touched elsewhere.                                 *)
LEMMA GoodTouch ==
    ASSUME NEW s, GoodStream(s), NEW t \in Streams, t.last = s.last, t.present = s.present,
           t.pending \subseteq 1..Len(log)
    PROVE  GoodStream(t)
  BY DEF GoodStream

LEMMA DispatchStep ==
    ASSUME StoreInv, NEW n \in wire, Dispatch(n)
    PROVE  StoreInv' /\ Forward
  <1> USE DEF boundVars
  <1>1. PICK s : s = IF stream.present THEN stream ELSE Fresh
      OBVIOUS
  <1>2. /\ log \in Seq(Kinds) /\ n \in 1..Len(log)
        /\ GoodStream(stream) /\ ReadersGood(reader) /\ QueriesGood(queries)
        /\ launching \in BOOLEAN /\ runsQuery \in Statuses /\ late \in BOOLEAN
      BY DEF StoreInv, TypedInv, WindowInv
  <1>3. GoodStream(s) /\ s.last = stream.last /\ s.present = TRUE
      BY <1>1, <1>2, GoodFresh DEF GoodStream
  <1>4. /\ UNCHANGED <<log, launching, runsQuery, late>> /\ wire' \subseteq wire
      BY DEF Dispatch
  <1>5. \/ /\ stream' = s
           /\ UNCHANGED <<reader, queries, shown, hidden>>
        \/ /\ n = s.last + 1
           /\ \E o \in {DispatchInOrder(s, n)} :
                stream' = o.stream /\ Record(o) /\ reader' \in Reset(o, reader)
           /\ UNCHANGED queries
        \/ /\ stream' = [s EXCEPT !.pending = @ \cup {n}]
           /\ RecoverGap(stream', reader)
           /\ UNCHANGED <<shown, hidden>>
      BY <1>1 DEF Dispatch
  <1>6. CASE stream' = s /\ UNCHANGED <<reader, queries, shown, hidden>>
      BY <1>2, <1>3, <1>4, <1>6, QuietStep DEF historyVars
  <1>7. CASE /\ n = s.last + 1
             /\ \E o \in {DispatchInOrder(s, n)} :
                  stream' = o.stream /\ Record(o) /\ reader' \in Reset(o, reader)
             /\ UNCHANGED queries
    <2>1. PICK R, last, pending :
              /\ DispatchInOrder(s, n) = Outcome(s, R, last, pending)
              /\ R \in SUBSET (1..Len(log)) /\ last \in Numbers
              /\ pending \in SUBSET (1..Len(log)) /\ s.last <= last
              /\ \A m \in R : s.last < m /\ m <= last
              /\ Complete(R, s.last, last)
        BY <1>2, <1>3, <1>7, DispatchApplies
    <2>2. PICK o : o = Outcome(s, R, last, pending)
        OBVIOUS
    <2>3. GoodStream(o.stream) /\ o.stream.last = last
      <3>1. EndIsLast
          BY DEF StoreInv
      <3>2. /\ log \in Seq(Kinds) /\ GoodStream(s) /\ s.present = TRUE /\ last \in Numbers
            /\ R \in SUBSET (1..Len(log)) /\ pending \in SUBSET (1..Len(log))
          BY <1>2, <1>3, <2>1
      <3>3. WellShaped(Outcome(s, R, last, pending), R, last)
          BY <3>1, <3>2, OutcomeShape
      <3> QED
          BY <2>2, <3>3 DEF WellShaped
    <2>4. stream' = o.stream /\ Record(o) /\ reader' \in Reset(o, reader)
        BY <1>7, <2>1, <2>2
    <2>5. ReadersGood(reader')
        BY <1>2, <2>4, GoodReset
    <2> QED
        BY <1>2, <1>3, <1>4, <1>7, <2>1, <2>2, <2>3, <2>4, <2>5, ApplyStep
  <1>8. CASE /\ stream' = [s EXCEPT !.pending = @ \cup {n}]
             /\ RecoverGap(stream', reader)
             /\ UNCHANGED <<shown, hidden>>
    <2>1. s \in Streams /\ s.pending \subseteq 1..Len(log) /\ n \in Nat
        BY <1>2, <1>3 DEF GoodStream
    <2>2. PICK t : t = [s EXCEPT !.pending = @ \cup {n}]
        OBVIOUS
    <2>3. t \in Streams /\ t.last = s.last /\ t.present = s.present
          /\ t.pending \subseteq 1..Len(log)
        BY <1>2, <2>1, <2>2 DEF Streams
    <2>4. GoodStream(t)
        BY <1>3, <2>3, GoodTouch
    <2>5. stream' = t /\ RecoverGap(t, reader)
        BY <1>8, <2>2
    <2>6. ReadersGood(reader') /\ QueriesGood(queries')
        BY <1>2, <2>4, <2>5, RecoverGapIsGood
    <2> QED
        BY <1>2, <1>3, <1>4, <1>8, <2>3, <2>4, <2>5, <2>6, QuietStep DEF historyVars
  <1> QED
      BY <1>5, <1>6, <1>7, <1>8

----------------------------------------------------------------------------
(*                       Steps that apply nothing                          *)

LEMMA StoreFacts ==
    ASSUME StoreInv
    PROVE  /\ log \in Seq(Kinds) /\ WindowInv /\ EndIsLast
           /\ GoodStream(stream) /\ ReadersGood(reader) /\ QueriesGood(queries)
           /\ launching \in BOOLEAN /\ runsQuery \in Statuses /\ late \in BOOLEAN
           /\ \A p \in Readers : GoodReader(reader[p])
           /\ stream.last \in Numbers /\ stream.pending \subseteq 1..Len(log)
  BY DEF StoreInv, TypedInv, WindowInv, ReadersGood, GoodStream

LEMMA NoneBetween ==
    ASSUME log \in Seq(Kinds), NEW low \in Numbers
    PROVE  Complete({}, low, low)
  <1>1. low \in Nat /\ \A m \in Durable : m \in Nat
      BY DEF Numbers, Durable
  <1> QED
      BY <1>1 DEF Complete

LEMMA BindTurnHandleStep ==
    ASSUME StoreInv, BindTurnHandle
    PROVE  StoreInv' /\ Forward
  <1>1. PICK s : s = [stream EXCEPT !.bound = TRUE, !.timer = stream.streaming]
      OBVIOUS
  <1>2. stream \in Streams
      BY DEF StoreInv, WindowInv, GoodStream
  <1>3. s \in Streams /\ s.last = stream.last /\ s.present = stream.present
        /\ s.pending = stream.pending
      BY <1>1, <1>2 DEF Streams
  <1>4. GoodStream(s)
      BY <1>3, StoreFacts, GoodTouch
  <1>5. PICK rs :
            /\ rs \in NewGeneration(reader) \/ rs = reader
            /\ launching' = FALSE /\ stream' = s /\ UNCHANGED <<log, wire, runsQuery, historyVars>>
            /\ RecoverGap(s, rs) \/ (reader' = rs /\ UNCHANGED queries)
      BY <1>1 DEF BindTurnHandle
  <1>6. ReadersGood(rs)
      BY <1>5, StoreFacts, GoodNewGeneration
  <1>7. /\ launching' = FALSE /\ stream' = s /\ UNCHANGED <<log, wire, runsQuery, historyVars>>
        /\ RecoverGap(s, rs) \/ (reader' = rs /\ UNCHANGED queries)
      BY <1>5
  <1>8. ReadersGood(reader') /\ QueriesGood(queries')
      BY <1>4, <1>6, <1>7, StoreFacts, RecoverGapIsGood
  <1> QED
      BY <1>3, <1>4, <1>7, <1>8, StoreFacts, QuietStep

LEMMA SendErrorStep ==
    ASSUME StoreInv, SendError
    PROVE  StoreInv' /\ Forward
  <1>1. stream \in Streams /\ launching' = FALSE
        /\ UNCHANGED <<log, wire, reader, queries, runsQuery, historyVars>>
        /\ stream' = [stream EXCEPT !.streaming = FALSE, !.timer = FALSE, !.visible = TRUE]
      BY DEF StoreInv, WindowInv, GoodStream, SendError
  <1>2. stream' \in Streams /\ stream'.last = stream.last /\ stream'.present = stream.present
        /\ stream'.pending = stream.pending
      BY <1>1 DEF Streams
  <1>3. GoodStream(stream')
      BY <1>2, StoreFacts, GoodTouch
  <1> QED
      BY <1>1, <1>2, <1>3, StoreFacts, QuietStep

LEMMA SuspensionStep ==
    ASSUME StoreInv, MarkResumableSuspension
    PROVE  StoreInv' /\ Forward
  <1>1. stream \in Streams
        /\ UNCHANGED <<log, wire, launching, reader, queries, runsQuery, historyVars>>
        /\ stream' = [stream EXCEPT !.streaming = FALSE, !.timer = FALSE]
      BY DEF StoreInv, WindowInv, GoodStream, MarkResumableSuspension
  <1>2. stream' \in Streams /\ stream'.last = stream.last /\ stream'.present = stream.present
        /\ stream'.pending = stream.pending
      BY <1>1 DEF Streams
  <1>3. GoodStream(stream')
      BY <1>2, StoreFacts, GoodTouch
  <1> QED
      BY <1>1, <1>2, <1>3, StoreFacts, QuietStep

LEMMA HeartbeatStep ==
    ASSUME StoreInv, Heartbeat
    PROVE  StoreInv' /\ Forward
  <1>1. RecoverGap(stream, reader)
        /\ UNCHANGED <<log, wire, stream, launching, runsQuery, historyVars>>
      BY DEF Heartbeat
  <1>2. ReadersGood(reader') /\ QueriesGood(queries')
      BY <1>1, StoreFacts, RecoverGapIsGood
  <1> QED
      BY <1>1, <1>2, StoreFacts, QuietStep

LEMMA TaskStatusIsStatus == TaskStatus \in {"active", "suspended", "terminal"}
  BY DEF TaskStatus

LEMMA ReadRunsStep ==
    ASSUME StoreInv, ReadRuns
    PROVE  StoreInv' /\ Forward
  <1>1. runsQuery' = TaskStatus
        /\ UNCHANGED <<log, wire, stream, launching, reader, queries, historyVars>>
      BY DEF ReadRuns
  <1>2. runsQuery' \in Statuses
      BY <1>1, TaskStatusIsStatus DEF Statuses
  <1> QED
      BY <1>1, <1>2, StoreFacts, QuietStep

LEMMA BeginHydrationStep ==
    ASSUME StoreInv, BeginHydration
    PROVE  StoreInv' /\ Forward
  <1>1. PICK t : t = [Idle EXCEPT !.pc = "page", !.status = TaskStatus]
      OBVIOUS
  <1>2. /\ reader' = [reader EXCEPT !["hydration"] = t]
        /\ queries' = Join(queries, 0, NoMark)
        /\ UNCHANGED <<log, wire, stream, launching, runsQuery, historyVars>>
      BY <1>1 DEF BeginHydration
  <1>3. /\ Idle \in ReaderStates /\ Idle.rows = {} /\ Idle.page.rows = {} /\ Idle.seen = 0
        /\ Idle.mark = NoMark /\ Idle.got = FALSE /\ Idle.cursor = 0 /\ Idle.after = 0
        /\ Idle.attempt = 0 /\ 0 \in Numbers
      BY StoreFacts, GoodIdle DEF GoodReader, Idle, NoPage, Numbers
  <1>4. t \in ReaderStates
      BY <1>1, <1>3, TaskStatusIsStatus DEF ReaderStates, Statuses
  <1>5. /\ t.pc = "page" /\ t.rows = {} /\ t.page.rows = {} /\ t.seen = 0 /\ t.mark = NoMark
        /\ t.got = FALSE /\ t.cursor = 0 /\ t.after = 0 /\ t.attempt = 0
      BY <1>1, <1>3 DEF ReaderStates
  <1>6. Complete({}, 0, 0)
      BY <1>3, StoreFacts, NoneBetween
  <1>7. GoodReader(t) /\ GoodHydration(t)
      BY <1>3, <1>4, <1>5, <1>6, StreamAssumption DEF GoodReader, GoodHydration
  <1>8. ReadersGood(reader')
      BY <1>2, <1>7, StoreFacts, GoodWith DEF Readers
  <1>9. QueriesGood(queries')
      BY <1>2, <1>3, StoreFacts, GoodJoin DEF QueriesGood
  <1> QED
      BY <1>2, <1>8, <1>9, StoreFacts, QuietStep

LEMMA ReadPageStep ==
    ASSUME StoreInv, NEW q \in queries, ReadPage(q)
    PROVE  StoreInv' /\ Forward
  <1>1. PICK page : page = PageAfter(q.cursor, q.mark)
      OBVIOUS
  <1>2. PICK t : t = [q EXCEPT !.read = TRUE, !.page = page]
      OBVIOUS
  <1>3. /\ queries' = (queries \ {q}) \cup {t}
        /\ UNCHANGED <<log, wire, stream, launching, reader, runsQuery, historyVars>>
      BY <1>1, <1>2 DEF ReadPage
  <1>4. GoodQuery(q) /\ q \in Queries /\ q.cursor \in Numbers /\ q.mark \in Numbers \cup {NoMark}
      BY StoreFacts DEF QueriesGood, GoodQuery
  <1>5. GoodPage(page, q.cursor, q.mark)
      BY <1>1, <1>4, StoreFacts, PageAfterIsGood
  <1>6. page \in Pages
      BY <1>5 DEF GoodPage
  <1>7. t \in Queries /\ t.cursor = q.cursor /\ t.mark = q.mark /\ t.page = page
      BY <1>2, <1>4, <1>6 DEF Queries
  <1>8. GoodQuery(t)
      BY <1>4, <1>5, <1>7 DEF GoodQuery
  <1>9. QueriesGood(queries')
      BY <1>3, <1>8, StoreFacts DEF QueriesGood
  <1> QED
      BY <1>3, <1>9, StoreFacts, QuietStep

LEMMA GapRetryStep ==
    ASSUME StoreInv, GapRetry
    PROVE  StoreInv' /\ Forward
  <1>1. PICK r : r = reader["gap"]
      OBVIOUS
  <1>2. PICK n, t : n = r.attempt + 1 /\ t = Attempt(stream, n, r.after)
      OBVIOUS
  <1>3. /\ r.pc = "delay" /\ reader' = [reader EXCEPT !["gap"] = t]
        /\ queries' = Join(queries, r.after, NoMark)
        /\ UNCHANGED <<log, wire, stream, launching, runsQuery, historyVars>>
      BY <1>1, <1>2 DEF GapRetry
  <1>4. "gap" \in Readers /\ "gap" # "hydration"
      BY DEF Readers
  <1>5. GoodReader(r)
      BY <1>1, <1>4, StoreFacts
  <1>6. n \in Nat /\ n < MaxAttempts /\ r.after \in Numbers
      BY <1>2, <1>3, <1>5 DEF GoodReader, ReaderStates
  <1>7. GoodReader(t)
      BY <1>2, <1>6, StoreFacts, GoodAttempt
  <1>8. ReadersGood(reader')
      BY <1>3, <1>4, <1>7, StoreFacts, GoodWith
  <1>9. QueriesGood(queries')
      BY <1>3, <1>6, StoreFacts, GoodJoin DEF QueriesGood
  <1> QED
      BY <1>3, <1>8, <1>9, StoreFacts, QuietStep

(* A reader that has lost its interest.                                    *)
LEMMA LeavesIdle ==
    ASSUME StoreInv, NEW p \in Readers
    PROVE  /\ ReadersGood([Taken(p) EXCEPT ![p] = Idle])
           /\ QueriesGood(LeftAfter(p))
  BY StoreFacts, TakenIsGood, GoodIdle, GoodWith

LEMMA GapIsStaleStep ==
    ASSUME StoreInv, GapIsStale
    PROVE  StoreInv' /\ Forward
  <1>1. /\ reader' = [Taken("gap") EXCEPT !["gap"] = Idle] /\ queries' = LeftAfter("gap")
        /\ UNCHANGED <<log, wire, stream, launching, runsQuery, historyVars>>
      BY DEF GapIsStale
  <1>2. ReadersGood(reader') /\ QueriesGood(queries')
      BY <1>1, LeavesIdle DEF Readers
  <1> QED
      BY <1>1, <1>2, StoreFacts, QuietStep

LEMMA WatchdogIsStaleStep ==
    ASSUME StoreInv, WatchdogIsStale
    PROVE  StoreInv' /\ Forward
  <1>1. /\ reader' = [Taken("watchdog") EXCEPT !["watchdog"] = Idle]
        /\ queries' = LeftAfter("watchdog")
        /\ UNCHANGED <<log, wire, stream, launching, runsQuery, historyVars>>
      BY DEF WatchdogIsStale
  <1>2. ReadersGood(reader') /\ QueriesGood(queries')
      BY <1>1, LeavesIdle DEF Readers
  <1> QED
      BY <1>1, <1>2, StoreFacts, QuietStep

LEMMA WatchdogFiresStep ==
    ASSUME StoreInv, WatchdogFires
    PROVE  StoreInv' /\ Forward
  <1>1. PICK last, bound, live :
                          /\ last = stream.last /\ bound = stream.bound
                          /\ live = IF stream.bound THEN LiveThrough(stream, 0) ELSE 0
      OBVIOUS
  <1>2. PICK t : t = [Idle EXCEPT !.pc = "runs", !.generation = "same",
                                  !.bound = bound, !.cursor = last, !.after = last, !.live = live]
      OBVIOUS
  <1>3. /\ stream' = [stream EXCEPT !.timer = FALSE, !.visible = TRUE]
        /\ reader' = [reader EXCEPT !["watchdog"] = t]
        /\ runsQuery' = IF runsQuery = "none" THEN "open" ELSE runsQuery
        /\ UNCHANGED <<log, wire, launching, queries, historyVars>>
      BY <1>1, <1>2 DEF WatchdogFires
  <1>4. stream \in Streams
      BY DEF StoreInv, WindowInv, GoodStream
  <1>5. stream' \in Streams /\ stream'.last = stream.last /\ stream'.present = stream.present
        /\ stream'.pending = stream.pending
      BY <1>3, <1>4 DEF Streams
  <1>6. GoodStream(stream')
      BY <1>5, StoreFacts, GoodTouch
  <1>7. /\ Idle \in ReaderStates /\ Idle.rows = {} /\ Idle.page.rows = {} /\ Idle.seen = 0
        /\ Idle.mark = NoMark /\ Idle.attempt = 0 /\ Idle.got = FALSE /\ 0 \in Numbers
      BY StoreFacts, GoodIdle DEF GoodReader, Idle, NoPage, Numbers
  <1>8. last \in Nat /\ last \in Numbers /\ live \in Nat
    <2>1. LiveThrough(stream, 0) \in Nat
        BY <1>7, StoreFacts, LiveIsNumber
    <2> QED
        BY <1>1, <2>1, StoreFacts DEF Numbers
  <1>9. t \in ReaderStates
    <2>1. bound \in BOOLEAN /\ "same" \in Generations
        BY <1>1, <1>4 DEF Streams, Generations
    <2> QED
        BY <1>2, <1>7, <1>8, <2>1 DEF ReaderStates
  <1>10. /\ t.pc = "runs" /\ t.rows = {} /\ t.page.rows = {} /\ t.seen = 0 /\ t.mark = NoMark
         /\ t.cursor = last /\ t.after = last /\ t.attempt = 0 /\ t.got = FALSE
      BY <1>2, <1>7 DEF ReaderStates
  <1>11. Complete({}, last, last)
      BY <1>8, StoreFacts, NoneBetween
  <1>12. GoodReader(t)
      BY <1>7, <1>8, <1>9, <1>10, <1>11, StreamAssumption DEF GoodReader
  <1>13. ReadersGood(reader')
      BY <1>3, <1>12, StoreFacts, GoodWith DEF Readers
  <1>14. runsQuery' \in Statuses
      BY <1>3, StoreFacts DEF Statuses
  <1> QED
      BY <1>3, <1>5, <1>6, <1>13, <1>14, StoreFacts, QuietStep

LEMMA WatchdogRunsStep ==
    ASSUME StoreInv, WatchdogRuns
    PROVE  StoreInv' /\ Forward
  <1>1. PICK r : r = reader["watchdog"]
      OBVIOUS
  <1>2. PICK t : t = [r EXCEPT !.pc = "page", !.status = runsQuery]
      OBVIOUS
  <1>3. "watchdog" \in Readers /\ "watchdog" # "hydration" /\ ReadersGood(reader)
      BY StoreFacts DEF Readers
  <1>4. /\ r.pc = "runs" /\ runsQuery' = "none"
        /\ UNCHANGED <<log, wire, stream, launching, historyVars>>
        /\ \/ /\ reader' = [reader EXCEPT !["watchdog"].pc = "page",
                                          !["watchdog"].status = runsQuery]
              /\ queries' = Join(queries, r.cursor, NoMark)
           \/ reader' = [reader EXCEPT !["watchdog"] = Idle] /\ UNCHANGED queries
      BY <1>1 DEF WatchdogRuns
  <1>5. GoodReader(r) /\ r \in ReaderStates /\ r.cursor \in Numbers
      BY <1>1, <1>3, StoreFacts DEF GoodReader
  <1>6. t \in ReaderStates
      BY <1>2, <1>5, StoreFacts DEF ReaderStates
  <1>7. /\ t.pc = "page" /\ t.cursor = r.cursor /\ t.after = r.after /\ t.rows = r.rows
        /\ t.page = r.page /\ t.seen = r.seen /\ t.mark = r.mark /\ t.attempt = r.attempt
        /\ t.got = r.got
      BY <1>2, <1>5 DEF ReaderStates
  <1>8. GoodReader(t)
      BY <1>4, <1>5, <1>6, <1>7 DEF GoodReader
  <1>9. CASE /\ reader' = [reader EXCEPT !["watchdog"].pc = "page",
                                         !["watchdog"].status = runsQuery]
             /\ queries' = Join(queries, r.cursor, NoMark)
    <2>1. reader' = [reader EXCEPT !["watchdog"] = t]
        BY <1>1, <1>2, <1>3, <1>9 DEF ReadersGood
    <2>2. ReadersGood(reader')
        BY <1>3, <1>8, <2>1, GoodWith
    <2>3. QueriesGood(queries')
        BY <1>5, <1>9, StoreFacts, GoodJoin DEF QueriesGood
    <2> QED
        BY <1>4, <2>2, <2>3, StoreFacts, QuietStep DEF Statuses
  <1>10. CASE reader' = [reader EXCEPT !["watchdog"] = Idle] /\ UNCHANGED queries
    <2>1. ReadersGood(reader')
        BY <1>3, <1>10, StoreFacts, GoodIdle, GoodWith
    <2> QED
        BY <1>4, <1>10, <2>1, StoreFacts, QuietStep DEF Statuses
  <1> QED
      BY <1>4, <1>9, <1>10

LEMMA NextPageStep ==
    ASSUME StoreInv, NEW p \in Readers, NextPage(p)
    PROVE  StoreInv' /\ Forward
  <1>1. PICK page, r, t : page = PageOf(p) /\ r = reader[p] /\ t = Continued(r, page)
      OBVIOUS
  <1>2. /\ Arrived(p) /\ page.more /\ reader' = [Taken(p) EXCEPT ![p] = t]
        /\ queries' = Join(LeftAfter(p), PageEnd(r, page), page.high)
        /\ UNCHANGED <<log, wire, stream, launching, runsQuery, historyVars>>
      BY <1>1 DEF NextPage
  <1>3. GoodReader(r) /\ (p = "hydration" => GoodHydration(r))
      BY <1>1, StoreFacts DEF ReadersGood
  <1>4. r.pc = "page" /\ GoodPage(page, r.cursor, r.mark)
      BY <1>1, <1>2, StoreFacts, AnswerIsGood DEF Arrived
  <1>5. GoodReader(t) /\ (p = "hydration" => GoodHydration(t))
      BY <1>1, <1>2, <1>3, <1>4, StoreFacts, GoodContinued
  <1>6. ReadersGood(Taken(p)) /\ QueriesGood(LeftAfter(p))
      BY StoreFacts, TakenIsGood
  <1>7. ReadersGood(reader')
      BY <1>2, <1>5, <1>6, GoodWith
  <1>8. PICK end, high : end = PageEnd(r, page) /\ high = page.high
      OBVIOUS
  <1>9. end \in Numbers /\ high \in Numbers
      BY <1>3, <1>4, <1>8, StoreFacts, PageEndIsNumber DEF GoodPage, GoodReader
  <1>10. QueriesGood(queries')
      BY <1>2, <1>6, <1>8, <1>9, StoreFacts, GoodJoin DEF QueriesGood
  <1> QED
      BY <1>2, <1>7, <1>10, StoreFacts, QuietStep

(* A query fails or outlives its deadline.                                 *)
LEMMA CatchesIsGood ==
    ASSUME NEW s, GoodStream(s), NEW p
    PROVE  GoodStream(Catches(p, s)) /\ Catches(p, s).last = s.last
  <1>1. Catches(p, s) = GivenUp(s) \/ Catches(p, s) = Rearmed(s) \/ Catches(p, s) = s
      BY DEF Catches
  <1> QED
      BY <1>1, GoodLeft

LEMMA FailStep ==
    ASSUME StoreInv, NEW P, Fail(P), queries' \subseteq queries, runsQuery' \in Statuses
    PROVE  StoreInv' /\ Forward
  <1>1. PICK s : s = IF "watchdog" \in P THEN Catches("watchdog", stream) ELSE stream
      OBVIOUS
  <1>2. /\ stream' = IF "gap" \in P THEN Catches("gap", s) ELSE s
        /\ reader' = [p \in Readers |-> IF p \in P THEN AfterError(p) ELSE reader[p]]
        /\ UNCHANGED <<log, wire, launching, historyVars>>
      BY <1>1 DEF Fail
  <1>3. GoodStream(s) /\ s.last = stream.last
      BY <1>1, StoreFacts, CatchesIsGood
  <1>4. GoodStream(stream') /\ stream'.last = stream.last
      BY <1>2, <1>3, CatchesIsGood
  <1>5. ASSUME NEW p \in Readers PROVE GoodReader(AfterError(p))
    <2>1. GoodReader(reader[p]) /\ reader[p].after \in Numbers
        BY StoreFacts DEF GoodReader
    <2> QED
        BY <2>1, StoreFacts, GoodIdle, GoodEndAttempt DEF AfterError
  <1>6. AfterError("hydration") = Idle
      BY DEF AfterError
  <1>7. ReadersGood(reader')
      BY <1>2, <1>5, <1>6, StoreFacts, GoodIdle DEF ReadersGood, Readers
  <1>8. QueriesGood(queries')
      BY StoreFacts DEF QueriesGood
  <1> QED
      BY <1>2, <1>4, <1>7, <1>8, StoreFacts, QuietStep

LEMMA DeadlineStep ==
    ASSUME StoreInv, NEW p \in Readers, DeadlinePasses(p)
    PROVE  StoreInv' /\ Forward
  BY StoreFacts, FailStep DEF DeadlinePasses

LEMMA PageQueryFailsStep ==
    ASSUME StoreInv, NEW q \in queries, PageQueryFails(q)
    PROVE  StoreInv' /\ Forward
  <1>1. PICK P : P = {p \in Readers : WaitsFor(p, q)}
      OBVIOUS
  <1>2. Fail(P) /\ queries' \subseteq queries /\ runsQuery' = runsQuery
      BY <1>1 DEF PageQueryFails
  <1> QED
      BY <1>2, StoreFacts, FailStep

LEMMA RunsQueryFailsStep ==
    ASSUME StoreInv, RunsQueryFails
    PROVE  StoreInv' /\ Forward
  <1>1. PICK P : P = {p \in {"watchdog"} : reader[p].pc = "runs"}
      OBVIOUS
  <1>2. Fail(P) /\ queries' \subseteq queries /\ runsQuery' = "none"
      BY <1>1 DEF RunsQueryFails
  <1>3. runsQuery' \in Statuses
      BY <1>2 DEF Statuses
  <1> QED
      BY <1>2, <1>3, FailStep

(* The pages of a reader, together, leave no stored event out up to the    *)
(* mark that the first one froze.                                          *)
LEMMA CollectedIsComplete ==
    ASSUME log \in Seq(Kinds), NEW r, GoodReader(r), r.pc = "page",
           NEW page, GoodPage(page, r.cursor, r.mark), ~page.more
    PROVE  /\ Complete(r.rows \cup page.rows, r.after, page.high)
           /\ Complete(r.rows \cup page.rows, r.after, r.cursor)
           /\ \A h \in r.rows \cup page.rows : h <= r.cursor \/ h <= page.high
  <1>1. /\ Complete(r.rows, r.after, r.cursor) /\ Complete(page.rows, r.cursor, page.high)
        /\ (\A n \in r.rows : n <= r.cursor) /\ \A n \in page.rows : n <= page.high
      BY DEF GoodReader, GoodPage
  <1>2. r.cursor \in Nat /\ page.high \in Nat /\ \A n \in Durable : n \in Nat
      BY DEF GoodReader, GoodPage, Numbers, Durable
  <1> QED
      BY <1>1, <1>2 DEF Complete

LEMMA AdmitHydrationStep ==
    ASSUME StoreInv, AdmitHydration
    PROVE  StoreInv' /\ Forward
  <1>1. PICK r, page : r = reader["hydration"] /\ page = PageOf("hydration")
      OBVIOUS
  <1>2. PICK rows : rows = r.rows \cup page.rows
      OBVIOUS
  <1>3. PICK t : t = [r EXCEPT !.pc = "project", !.rows = rows, !.page = NoPage,
                               !.got = FALSE, !.after = stream.last,
                               !.present = stream.present, !.streaming = stream.streaming]
      OBVIOUS
  <1>4. "hydration" \in Readers
      BY DEF Readers
  <1>5. /\ Arrived("hydration") /\ ~page.more
        /\ reader' = [Taken("hydration") EXCEPT !["hydration"] =
                        IF Admits(rows) THEN t ELSE Idle]
        /\ queries' = LeftAfter("hydration")
        /\ UNCHANGED <<log, wire, stream, launching, runsQuery, historyVars>>
      BY <1>1, <1>2, <1>3 DEF AdmitHydration
  <1>6. GoodReader(r) /\ GoodHydration(r)
      BY <1>1, <1>4, StoreFacts DEF ReadersGood
  <1>7. r.pc = "page" /\ GoodPage(page, r.cursor, r.mark) /\ r.after = 0
      BY <1>1, <1>4, <1>5, <1>6, StoreFacts, AnswerIsGood DEF Arrived, GoodHydration
  <1>8. /\ r \in ReaderStates /\ rows \subseteq 1..Len(log) /\ rows \in SUBSET (0..Len(log))
        /\ rows \in SUBSET Nat /\ Len(log) \in Nat
      BY <1>2, <1>6, <1>7, StoreFacts DEF GoodReader, GoodPage
  <1>9. PICK top : top = Highest(rows)
      OBVIOUS
  <1>10. /\ top \in 0..Len(log) /\ (top \in rows \/ top = 0) /\ \A y \in rows : y <= top
      BY <1>8, <1>9, HighestOf
  <1>11. Complete(rows, 0, top)
    <2>1. SUFFICES ASSUME NEW n \in Durable, 0 < n, n <= top PROVE n \in rows
        BY DEF Complete
    <2>2. n \in Nat /\ top \in Nat /\ r.cursor \in Nat /\ page.high \in Nat
        BY <1>6, <1>7, <1>10 DEF Durable, GoodReader, GoodPage, Numbers
    <2>3. top \in rows
        BY <1>10, <2>1, <2>2
    <2>4. /\ Complete(rows, 0, page.high) /\ Complete(rows, 0, r.cursor)
          /\ top <= r.cursor \/ top <= page.high
        BY <1>2, <1>5, <1>6, <1>7, <2>3, StoreFacts, CollectedIsComplete
    <2> QED
        BY <2>1, <2>2, <2>4 DEF Complete
  <1>12. ASSUME Admits(rows) PROVE GoodReader(t) /\ GoodHydration(t)
    <2>1. stream.last \in Nat /\ stream.last <= top
      <3>1. stream.last \in Nat /\ (~stream.present => stream.last = 0)
          BY StoreFacts DEF GoodStream, Numbers
      <3> QED
          BY <1>9, <1>10, <1>12, <3>1 DEF Admits
    <2>2. NoPage \in Pages /\ NoPage.rows = {}
        BY DEF NoPage, Pages, Marks
    <2>3. stream.present \in BOOLEAN /\ stream.streaming \in BOOLEAN
        BY StoreFacts DEF GoodStream, Streams
    <2>4. t \in ReaderStates
        BY <1>3, <1>8, <2>1, <2>2, <2>3 DEF ReaderStates
    <2>5. /\ t.pc = "project" /\ t.cursor = r.cursor /\ t.after = stream.last /\ t.rows = rows
          /\ t.page = NoPage /\ t.seen = r.seen /\ t.mark = r.mark /\ t.attempt = r.attempt
          /\ t.got = FALSE
        BY <1>3, <1>8 DEF ReaderStates
    <2>6. GoodReader(t)
        BY <1>6, <1>8, <2>2, <2>4, <2>5, StoreFacts DEF GoodReader
    <2>7. GoodHydration(t)
        BY <1>9, <1>11, <2>1, <2>5 DEF GoodHydration
    <2> QED
        BY <2>6, <2>7
  <1>13. PICK x : x = IF Admits(rows) THEN t ELSE Idle
      OBVIOUS
  <1>14. GoodReader(x) /\ GoodHydration(x)
      BY <1>12, <1>13, StoreFacts, GoodIdle
  <1>15. ReadersGood(Taken("hydration")) /\ QueriesGood(LeftAfter("hydration"))
      BY <1>4, StoreFacts, TakenIsGood
  <1>16. ReadersGood(reader') /\ QueriesGood(queries')
      BY <1>4, <1>5, <1>13, <1>14, <1>15, GoodWith
  <1> QED
      BY <1>5, <1>16, StoreFacts, QuietStep

----------------------------------------------------------------------------
(*                       Steps that apply a suffix                         *)

(* The later of two numbers.                                               *)
LEMMA LaterOf ==
    ASSUME NEW a \in Nat, NEW b \in Nat, NEW h \in Nat, h <= Max({a, b})
    PROVE  h <= a \/ h <= b
  BY MaxOfTwo

(* The page of a gap recovery, in time, with the live events it vouches    *)
(* for, leaves no stored event out.                                        *)
LEMMA GapPageIsComplete ==
    ASSUME StoreInv, NEW r, GoodReader(r), NEW page, GoodPage(page, r.cursor, r.mark),
           ~Outdated(r, page, r.cursor),
           NEW U, U = page.rows \cup Vouched(stream, ~page.more, Through(r, page)),
           NEW h \in U
    PROVE  Complete(U, stream.last, h)
  <1>1. SUFFICES ASSUME NEW n \in Durable, stream.last < n, n <= h PROVE n \in U
      BY DEF Complete
  <1>2. /\ r.cursor \in Nat /\ page.high \in Nat /\ r.live \in Nat /\ stream.last \in Nat
        /\ n \in Nat /\ page.rows \subseteq 1..Len(log) /\ stream.pending \subseteq 1..Len(log)
      BY StoreFacts DEF GoodReader, ReaderStates, GoodPage, Numbers, Durable
  <1>3. h \in Nat
      BY <1>2 DEF Vouched
  <1>4. /\ FirstSeen(r, page) \in Nat /\ r.live <= FirstSeen(r, page)
        /\ r.cursor <= stream.last
        /\ n <= FirstSeen(r, page) => n <= page.high
    <2>1. /\ FirstSeen(r, page) \in Numbers
          /\ \A m \in Durable : m <= FirstSeen(r, page) => m <= page.high
        BY MarkVouches
    <2>2. FirstSeen(r, page) \in Nat
        BY <2>1 DEF Numbers
    <2> QED
        BY <1>2, <2>1, <2>2 DEF Outdated
  <1>5. CASE page.more
    <2>1. h \in page.rows
        BY <1>5 DEF Vouched
    <2>2. h <= PageEnd(r, page) /\ PageEnd(r, page) \in Nat
        BY <1>2, <2>1, StoreFacts, PageEndIsNumber DEF GoodReader, Numbers
    <2>3. Complete(page.rows, r.cursor, PageEnd(r, page))
        BY <1>5 DEF GoodPage, PageEnd
    <2> QED
        BY <1>1, <1>2, <1>3, <1>4, <2>2, <2>3 DEF Complete
  <1>6. CASE ~page.more
    <2>1. Complete(page.rows, r.cursor, page.high)
        BY <1>6 DEF GoodPage
    <2>2. n <= page.high
      <3>1. CASE h <= page.high
          BY <1>1, <1>2, <1>3, <3>1
      <3>2. CASE h > page.high
        <4>1. h \notin page.rows
            BY <1>2, <1>3, <3>2 DEF GoodPage
        <4>2. h <= Through(r, page)
            BY <4>1 DEF Vouched
        <4>3. h <= r.live
            BY <1>2, <1>3, <3>2, <4>2, LaterOf DEF Through
        <4> QED
            BY <1>1, <1>2, <1>3, <1>4, <4>3
      <3> QED
          BY <1>2, <1>3, <3>1, <3>2
    <2> QED
        BY <1>1, <1>2, <1>4, <2>1, <2>2 DEF Complete
  <1> QED
      BY <1>5, <1>6

(* The same for the pages that the watchdog has collected.                 *)
LEMMA WatchdogIsComplete ==
    ASSUME StoreInv, NEW r, GoodReader(r), r.pc = "page",
           NEW page, GoodPage(page, r.cursor, r.mark), ~page.more,
           ~Outdated(r, page, r.after),
           NEW rows, rows = r.rows \cup page.rows,
           NEW U, U = rows \cup Vouched(stream, TRUE, WatchdogThrough(r, rows)),
           NEW h \in U
    PROVE  Complete(U, stream.last, h)
  <1>1. SUFFICES ASSUME NEW n \in Durable, stream.last < n, n <= h PROVE n \in U
      BY DEF Complete
  <1>2. /\ r.cursor \in Nat /\ page.high \in Nat /\ r.live \in Nat /\ stream.last \in Nat
        /\ r.after \in Nat /\ n \in Nat
        /\ rows \subseteq 1..Len(log) /\ stream.pending \subseteq 1..Len(log)
      BY StoreFacts DEF GoodReader, ReaderStates, GoodPage, Numbers, Durable
  <1>3. h \in Nat
      BY <1>2 DEF Vouched
  <1>4. /\ FirstSeen(r, page) \in Nat /\ r.live <= FirstSeen(r, page)
        /\ r.after <= stream.last
        /\ n <= FirstSeen(r, page) => n <= page.high
    <2>1. /\ FirstSeen(r, page) \in Numbers
          /\ \A m \in Durable : m <= FirstSeen(r, page) => m <= page.high
        BY MarkVouches
    <2>2. FirstSeen(r, page) \in Nat
        BY <2>1 DEF Numbers
    <2> QED
        BY <1>2, <2>1, <2>2 DEF Outdated
  <1>5. /\ Complete(rows, r.after, page.high) /\ Complete(rows, r.after, r.cursor)
        /\ \A x \in rows : x <= r.cursor \/ x <= page.high
      BY StoreFacts, CollectedIsComplete
  <1>6. n <= r.cursor \/ n <= page.high
    <2>1. CASE h <= r.cursor \/ h <= page.high
        BY <1>1, <1>2, <1>3, <2>1
    <2>2. CASE h > r.cursor /\ h > page.high
      <3>1. h \notin rows
          BY <1>2, <1>3, <1>5, <2>2
      <3>2. h <= WatchdogThrough(r, rows)
          BY <3>1 DEF Vouched
      <3>3. PICK b : b = IF rows = {} THEN stream.last ELSE Max(rows)
          OBVIOUS
      <3>4. b \in Nat /\ (b = stream.last \/ b \in rows)
        <4>1. Len(log) \in Nat /\ rows \in SUBSET (0..Len(log))
            BY <1>2, StoreFacts
        <4>2. rows # {} => Max(rows) \in rows /\ Max(rows) \in 0..Len(log)
            BY <4>1, MaxOf
        <4>3. CASE rows = {}
            BY <1>2, <3>3, <4>3
        <4>4. CASE rows # {}
            BY <3>3, <4>1, <4>2, <4>4
        <4> QED
            BY <4>3, <4>4
      <3>5. h <= Max({r.live, b})
          BY <3>2, <3>3 DEF WatchdogThrough
      <3>6. h <= r.live \/ h <= b
          BY <1>2, <1>3, <3>4, <3>5, LaterOf
      <3>7. ~(h <= b)
          BY <1>1, <1>2, <1>3, <1>5, <2>2, <3>4
      <3> QED
          BY <1>1, <1>2, <1>3, <1>4, <3>6, <3>7
    <2> QED
        BY <1>2, <1>3, <2>1, <2>2
  <1>7. r.after < n
      BY <1>1, <1>2, <1>4
  <1>8. n \in rows
      BY <1>5, <1>6, <1>7 DEF Complete
  <1> QED
      BY <1>8

LEMMA GapPageStep ==
    ASSUME StoreInv, GapPage
    PROVE  StoreInv' /\ Forward
  <1>1. PICK page, r : page = PageOf("gap") /\ r = reader["gap"]
      OBVIOUS
  <1>2. PICK o : o = Suffix(stream, page.rows, ~page.more, Through(r, page))
      OBVIOUS
  <1>3. PICK rs \in Reset(o, Taken("gap")) : AfterPage(r, page, o, rs)
      BY <1>1, <1>2 DEF GapPage
  <1>4. /\ Arrived("gap") /\ GapIsCurrent /\ Record(o)
        /\ late' = (late \/ Outdated(r, page, r.cursor)) /\ AfterPage(r, page, o, rs)
        /\ UNCHANGED <<log, wire, launching, runsQuery>>
      BY <1>1, <1>2, <1>3 DEF GapPage
  <1>5. "gap" \in Readers /\ "gap" # "hydration"
      BY DEF Readers
  <1>6. GoodReader(r) /\ r.pc = "page" /\ GoodPage(page, r.cursor, r.mark)
      BY <1>1, <1>4, <1>5, StoreFacts, AnswerIsGood DEF Arrived
  <1>7. page.rows \subseteq 1..Len(log) /\ page.high \in Numbers /\ r.cursor \in Numbers
      BY <1>6 DEF GoodPage, GoodReader
  <1>8. PICK U : U = page.rows \cup Vouched(stream, ~page.more, Through(r, page))
      OBVIOUS
  <1>9. PICK R, last, pending :
              /\ o = Outcome(stream, R, last, pending)
              /\ R \in SUBSET (1..Len(log)) /\ last \in Numbers
              /\ pending \in SUBSET (1..Len(log)) /\ stream.last <= last
              /\ \A m \in R : stream.last < m /\ m <= last
              /\ (\A h \in U : Complete(U, stream.last, h)) => Complete(R, stream.last, last)
    <2>1. PICK more, through : more = ~page.more /\ through = Through(r, page)
        OBVIOUS
    <2>2. o = Suffix(stream, page.rows, more, through)
          /\ U = page.rows \cup Vouched(stream, more, through)
        BY <1>2, <1>8, <2>1
    <2>3. Applies(o, stream, U)
        BY <1>7, <2>2, StoreFacts, SuffixApplies
    <2> QED
        BY <2>3 DEF Applies
  <1>10. stream.present = TRUE
      BY <1>4, StoreFacts DEF GapIsCurrent, GoodStream, Streams
  <1>11. GoodStream(o.stream) /\ o.stream.last = last
    <2>1. WellShaped(Outcome(stream, R, last, pending), R, last)
        BY <1>9, <1>10, StoreFacts, OutcomeShape
    <2> QED
        BY <1>9, <2>1 DEF WellShaped
  <1>12. ReadersGood(rs) /\ QueriesGood(LeftAfter("gap"))
      BY <1>3, <1>5, StoreFacts, TakenIsGood, GoodReset
  <1>13. PICK end, high : end = PageEnd(r, page) /\ high = page.high
      OBVIOUS
  <1>14. end \in Numbers /\ high \in Numbers
      BY <1>7, <1>13, StoreFacts, PageEndIsNumber
  <1>15. /\ GoodStream(stream') /\ stream'.last = last
         /\ ReadersGood(reader') /\ QueriesGood(queries')
    <2>1. CASE page.more
      <3>1. PICK t : t = Continued(r, page)
          OBVIOUS
      <3>2. GoodReader(t)
          BY <1>6, <2>1, <3>1, StoreFacts, GoodContinued
      <3>3. /\ reader' = [rs EXCEPT !["gap"] = t] /\ stream' = o.stream
            /\ queries' = Join(LeftAfter("gap"), end, high)
          BY <1>4, <1>13, <2>1, <3>1 DEF AfterPage
      <3>4. ReadersGood(reader')
          BY <1>5, <1>12, <3>2, <3>3, GoodWith
      <3>5. QueriesGood(queries')
          BY <1>12, <1>14, <3>3, StoreFacts, GoodJoin DEF QueriesGood
      <3> QED
          BY <1>11, <3>3, <3>4, <3>5
    <2>2. CASE ~page.more
      <3>1. PICK t : t = EndAttempt(r, end)
          OBVIOUS
      <3>2. GoodReader(t)
          BY <1>6, <1>14, <3>1, StoreFacts, GoodEndAttempt
      <3>3. /\ queries' = LeftAfter("gap")
            /\ \/ reader' = [rs EXCEPT !["gap"] = Idle]
               \/ reader' = [rs EXCEPT !["gap"] = t]
            /\ stream' = o.stream \/ stream' = GivenUp(o.stream)
          BY <1>4, <1>13, <2>2, <3>1 DEF AfterPage
      <3>4. ReadersGood(reader')
          BY <1>5, <1>12, <3>2, <3>3, StoreFacts, GoodIdle, GoodWith
      <3>5. GoodStream(stream') /\ stream'.last = last
          BY <1>11, <3>3, GoodLeft
      <3> QED
          BY <1>12, <3>3, <3>4, <3>5
    <2> QED
        BY <2>1, <2>2
  <1>16. ASSUME ~late' PROVE ~late /\ Complete(R, stream.last, last)
    <2>1. ~late /\ ~Outdated(r, page, r.cursor)
        BY <1>4, <1>16
    <2>2. \A h \in U : Complete(U, stream.last, h)
        BY <1>6, <1>8, <2>1, GapPageIsComplete
    <2> QED
        BY <1>9, <2>1, <2>2
  <1>17. late' \in BOOLEAN
      BY <1>4, StoreFacts DEF Outdated
  <1>18. Record(Outcome(stream, R, last, pending))
      BY <1>4, <1>9
  <1> QED
      BY <1>4, <1>9, <1>10, <1>15, <1>16, <1>17, <1>18, StoreFacts, ApplyStep

LEMMA WatchdogOutcomeStep ==
    ASSUME StoreInv, WatchdogOutcome
    PROVE  StoreInv' /\ Forward
  <1>1. PICK page, r : page = PageOf("watchdog") /\ r = reader["watchdog"]
      OBVIOUS
  <1>2. PICK rows, through : rows = r.rows \cup page.rows /\ through = WatchdogThrough(r, rows)
      OBVIOUS
  <1>3. PICK o : o = Suffix(stream, rows, TRUE, through)
      OBVIOUS
  <1>4. /\ Arrived("watchdog") /\ ~page.more /\ WatchdogIsCurrent /\ Record(o)
        /\ stream' = Settled(o.stream, r.status)
        /\ late' = (late \/ Outdated(r, page, r.after))
        /\ reader' = [Taken("watchdog") EXCEPT !["watchdog"] = Idle]
        /\ queries' = LeftAfter("watchdog")
        /\ UNCHANGED <<log, wire, launching, runsQuery>>
      BY <1>1, <1>2, <1>3 DEF WatchdogOutcome
  <1>5. "watchdog" \in Readers
      BY DEF Readers
  <1>6. GoodReader(r) /\ r.pc = "page" /\ GoodPage(page, r.cursor, r.mark)
      BY <1>1, <1>4, <1>5, StoreFacts, AnswerIsGood DEF Arrived
  <1>7. rows \subseteq 1..Len(log)
      BY <1>2, <1>6 DEF GoodPage, GoodReader
  <1>8. PICK U : U = rows \cup Vouched(stream, TRUE, through)
      OBVIOUS
  <1>9. PICK R, last, pending :
              /\ o = Outcome(stream, R, last, pending)
              /\ R \in SUBSET (1..Len(log)) /\ last \in Numbers
              /\ pending \in SUBSET (1..Len(log)) /\ stream.last <= last
              /\ \A m \in R : stream.last < m /\ m <= last
              /\ (\A h \in U : Complete(U, stream.last, h)) => Complete(R, stream.last, last)
    <2>1. Applies(o, stream, U)
        BY <1>3, <1>7, <1>8, StoreFacts, SuffixApplies
    <2> QED
        BY <2>1 DEF Applies
  <1>10. stream.present = TRUE
      BY <1>4, StoreFacts DEF WatchdogIsCurrent, GoodStream, Streams
  <1>11. GoodStream(o.stream) /\ o.stream.last = last
    <2>1. WellShaped(Outcome(stream, R, last, pending), R, last)
        BY <1>9, <1>10, StoreFacts, OutcomeShape
    <2> QED
        BY <1>9, <2>1 DEF WellShaped
  <1>12. GoodStream(stream') /\ stream'.last = last
      BY <1>4, <1>11, GoodLeft
  <1>13. ReadersGood(reader') /\ QueriesGood(queries')
      BY <1>4, <1>5, LeavesIdle
  <1>14. ASSUME ~late' PROVE ~late /\ Complete(R, stream.last, last)
    <2>1. ~late /\ ~Outdated(r, page, r.after)
        BY <1>4, <1>14
    <2>2. \A h \in U : Complete(U, stream.last, h)
        BY <1>2, <1>4, <1>6, <1>8, <2>1, WatchdogIsComplete
    <2> QED
        BY <1>9, <2>1, <2>2
  <1>15. late' \in BOOLEAN
      BY <1>4, StoreFacts DEF Outdated
  <1>16. Record(Outcome(stream, R, last, pending))
      BY <1>4, <1>9
  <1> QED
      BY <1>4, <1>9, <1>10, <1>12, <1>13, <1>14, <1>15, <1>16, StoreFacts, ApplyStep

----------------------------------------------------------------------------
(*                       Hydration and new streams                         *)

LEMMA AllProcessed ==
    ASSUME log \in Seq(Kinds), EndIsLast, NEW R \in SUBSET (1..Len(log))
    PROVE  Processed(R) = R
  <1>1. ASSUME NEW n \in R, NEW x \in R, IsTerminal(log[x]) PROVE n <= x
    <2>1. x = Len(log) /\ n \in 1..Len(log) /\ Len(log) \in Nat
        BY <1>1 DEF EndIsLast
    <2> QED
        BY <2>1
  <1> QED
      BY <1>1 DEF Processed

(* A restore that does not own the projection any more leaves it alone;    *)
(* one that does replaces it by every stored event up to a later cursor.   *)
LEMMA CommitHydrationStep ==
    ASSUME StoreInv, CommitHydration
    PROVE  StoreInv' /\ Forward
  <1>1. PICK r, owns : r = reader["hydration"] /\ owns = OwnsRestore(r)
      OBVIOUS
  <1>2. PICK P, top : P = Processed(r.rows) /\ top = Highest(P)
      OBVIOUS
  <1>3. PICK B : B = IF EndsWith(P) THEN {} ELSE Processed(Following(top, stream.pending))
      OBVIOUS
  <1>4. PICK S, last : S = P \cup B /\ last = Highest(S)
      OBVIOUS
  <1>5. PICK running, pending, visible :
            /\ running = (r.status = "active" /\ ~EndsWith(S))
            /\ pending = IF EndsWith(S) THEN {} ELSE {n \in stream.pending : n > last}
            /\ visible = (S # {})
      OBVIOUS
  <1>6. /\ r.pc = "project" /\ UNCHANGED <<log, wire, launching, queries, runsQuery, late>>
        /\ owns =>
             /\ stream' = [Fresh EXCEPT !.streaming = running, !.timer = running, !.last = last,
                                        !.pending = pending, !.visible = visible]
             /\ shown' = InOrder(S) /\ hidden' = {}
        /\ ~owns => UNCHANGED <<stream, shown, hidden>>
      BY <1>1, <1>2, <1>3, <1>4, <1>5 DEF CommitHydration
  <1>7. "hydration" \in Readers /\ "watchdog" \in Readers /\ "watchdog" # "hydration"
      BY DEF Readers
  <1>8. GoodReader(r) /\ GoodHydration(r) /\ owns \in BOOLEAN
      BY <1>1, <1>7, StoreFacts DEF ReadersGood, OwnsRestore
  <1>9. ReadersGood(reader')
    <2>1. PICK rs : rs = [reader EXCEPT !["hydration"] = Idle]
        OBVIOUS
    <2>2. ReadersGood(rs)
        BY <1>7, <2>1, StoreFacts, GoodIdle, GoodWith
    <2>3. ReadersGood(NewState(rs))
        BY <2>2, GoodNewState
    <2>4. \/ reader' \in NewGeneration(NewState(rs))
          \/ reader' = NewState(rs)
          \/ reader' = rs
        BY <2>1 DEF CommitHydration
    <2> QED
        BY <2>2, <2>3, <2>4, GoodNewGeneration
  <1>10. CASE ~owns
      BY <1>6, <1>9, <1>10, StoreFacts, QuietStep DEF historyVars
  <1>11. CASE owns
    <2>1. Len(log) \in Nat /\ P = r.rows /\ P \in SUBSET (1..Len(log))
          /\ P \in SUBSET (0..Len(log))
        BY <1>2, <1>8, StoreFacts, AllProcessed DEF GoodReader
    <2>2. top \in 0..Len(log) /\ \A y \in P : y <= top
        BY <1>2, <2>1, HighestOf
    <2>3. PICK F : F = Following(top, stream.pending)
        OBVIOUS
    <2>4. F \in SUBSET (1..Len(log))
        BY <2>3, StoreFacts DEF Following
    <2>5. Processed(F) = F
        BY <2>4, StoreFacts, AllProcessed
    <2>6. B \subseteq F
        BY <1>3, <2>3, <2>5
    <2>7. S \in SUBSET (1..Len(log)) /\ S \in SUBSET (0..Len(log))
      <3>1. \A x \in S : x \in 1..Len(log)
          BY <1>4, <2>1, <2>4, <2>6
      <3>2. \A x \in 1..Len(log) : x \in 0..Len(log)
          BY <2>1
      <3> QED
          BY <3>1, <3>2
    <2>8. last \in 0..Len(log) /\ (last \in S \/ last = 0) /\ \A y \in S : y <= last
        BY <1>4, <2>1, <2>7, HighestOf
    <2>9. top \in Nat /\ last \in Nat /\ stream.last \in Nat
        BY <2>2, <2>8, StoreFacts DEF Numbers
    <2>10. stream.last <= top /\ Complete(P, 0, top)
      <3>1. Complete(r.rows, 0, Highest(r.rows)) /\ r.after <= Highest(r.rows)
          BY <1>6, <1>8 DEF GoodHydration
      <3>2. stream.last = r.after
          BY <1>1, <1>11 DEF OwnsRestore
      <3> QED
          BY <1>2, <2>1, <3>1, <3>2
    <2>11. top <= last
      <3>1. top \in P \/ top = 0
          BY <1>2, <2>1, HighestOf
      <3>2. \A x \in P : x <= last
          BY <1>4, <2>8
      <3> QED
          BY <2>9, <3>1, <3>2
    <2>12. ASSUME NEW n \in Durable, n <= last PROVE n \in S
      <3>1. n \in Nat /\ 0 < n
          BY StoreFacts DEF Durable
      <3>2. CASE n <= top
          BY <1>4, <2>10, <3>1, <3>2 DEF Complete
      <3>3. CASE top < n
        <4>1. last \in S /\ last \notin P
            BY <2>2, <2>8, <2>9, <2>12, <3>1, <3>3
        <4>2. last \in B
            BY <1>4, <4>1
        <4>3. B = F
            BY <1>3, <2>3, <2>5, <4>2
        <4>4. stream.pending \in SUBSET (1..Len(log)) /\ last \in Following(top, stream.pending)
            BY <2>3, <4>2, <4>3, StoreFacts
        <4>5. n \in F
            BY <2>1, <2>3, <2>9, <2>12, <3>1, <3>3, <4>4, FollowingIsComplete
        <4> QED
            BY <1>4, <4>3, <4>5
      <3> QED
          BY <2>9, <3>1, <3>2, <3>3
    <2>13. GoodStream(stream') /\ stream'.last = last
      <3>1. running \in BOOLEAN /\ visible \in BOOLEAN /\ pending \subseteq 1..Len(log)
            /\ pending \in SUBSET Nat
          BY <1>5, StoreFacts
      <3>2. Fresh \in Streams /\ Fresh.present
          BY StoreFacts, GoodFresh DEF GoodStream
      <3>3. PICK t : t = stream'
          OBVIOUS
      <3>4. /\ t \in Streams /\ t.last = last /\ t.pending = pending /\ t.present = Fresh.present
          BY <1>6, <1>11, <2>9, <3>1, <3>2, <3>3 DEF Streams
      <3>5. GoodStream(t)
          BY <2>8, <3>1, <3>2, <3>4 DEF GoodStream, Numbers
      <3> QED
          BY <3>3, <3>4, <3>5
    <2>14. /\ shown' \in Seq(S) /\ (\A t \in S : \E i \in 1..Len(shown') : shown'[i] = t)
           /\ \A i, j \in 1..Len(shown') : i < j => shown'[i] < shown'[j]
      <3>1. shown' = InOrder(S)
          BY <1>6, <1>11
      <3>2. PICK q : q = InOrder(S)
          OBVIOUS
      <3>3. /\ q \in Seq(S) /\ (\A t \in S : \E i \in 1..Len(q) : q[i] = t)
            /\ \A i, j \in 1..Len(q) : i < j => q[i] < q[j]
          BY <2>1, <2>7, <3>2, InOrderLists
      <3>4. shown' = q
          BY <3>1, <3>2
      <3> QED
          BY <3>3, <3>4
    <2>15. /\ Len(shown') \in Nat /\ DOMAIN shown' = 1..Len(shown')
           /\ \A i \in 1..Len(shown') : shown'[i] \in S
        BY <2>14
    <2>16. \A i \in 1..Len(shown') : /\ shown'[i] \in Nat
                                     /\ 0 < shown'[i] /\ shown'[i] <= last
      <3>1. \A x \in S : x \in 1..Len(log) /\ x <= last
          BY <2>7, <2>8
      <3>2. \A x \in S : x \in Nat /\ 0 < x /\ x <= last
          BY <3>1
      <3> QED
          BY <2>15, <3>2
    <2>17. shown' \in Seq(Nat)
      <3>1. shown' = [i \in 1..Len(shown') |-> shown'[i]]
          BY <2>14
      <3>2. shown' \in [1..Len(shown') -> Nat]
          BY <2>16, <3>1
      <3> QED
          BY <2>15, <3>2
    <2>18. ToSet(shown') = S
        BY <2>14, <2>15 DEF ToSet
    <2>19. ShownInv'
        BY <2>13, <2>14, <2>15, <2>16, <2>17 DEF ShownInv, ShownInOrder, ShownBelow
    <2>20. Durable' = Durable /\ Numbers' = Numbers
        BY <1>6, SameLog
    <2>21. NothingSkippedInTime'
        BY <2>12, <2>13, <2>18, <2>20 DEF NothingSkippedInTime, NothingSkipped
    <2>22. Forward
      <3>1. ASSUME NEW x \in Durable, x \in ToSet(shown) PROVE x \in S
        <4>1. shown \in Seq(Nat) /\ ShownBelow
            BY DEF StoreInv, ShownInv
        <4>2. PICK i \in 1..Len(shown) : x = shown[i]
            BY <3>1, <4>1 DEF ToSet
        <4>3. x \in Nat /\ x <= stream.last
            BY <4>1, <4>2 DEF ShownBelow
        <4>4. x <= last
            BY <2>9, <2>10, <2>11, <4>3
        <4> QED
            BY <2>12, <4>4
      <3>2. last >= stream.last
          BY <2>9, <2>10, <2>11
      <3> QED
          BY <2>13, <2>18, <3>1, <3>2 DEF Forward
    <2>23. TypedInv' /\ EndIsLast'
        BY <1>6 DEF StoreInv, TypedInv, EndIsLast
    <2>24. WindowInv'
      <3>1. GoodStream(stream)'
          BY <1>6, <2>13, <2>20 DEF GoodStream
      <3>2. ReadersGood(reader)'
          BY <1>6, <1>9, SameLog DEF ReadersGood
      <3>3. QueriesGood(queries)'
          BY <1>6, StoreFacts, SameLog DEF QueriesGood
      <3> QED
          BY <3>1, <3>2, <3>3 DEF WindowInv
    <2> QED
        BY <2>19, <2>21, <2>22, <2>23, <2>24 DEF StoreInv
  <1> QED
      BY <1>8, <1>10, <1>11

(* A projection that has shown nothing yet.                                *)
LEMMA NewStreamStep ==
    ASSUME StoreInv, UNCHANGED log, wire' \subseteq wire, launching' \in BOOLEAN,
           runsQuery' \in Statuses, late' \in BOOLEAN, GoodStream(stream'), stream'.last = 0,
           ReadersGood(reader'), QueriesGood(queries'), shown' = <<>>
    PROVE  StoreInv'
  <1>1. Durable' = Durable /\ Numbers' = Numbers
      BY SameLog
  <1>2. TypedInv' /\ EndIsLast'
      BY DEF StoreInv, TypedInv, EndIsLast
  <1>3. WindowInv'
    <2>1. GoodStream(stream)'
        BY <1>1 DEF GoodStream
    <2>2. ReadersGood(reader)' /\ QueriesGood(queries)'
        BY SameLog DEF ReadersGood, QueriesGood
    <2> QED
        BY <2>1, <2>2 DEF WindowInv
  <1>4. ShownInv'
      BY DEF ShownInv, ShownInOrder, ShownBelow
  <1>5. \A n \in Durable : ~(n <= 0)
      BY StoreFacts DEF Durable
  <1>6. NothingSkippedInTime'
      BY <1>1, <1>5 DEF NothingSkippedInTime, NothingSkipped
  <1> QED
      BY <1>2, <1>3, <1>4, <1>6 DEF StoreInv

LEMMA StartStreamStep ==
    ASSUME StoreInv, StartStream
    PROVE  StoreInv'
  <1>1. PICK rs : rs = IF reader["hydration"].pc = "project"
                       THEN [reader EXCEPT !["hydration"] = Idle] ELSE reader
      OBVIOUS
  <1>2. /\ stream' = [Fresh EXCEPT !.timer = TRUE] /\ launching' = TRUE
        /\ reader' \in NewGeneration(NewState(rs))
        /\ shown' = <<>> /\ UNCHANGED <<log, wire, queries, runsQuery, late>>
      BY <1>1 DEF StartStream
  <1>3. ReadersGood(rs)
      BY <1>1, StoreFacts, GoodIdle, GoodWith DEF Readers
  <1>4. ReadersGood(reader')
      BY <1>2, <1>3, GoodNewState, GoodNewGeneration
  <1>5. GoodStream(stream') /\ stream'.last = 0
      BY <1>2, StoreFacts, GoodFresh
  <1> QED
      BY <1>2, <1>4, <1>5, StoreFacts, NewStreamStep

LEMMA ReloadStep ==
    ASSUME StoreInv, Reload
    PROVE  StoreInv'
  <1>1. /\ stream' = Absent /\ launching' = FALSE /\ wire' = {}
        /\ reader' = [p \in Readers |-> Idle] /\ queries' = {} /\ runsQuery' = "none"
        /\ shown' = <<>> /\ late' = FALSE /\ UNCHANGED log
      BY DEF Reload
  <1>2. ReadersGood(reader')
      BY <1>1, StoreFacts, GoodIdle DEF ReadersGood, Readers
  <1>3. GoodStream(stream') /\ stream'.last = 0
      BY <1>1, StoreFacts, GoodFresh
  <1>4. QueriesGood(queries') /\ runsQuery' \in Statuses
      BY <1>1 DEF QueriesGood, Statuses
  <1> QED
      BY <1>1, <1>2, <1>3, <1>4, NewStreamStep

----------------------------------------------------------------------------
(*                       The theorems                                      *)

LEMMA StoreInit == Init => StoreInv
  <1> SUFFICES ASSUME Init PROVE StoreInv
      OBVIOUS
  <1> USE DEF Init
  <1>1. log \in Seq(Kinds) /\ Len(log) = 0
      OBVIOUS
  <1>2. TypedInv /\ EndIsLast
    <2>1. 1..Len(log) = {}
        BY <1>1
    <2>2. TypedInv
        BY <1>1 DEF TypedInv, Statuses
    <2> QED
        BY <2>1, <2>2 DEF EndIsLast
  <1>3. GoodStream(stream) /\ stream.last = 0
      BY <1>1, GoodFresh
  <1>4. ReadersGood(reader) /\ QueriesGood(queries)
      BY <1>1, GoodIdle DEF ReadersGood, QueriesGood, Readers
  <1>5. ShownInv
      BY DEF ShownInv, ShownInOrder, ShownBelow
  <1>6. NothingSkippedInTime
      BY <1>1 DEF NothingSkippedInTime, NothingSkipped, Durable
  <1> QED
      BY <1>2, <1>3, <1>4, <1>5, <1>6 DEF StoreInv, WindowInv

LEMMA RecoverStep ==
    ASSUME StoreInv, Recover
    PROVE  StoreInv' /\ Forward
  <1>1. CASE \E q \in queries : ReadPage(q)
      BY <1>1, ReadPageStep
  <1>2. CASE GapPage \/ GapRetry \/ GapIsStale
      BY <1>2, GapPageStep, GapRetryStep, GapIsStaleStep
  <1>3. CASE ReadRuns \/ WatchdogFires \/ WatchdogRuns
      BY <1>3, ReadRunsStep, WatchdogFiresStep, WatchdogRunsStep
  <1>4. CASE WatchdogNextPage \/ HydrationNextPage
      BY <1>4, NextPageStep DEF WatchdogNextPage, HydrationNextPage, Readers
  <1>5. CASE WatchdogIsStale \/ WatchdogOutcome
      BY <1>5, WatchdogIsStaleStep, WatchdogOutcomeStep
  <1>6. CASE AdmitHydration \/ CommitHydration
      BY <1>6, AdmitHydrationStep, CommitHydrationStep
  <1> QED
      BY <1>1, <1>2, <1>3, <1>4, <1>5, <1>6 DEF Recover

(* Reloads and new streams are counted.                                    *)
LEMMA ReloadsCounted ==
    ASSUME Next, reloads \in Nat
    PROVE  reloads' \in Nat
  <1> USE DEF boundVars
  <1>1. CASE \E k \in Kinds, lost \in BOOLEAN : Emit(k, lost)
      BY <1>1 DEF Emit
  <1>2. CASE \E n \in wire : Dispatch(n)
      BY <1>2 DEF Dispatch
  <1>3. CASE BindTurnHandle \/ SendError \/ Heartbeat \/ MarkResumableSuspension
      BY <1>3 DEF BindTurnHandle, SendError, Heartbeat, MarkResumableSuspension
  <1>4. CASE BeginHydration
      BY <1>4 DEF BeginHydration
  <1>5. CASE \E p \in Readers : DeadlinePasses(p)
      BY <1>5 DEF DeadlinePasses, Fail
  <1>6. CASE \E q \in queries : PageQueryFails(q)
      BY <1>6 DEF PageQueryFails, Fail
  <1>7. CASE RunsQueryFails
      BY <1>7 DEF RunsQueryFails, Fail
  <1>8. CASE Recover
    <2>1. CASE \E q \in queries : ReadPage(q)
        BY <2>1 DEF ReadPage
    <2>2. CASE GapPage \/ GapRetry \/ GapIsStale
        BY <2>2 DEF GapPage, GapRetry, GapIsStale
    <2>3. CASE ReadRuns \/ WatchdogFires \/ WatchdogRuns
        BY <2>3 DEF ReadRuns, WatchdogFires, WatchdogRuns
    <2>4. CASE WatchdogNextPage \/ HydrationNextPage
        BY <2>4 DEF WatchdogNextPage, HydrationNextPage, NextPage
    <2>5. CASE WatchdogIsStale \/ WatchdogOutcome
        BY <2>5 DEF WatchdogIsStale, WatchdogOutcome
    <2>6. CASE AdmitHydration \/ CommitHydration
        BY <2>6 DEF AdmitHydration, CommitHydration
    <2> QED
        BY <1>8, <2>1, <2>2, <2>3, <2>4, <2>5, <2>6 DEF Recover
  <1>9. CASE StartStream \/ Reload
      BY <1>9 DEF StartStream, Reload
  <1> QED
      BY <1>1, <1>2, <1>3, <1>4, <1>5, <1>6, <1>7, <1>8, <1>9 DEF Next

(* Every step keeps the invariant, and only a reload or a new stream goes  *)
(* back.                                                                   *)
LEMMA StoreNext ==
    ASSUME StoreInv, reloads \in Nat, Next
    PROVE  StoreInv' /\ (reloads' = reloads => Forward)
  <1>1. CASE \E k \in Kinds, lost \in BOOLEAN : Emit(k, lost)
      BY <1>1, EmitStep
  <1>2. CASE \E n \in wire : Dispatch(n)
      BY <1>2, DispatchStep
  <1>3. CASE BindTurnHandle \/ SendError \/ Heartbeat \/ MarkResumableSuspension
      BY <1>3, BindTurnHandleStep, SendErrorStep, HeartbeatStep, SuspensionStep
  <1>4. CASE BeginHydration
      BY <1>4, BeginHydrationStep
  <1>5. CASE \E p \in Readers : DeadlinePasses(p)
      BY <1>5, DeadlineStep
  <1>6. CASE \E q \in queries : PageQueryFails(q)
      BY <1>6, PageQueryFailsStep
  <1>7. CASE RunsQueryFails
      BY <1>7, RunsQueryFailsStep
  <1>8. CASE Recover
      BY <1>8, RecoverStep
  <1>9. CASE StartStream \/ Reload
    <2>1. StoreInv'
        BY <1>9, StartStreamStep, ReloadStep
    <2>2. reloads' = reloads + 1
        BY <1>9 DEF StartStream, Reload
    <2> QED
        BY <2>1, <2>2
  <1> QED
      BY <1>1, <1>2, <1>3, <1>4, <1>5, <1>6, <1>7, <1>8, <1>9 DEF Next

LEMMA StoreStutters ==
    ASSUME StoreInv, UNCHANGED vars
    PROVE  StoreInv' /\ Forward
  <1> USE DEF vars, windowVars, historyVars
  <1> QED
      BY StoreFacts, QuietStep

LEMMA StoreCorrect == Spec => [](StoreInv /\ reloads \in Nat)
  <1> DEFINE Inv == StoreInv /\ reloads \in Nat
  <1>1. Init => Inv
      BY StoreInit DEF Init
  <1>2. Inv /\ [Next]_vars => Inv'
    <2>1. ASSUME Inv, Next PROVE Inv'
        BY <2>1, StoreNext, ReloadsCounted
    <2>2. ASSUME Inv, UNCHANGED vars PROVE Inv'
        BY <2>2, StoreStutters DEF vars, boundVars
    <2> QED
        BY <2>1, <2>2
  <1> HIDE DEF Inv
  <1>3. Spec => []Inv
      BY <1>1, <1>2, PTL DEF Spec
  <1> QED
      BY <1>3 DEF Inv

(* streamStore keeps its fields within their values: the cursor and the    *)
(* buffer speak of events of the run, and no gap recovery begins more than *)
(* MAX_GAP_RECOVERY_ATTEMPTS attempts, however its queries fail.           *)
THEOREM StoreTyped == Spec => []TypeOK
  <1>1. StoreInv => TypeOK
    <2> SUFFICES ASSUME StoreInv PROVE TypeOK
        OBVIOUS
    <2>1. log \in Seq(Kinds) /\ DOMAIN log = 1..Len(log)
        BY StoreFacts
    <2>2. stream \in [present : BOOLEAN, bound : BOOLEAN, streaming : BOOLEAN,
                      last : Nat, pending : SUBSET DOMAIN log, timer : BOOLEAN,
                      visible : BOOLEAN]
        BY <2>1, StoreFacts DEF GoodStream, Streams
    <2>3. ASSUME NEW p \in Readers
          PROVE  /\ reader[p].pc \in {"idle", "runs", "page", "delay", "project"}
                 /\ reader[p].page.rows \subseteq DOMAIN log
                 /\ reader[p].attempt < MaxAttempts
        BY <2>1, StoreFacts DEF GoodReader, ReaderStates
    <2> QED
        BY <2>1, <2>2, <2>3 DEF TypeOK, StoreInv, TypedInv, Statuses
  <1> QED
      BY <1>1, StoreCorrect, PTL

(* applyOrderedRunEvent, applyAuthoritativeRunEventSuffix and              *)
(* restoreProjectedState together never show an event of the run twice or  *)
(* out of order.                                                           *)
THEOREM ShownOrdered == Spec => []ShownInOrder
  <1>1. StoreInv => ShownInOrder
      BY DEF StoreInv, ShownInv
  <1> QED
      BY <1>1, StoreCorrect, PTL

(* takeAuthoritativeRunEventSuffix moves the cursor over the numbers that  *)
(* its pages do not hold: unless a page was read before the live events it *)
(* is taken to vouch for, none of them is a stored event.                  *)
THEOREM NoEventSkipped == Spec => []NothingSkippedInTime
  <1>1. StoreInv => NothingSkippedInTime
      BY DEF StoreInv
  <1> QED
      BY <1>1, StoreCorrect, PTL

(* admits and ownsRestore keep a restore, however late, from replacing a   *)
(* projection by an older one.                                             *)
THEOREM RestoresGoForward == Spec => NeverRollsBack
  <1> DEFINE Inv == StoreInv /\ reloads \in Nat
             Step == reloads' = reloads => Forward
  <1>1. Inv /\ [Next]_vars => Step
    <2>1. ASSUME Inv, Next PROVE Step
        BY <2>1, StoreNext
    <2>2. ASSUME Inv, UNCHANGED vars PROVE Step
        BY <2>2, StoreStutters
    <2> QED
        BY <2>1, <2>2
  <1>2. Spec => []Inv
      BY StoreCorrect
  <1> HIDE DEF Inv, Step
  <1>3. Spec => [][Step]_vars
      BY <1>1, <1>2, PTL DEF Spec
  <1> QED
      BY <1>3 DEF Step, Forward, NeverRollsBack
=============================================================================

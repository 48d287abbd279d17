------------------------- MODULE SegmentCacheProofs -------------------------
(***************************************************************************)
(* What the history cache of a series guarantees for every set of clients, *)
(* every finite set of bars, every period and page size and every bound.   *)
(***************************************************************************)
EXTENDS SegmentCache, FiniteSetTheorems, WellFoundedInduction, TLAPS

USE CacheAssumption

(***************************************************************************)
(* Hypotheses of the theorems.  Type correctness needs none of them.       *)
(***************************************************************************)

\* A bar begins when the one before it has ended, as it does in every period but
\* the month, which _period_ms takes for 31 days.
SpacedBars == \A a, b \in Bars : a < b => a + Period <= b

\* One client alone, and neither a death nor any damage.
Undisturbed == (\A c, d \in Clients : c = d) /\ MaxFaults = 0

(***************************************************************************)
(* The type invariant, stronger than TypeOK: files, index and queries by   *)
(* themselves.                                                             *)
(***************************************************************************)
Files == [first : Ticks, past : Ticks, count : 1 .. Cardinality(Bars),
          made : 1 .. Horizon, rows : SUBSET Bars]

\* The rows of a file lie between its ends, none of them in the future, and it ends
\* no later than the period of one of them.
FileOK(f) ==
  /\ f \in Files
  /\ \A b \in f.rows : f.first <= b /\ b < f.past /\ b <= clock
  /\ \E b \in f.rows : f.past <= b + Period

AllOK(fs) == \A f \in fs : FileOK(f)

QueryTypes == [at : Points, lo : Nat, hi : Nat, limited : BOOLEAN, asked : Nat,
               todo : SUBSET Ticks, read : SUBSET Bars, page : SUBSET Bars]

\* What the place of a query tells of its range, of what it still asks for and of its
\* page.
QueryOK(q) ==
  /\ q \in QueryTypes
  /\ q.at # "idle" => /\ 1 <= q.lo /\ q.lo <= q.hi
                      /\ q.hi <= q.asked + Ahead /\ q.asked <= clock
  /\ q.todo \subseteq q.lo .. q.hi
  /\ q.at \in {"fetch", "store"} => q.todo # {}
  /\ q.at \in {"idle", "load"} => q.todo = {}
  /\ q.at \in {"fetch", "store"} /\ q.limited => q.todo = q.lo .. q.hi
  /\ q.at \in {"covered"} => q.limited
  /\ q.at = "load" => ~q.limited
  /\ q.at = "store" <=> q.page # {}
  /\ \A b \in q.page : b <= clock /\ b \in q.todo

DiskOK ==
  /\ \A f \in files : FileOK(f)
  /\ names \subseteq Names
  /\ coverage \subseteq Ticks
  /\ indexed \in BOOLEAN

TypeInv ==
  /\ clock \in Start .. Horizon
  /\ DiskOK
  /\ client \in [Clients -> QueryTypes]
  /\ \A c \in Clients : QueryOK(client[c])
  /\ queries \in 0 .. MaxQueries
  /\ faults \in 0 .. MaxFaults
  /\ torn \in BOOLEAN
  /\ lost \subseteq Bars

(***************************************************************************)
(* The inductive invariant of the answers: StoreInv and RangesHeld.        *)
(***************************************************************************)

\* A segment has all bars of its range, and begins with one.
Whole(f) ==
  /\ f.first \in f.rows
  /\ \A b \in Bars : f.first <= b /\ b < f.past => b \in f.rows

WholeFiles == \A f \in files : Whole(f)

\* Files that are whole; two of the same name are the same (FineNamed), so that no
\* os.replace takes a row away.
Fine(fs) == \A f \in fs : FileOK(f) /\ Whole(f)
Named(fs) == \A f, g \in fs : Name(f) = Name(g) => f = g

\* A page leaves out no bar between two of its bars.
Solid(rows) == \A b \in Bars, m, n \in rows : m <= b /\ b <= n => b \in rows
SolidPages == \A c \in Clients : Solid(client[c].page)

\* A page holds all bars of what it covers.
PageWhole(q) == \A b \in Bars : b \in PageCoverage(q) => b \in q.page
PagesWhole == \A c \in Clients : client[c].at = "store" => PageWhole(client[c])

\* The rows a reader finds, whether the index is there or rebuilt.
KnownRows == RowsOf(Listed(files, KnownNames))

\* The listed files hold what the index counts as covered, but for lost rows.
CoverageHeld ==
  ~torn /\ indexed =>
    Bars \cap coverage \subseteq RowsOf(Listed(files, names)) \cup lost

StoreInv == WholeFiles /\ SolidPages /\ PagesWhole /\ CoverageHeld

\* What a range query does not ask for any more is known.
RangeOf(q) == \A b \in Bars \ lost :
                b \in (q.lo .. q.hi) \ q.todo /\ b <= q.asked => b \in KnownRows
Ranged(q) == ~q.limited /\ q.at \in {"fetch", "store", "load"}
RangesHeld == \A c \in Clients : ~torn /\ Ranged(client[c]) => RangeOf(client[c])

(***************************************************************************)
(* The invariants of the two other theorems.                               *)
(***************************************************************************)

\* A tick that has come, or that belongs to a bar that has.
Reached(t) == t <= clock \/ \E b \in Bars : b <= clock /\ t < b + Period
CoverageReached == \A t \in coverage : Reached(t)

NothingLost == faults = 0 /\ torn = FALSE /\ lost = {}

\* What a limited query has read are still the newest rows of its range.
NewestRows(rows, n) == {b \in rows : Cardinality({u \in rows : u >= b}) <= n}
ReadIsCurrent ==
  \A c \in Clients : LET q == client[c] IN
    q.at = "covered" => q.read = NewestRows(Held(q.lo, q.hi), Limit)

\* An upper bound of all numbers in the name of a file.
Bound == Horizon + Ahead + Period + Cardinality(Bars)

-----------------------------------------------------------------------------
(***************************************************************************)
(* Least and greatest members.                                             *)
(***************************************************************************)

\* Every set of natural numbers has a least member, by the well-foundedness of <.
LEMMA LeastOf ==
  ASSUME NEW S \in SUBSET Nat, S # {}
  PROVE  \E x \in S : \A y \in S : x <= y
<1> DEFINE R == {ss \in Nat \X Nat : ss[1] < ss[2]}
<1>1. IsWellFoundedOn(R, Nat)
  BY NatLessThanWellFounded DEF OpToRel
<1>2. \A x, y \in Nat : <<y, x>> \in R <=> y < x
  OBVIOUS
<1> HIDE DEF R
<1>3. PICK x \in S : \A y \in S : ~ (<<y, x>> \in R)
  BY <1>1, WFMin
<1>4. \A y \in S : x \in Nat /\ y \in Nat /\ ~(y < x)
  BY <1>2, <1>3
<1> QED BY <1>4

\* One with an upper bound has a greatest: its least upper bound.
LEMMA GreatestOf ==
  ASSUME NEW S \in SUBSET Nat, S # {}, NEW n \in Nat, \A s \in S : s <= n
  PROVE  \E x \in S : \A y \in S : y <= x
<1> DEFINE U == {u \in Nat : \A s \in S : s <= u}
<1>1. U # {} /\ U \in SUBSET Nat
  OBVIOUS
<1> HIDE DEF U
<1>2. PICK u \in U : \A v \in U : u <= v
  BY <1>1, LeastOf
<1>3. u \in Nat /\ \A s \in S : s \in Nat /\ s <= u
  BY DEF U
<1>4. CASE u \in S
  BY <1>3, <1>4
<1>5. CASE u \notin S
  <2>1. \A s \in S : s < u
    BY <1>3, <1>5
  <2>2. PICK s \in S : TRUE
    OBVIOUS
  <2>3. u - 1 \in U
    BY <2>1, <2>2, <1>3 DEF U
  <2> QED BY <2>3, <1>2, <1>3
<1> QED BY <1>4, <1>5

\* So Min and Max, which choose such a member, return one.
LEMMA MinOf ==
  ASSUME NEW S \in SUBSET Nat, S # {}
  PROVE  Min(S) \in S /\ \A y \in S : Min(S) <= y
<1>1. \E x \in S : \A y \in S : x =< y
  BY LeastOf
<1> QED BY <1>1 DEF Min

LEMMA MaxOf ==
  ASSUME NEW S \in SUBSET Nat, S # {}, NEW n \in Nat, \A s \in S : s <= n
  PROVE  Max(S) \in S /\ \A y \in S : y <= Max(S)
<1>1. PICK x \in S : \A y \in S : y <= x
  BY GreatestOf
<1>2. \A y \in S : x >= y
  BY <1>1
<1>3. \E z \in S : \A y \in S : z >= y
  BY <1>2
<1>4. Max(S) \in S /\ \A y \in S : Max(S) >= y
  BY <1>3 DEF Max
<1> QED BY <1>4

\* The same by a key.
LEMMA LeastBy ==
  ASSUME NEW S, S # {}, NEW k \in [S -> Nat]
  PROVE  \E x \in S : \A y \in S : k[x] <= k[y]
<1> DEFINE V == {k[x] : x \in S}
<1>1. V \in SUBSET Nat /\ V # {}
  OBVIOUS
<1> HIDE DEF V
<1>2. PICK v \in V : \A w \in V : v <= w
  BY <1>1, LeastOf
<1>3. PICK x \in S : v = k[x]
  BY DEF V
<1>4. \A y \in S : k[y] \in V
  BY DEF V
<1> QED BY <1>2, <1>3, <1>4

LEMMA GreatestBy ==
  ASSUME NEW S, S # {}, NEW k \in [S -> Nat], NEW n \in Nat, \A x \in S : k[x] <= n
  PROVE  \E x \in S : \A y \in S : k[y] <= k[x]
<1> DEFINE d == [x \in S |-> n - k[x]]
<1>1. d \in [S -> Nat]
  OBVIOUS
<1>2. \A x \in S : d[x] = n - k[x]
  OBVIOUS
<1> HIDE DEF d
<1>3. PICK x \in S : \A y \in S : d[x] <= d[y]
  BY <1>1, LeastBy
<1>4. \A y \in S : k[y] <= k[x]
  BY <1>2, <1>3
<1> QED BY <1>4

-----------------------------------------------------------------------------
(***************************************************************************)
(* The order of files, which _compact_segments groups them in.             *)
(***************************************************************************)
LEMMA BoundType ==
  /\ Cardinality(Bars) \in Nat /\ Bound \in Nat
  /\ Ticks \subseteq Nat
  /\ Horizon \in Nat /\ Period \in Nat /\ Ahead \in Nat
<1>1. Cardinality(Bars) \in Nat
  BY FS_CardinalityType
<1> QED BY <1>1 DEF Bound, Ticks

\* The numbers a file is sorted by.
LEMMA FileFields ==
  ASSUME NEW f \in Files
  PROVE  /\ f.first \in Nat /\ f.past \in Nat /\ f.count \in Nat /\ f.made \in Nat
         /\ f.first <= Bound /\ f.past <= Bound /\ f.count <= Bound /\ f.made <= Bound
         /\ f.rows \subseteq Bars
BY BoundType DEF Files, Bound, Ticks

\* Before is a strict order, total up to the name, and sorts by the start first.
LEMMA BeforeOrder ==
  ASSUME NEW f \in Files, NEW g \in Files, NEW h \in Files
  PROVE  /\ ~Before(f, f)
         /\ Before(f, g) => ~Before(g, f)
         /\ Before(f, g) /\ Before(g, h) => Before(f, h)
         /\ Before(f, g) \/ Before(g, f) \/ Name(f) = Name(g)
         /\ Before(f, g) => f.first <= g.first /\ f # g
BY FileFields DEF Before, Name

\* Files of different names have a first one, found key by key.
LEMMA FirstFile ==
  ASSUME NEW fs \in SUBSET Files, fs # {}, Named(fs)
  PROVE  \E f \in fs : \A g \in fs \ {f} : Before(f, g)
<1>1. PICK a \in fs : \A g \in fs : a.first <= g.first
  <2> DEFINE k == [g \in fs |-> g.first]
  <2>1. k \in [fs -> Nat]
    BY FileFields
  <2> HIDE DEF k
  <2>2. PICK x \in fs : \A y \in fs : k[x] <= k[y]
    BY <2>1, LeastBy
  <2> QED BY <2>2 DEF k
<1> DEFINE A == {g \in fs : g.first = a.first}
<1>2. PICK b \in A : \A g \in A : b.made <= g.made
  <2> DEFINE k == [g \in A |-> g.made]
  <2>1. k \in [A -> Nat]
    BY FileFields
  <2> HIDE DEF k
  <2>2. PICK x \in A : \A y \in A : k[x] <= k[y]
    BY <2>1, LeastBy
  <2> QED BY <2>2 DEF k
<1> DEFINE B == {g \in A : g.made = b.made}
<1>3. PICK c \in B : \A g \in B : c.past <= g.past
  <2> DEFINE k == [g \in B |-> g.past]
  <2>1. k \in [B -> Nat]
    BY FileFields
  <2> HIDE DEF k
  <2>2. PICK x \in B : \A y \in B : k[x] <= k[y]
    BY <2>1, LeastBy
  <2> QED BY <2>2 DEF k
<1> DEFINE C == {g \in B : g.past = c.past}
<1>4. PICK d \in C : \A g \in C : d.count <= g.count
  <2> DEFINE k == [g \in C |-> g.count]
  <2>1. k \in [C -> Nat]
    BY FileFields
  <2> HIDE DEF k
  <2>2. PICK x \in C : \A y \in C : k[x] <= k[y]
    BY <2>1, LeastBy
  <2> QED BY <2>2 DEF k
<1>5. ASSUME NEW g \in fs \ {d} PROVE Before(d, g)
  <2>1. g \in Files /\ d \in Files /\ d \in fs /\ Name(d) # Name(g)
    BY <1>5 DEF Named
  <2>2. ~Before(g, d)
    BY <1>1, <1>2, <1>3, <1>4, <2>1, FileFields DEF Before
  <2> QED BY <2>1, <2>2, BeforeOrder
<1> QED BY <1>5

\* They have a last one, which Latest returns.
LEMMA LastFile ==
  ASSUME NEW fs \in SUBSET Files, fs # {}, Named(fs)
  PROVE  /\ Latest(fs) \in fs
         /\ \A g \in fs \ {Latest(fs)} : Before(g, Latest(fs))
<1>1. PICK a \in fs : \A g \in fs : g.first <= a.first
  <2> DEFINE k == [g \in fs |-> g.first]
  <2>1. k \in [fs -> Nat] /\ \A g \in fs : k[g] <= Bound
    BY FileFields
  <2> HIDE DEF k
  <2>2. PICK x \in fs : \A y \in fs : k[y] <= k[x]
    BY <2>1, GreatestBy, BoundType
  <2> QED BY <2>2 DEF k
<1> DEFINE A == {g \in fs : g.first = a.first}
<1>2. PICK b \in A : \A g \in A : g.made <= b.made
  <2> DEFINE k == [g \in A |-> g.made]
  <2>1. k \in [A -> Nat] /\ \A g \in A : k[g] <= Bound
    BY FileFields
  <2> HIDE DEF k
  <2>2. PICK x \in A : \A y \in A : k[y] <= k[x]
    BY <2>1, GreatestBy, BoundType
  <2> QED BY <2>2 DEF k
<1> DEFINE B == {g \in A : g.made = b.made}
<1>3. PICK c \in B : \A g \in B : g.past <= c.past
  <2> DEFINE k == [g \in B |-> g.past]
  <2>1. k \in [B -> Nat] /\ \A g \in B : k[g] <= Bound
    BY FileFields
  <2> HIDE DEF k
  <2>2. PICK x \in B : \A y \in B : k[y] <= k[x]
    BY <2>1, GreatestBy, BoundType
  <2> QED BY <2>2 DEF k
<1> DEFINE C == {g \in B : g.past = c.past}
<1>4. PICK d \in C : \A g \in C : g.count <= d.count
  <2> DEFINE k == [g \in C |-> g.count]
  <2>1. k \in [C -> Nat] /\ \A g \in C : k[g] <= Bound
    BY FileFields
  <2> HIDE DEF k
  <2>2. PICK x \in C : \A y \in C : k[y] <= k[x]
    BY <2>1, GreatestBy, BoundType
  <2> QED BY <2>2 DEF k
<1>5. ASSUME NEW g \in fs \ {d} PROVE Before(g, d)
  <2>1. g \in Files /\ d \in Files /\ d \in fs /\ Name(d) # Name(g)
    BY <1>5 DEF Named
  <2>2. ~Before(d, g)
    BY <1>1, <1>2, <1>3, <1>4, <2>1, FileFields DEF Before
  <2> QED BY <2>1, <2>2, BeforeOrder
<1>6. \E f \in fs : \A g \in fs \ {f} : Before(g, f)
  BY <1>5
<1> QED BY <1>6 DEF Latest

-----------------------------------------------------------------------------
(***************************************************************************)
(* Groups and compaction.                                                  *)
(***************************************************************************)

\* The segment made of some rows is well formed.
LEMMA SegmentOK ==
  ASSUME NEW rows \in SUBSET Bars, rows # {}, \A b \in rows : b <= clock,
         clock \in Nat, clock <= Horizon,
         NEW tail \in 1 .. Period, NEW made \in 1 .. Horizon
  PROVE  /\ FileOK(Segment(rows, tail, made))
         /\ Min(rows) \in rows /\ Max(rows) \in rows
         /\ \A b \in rows : Min(rows) <= b /\ b <= Max(rows)
<1>1. rows \in SUBSET Nat
  OBVIOUS
<1>2. Min(rows) \in rows /\ \A b \in rows : Min(rows) <= b
  BY <1>1, MinOf
<1>3. Max(rows) \in rows /\ \A b \in rows : b <= Max(rows)
  BY <1>1, MaxOf
<1>4. Cardinality(rows) \in 1 .. Cardinality(Bars)
  <2>1. IsFiniteSet(rows) /\ Cardinality(rows) <= Cardinality(Bars)
    BY FS_Subset
  <2>2. Cardinality(rows) \in Nat /\ Cardinality(rows) # 0
    BY <2>1, FS_CardinalityType, FS_EmptySet
  <2> QED BY <2>1, <2>2, BoundType
<1> DEFINE m == Min(rows) n == Max(rows) k == Cardinality(rows)
<1>5. \A b \in rows : m <= b /\ b <= n /\ b \in Nat /\ b # 0 /\ b <= clock
  BY <1>1, <1>2, <1>3
<1>6. m \in rows /\ n \in rows
  BY <1>2, <1>3
<1> HIDE DEF m, n
<1>7. m \in Nat /\ n \in Nat /\ m >= 1 /\ m <= n /\ n <= clock /\ n < n + tail
      /\ n + tail <= n + Period /\ tail \in Nat
  <2>1. m \in Nat /\ n \in Nat /\ m # 0 /\ m <= n /\ n <= clock
    BY <1>5, <1>6
  <2> QED BY <2>1
<1>8. m \in Ticks /\ n + tail \in Ticks
  BY <1>7, BoundType DEF Ticks
<1> DEFINE s == [first |-> m, past |-> n + tail, count |-> k, made |-> made,
                 rows |-> rows]
<1>9. s = Segment(rows, tail, made)
  BY DEF Segment, m, n
<1> HIDE DEF k
<1>10. s \in Files
  BY <1>4, <1>8 DEF Files, k
<1>11. s.first = m /\ s.past = n + tail /\ s.rows = rows
  OBVIOUS
<1> HIDE DEF s
<1>12. \A b \in rows : m <= b /\ b < n + tail /\ b <= clock
  BY <1>5, <1>7
<1>13. n \in s.rows /\ s.past <= n + Period
  BY <1>6, <1>7, <1>11
<1>14. FileOK(s)
  BY <1>10, <1>11, <1>12, <1>13 DEF FileOK
<1> QED BY <1>2, <1>3, <1>9, <1>14

\* A group is made of files that were listed.
LEMMA GroupMembers ==
  ASSUME NEW fs, NEW grp \in Groups(fs)
  PROVE  grp \subseteq fs /\ grp # {}
BY DEF Groups

\* Files hold bars that have come.
LEMMA RowsOfFiles ==
  ASSUME NEW fs, \A f \in fs : FileOK(f)
  PROVE  /\ RowsOf(fs) \in SUBSET Bars
         /\ \A b \in RowsOf(fs) : b <= clock
         /\ fs # {} => RowsOf(fs) # {}
         /\ fs \in SUBSET Files
BY FileFields DEF RowsOf, FileOK

\* A compacted segment is well formed, and runs from the first to the last row of its
\* group.
LEMMA MergedOK ==
  ASSUME NEW fs, \A f \in fs : FileOK(f), NEW grp \in Groups(fs),
         clock \in Nat, clock <= Horizon
  PROVE  /\ FileOK(Merged(grp))
         /\ Merged(grp).rows = RowsOf(grp)
         /\ Merged(grp).first = Min(RowsOf(grp))
         /\ Merged(grp).past = Max(RowsOf(grp)) + 1
         /\ Min(RowsOf(grp)) \in RowsOf(grp) /\ Max(RowsOf(grp)) \in RowsOf(grp)
         /\ \A b \in RowsOf(grp) : Min(RowsOf(grp)) <= b /\ b <= Max(RowsOf(grp))
<1> DEFINE rows == RowsOf(grp) M == {f.made : f \in grp}
<1>1. grp \subseteq fs /\ grp # {}
  BY GroupMembers
<1>2. rows \in SUBSET Bars /\ rows # {} /\ \A b \in rows : b <= clock
  BY <1>1, RowsOfFiles
<1>3. \A f \in grp : f.made \in 1 .. Horizon
  BY <1>1 DEF FileOK, Files
<1>4. M \in SUBSET Nat /\ M # {} /\ \A t \in M : t <= Horizon /\ t \in 1 .. Horizon
  BY <1>1, <1>3
<1> HIDE DEF rows, M
<1>5. Max(M) \in 1 .. Horizon
  BY <1>4, MaxOf
<1>6. 1 \in 1 .. Period
  OBVIOUS
<1>7. /\ FileOK(Segment(rows, 1, Max(M)))
      /\ Min(rows) \in rows /\ Max(rows) \in rows
      /\ \A b \in rows : Min(rows) <= b /\ b <= Max(rows)
  BY <1>2, <1>5, <1>6, SegmentOK
<1>8. Merged(grp) = Segment(rows, 1, Max(M))
  BY DEF Merged, rows, M
<1>9. /\ Segment(rows, 1, Max(M)).rows = rows
      /\ Segment(rows, 1, Max(M)).first = Min(rows)
      /\ Segment(rows, 1, Max(M)).past = Max(rows) + 1
  BY DEF Segment
<1> QED BY <1>7, <1>8, <1>9 DEF rows

\* The name of a whole file says what is in it: os.replace replaces it by itself.
LEMMA FineNamed ==
  ASSUME NEW fs, Fine(fs)
  PROVE  Named(fs) /\ fs \in SUBSET Files
<1>1. SUFFICES ASSUME NEW f \in fs, NEW g \in fs, Name(f) = Name(g)
               PROVE  f = g
  BY DEF Named, Fine, FileOK
<1>2. f.first = g.first /\ f.past = g.past /\ f.count = g.count /\ f.made = g.made
  BY <1>1 DEF Name
<1>3. f \in Files /\ g \in Files /\ FileOK(f) /\ FileOK(g) /\ Whole(f) /\ Whole(g)
  BY DEF Fine, FileOK
<1>4. f.rows \subseteq Bars /\ g.rows \subseteq Bars
  BY <1>3, FileFields
<1>5. f.rows = g.rows
  BY <1>2, <1>3, <1>4 DEF FileOK, Whole
<1> QED BY <1>2, <1>3, <1>5 DEF Files

\* The files up to f that begin a group.
Starts(fs, f) == {g \in Earlier(fs, f) \cup {f} : StartsGroup(fs, g)}

\* There is a last one of them, the head of the group of f.
LEMMA StartsOf ==
  ASSUME NEW fs, Fine(fs), NEW f \in fs
  PROVE  /\ Latest(Starts(fs, f)) \in Starts(fs, f)
         /\ \A g \in Starts(fs, f) \ {Latest(Starts(fs, f))} :
              Before(g, Latest(Starts(fs, f)))
         /\ Starts(fs, f) \in SUBSET fs
<1>1. fs \in SUBSET Files /\ Named(fs)
  BY FineNamed
<1>2. PICK e \in fs : \A g \in fs \ {e} : Before(e, g)
  BY <1>1, FirstFile
<1>3. Earlier(fs, e) = {}
  <2>1. ASSUME NEW g \in fs, Before(g, e) PROVE FALSE
    <3>1. g # e
      BY <1>1, <2>1, BeforeOrder
    <3> QED BY <1>1, <1>2, <2>1, <3>1, BeforeOrder
  <2> QED BY <2>1 DEF Earlier
<1>4. e \in Starts(fs, f)
  <2>1. e = f \/ Before(e, f)
    BY <1>2
  <2> QED BY <1>3, <2>1 DEF Starts, StartsGroup, Earlier
<1>5. Starts(fs, f) \in SUBSET fs
  BY DEF Starts, Earlier
<1>6. Named(Starts(fs, f)) /\ Starts(fs, f) \in SUBSET Files
  BY <1>1, <1>5 DEF Named
<1> QED BY <1>4, <1>5, <1>6, LastFile

\* A file that has a later one in its group is followed there by one without a gap.
LEMMA NextInGroup ==
  ASSUME NEW fs, Fine(fs), NEW grp \in Groups(fs), NEW f \in grp, NEW g \in grp,
         Before(f, g)
  PROVE  \E s \in grp : Before(f, s) /\ s.first <= f.past
<1>1. fs \in SUBSET Files /\ Named(fs) /\ grp \subseteq fs
  BY FineNamed, GroupMembers
<1>2. PICK h : grp = {x \in fs : Latest(Starts(fs, x)) = h}
  BY DEF Groups, Starts
<1> DEFINE G == {x \in grp : Before(f, x)}
<1>3. G # {} /\ G \in SUBSET Files /\ Named(G) /\ G \subseteq fs
  BY <1>1 DEF Named
<1> HIDE DEF G
<1>4. PICK s \in G : \A x \in G \ {s} : Before(s, x)
  BY <1>3, FirstFile
<1>5. s \in grp /\ Before(f, s) /\ s \in fs /\ f \in fs /\ s \in Files /\ f \in Files
  BY <1>1, <1>4 DEF G
<1>6. Latest(Starts(fs, f)) = h /\ Latest(Starts(fs, s)) = h
  BY <1>2, <1>5
<1>7. /\ h \in Starts(fs, f) /\ h \in Starts(fs, s) /\ h \in fs
      /\ \A x \in Starts(fs, f) \ {h} : Before(x, h)
      /\ \A x \in Starts(fs, s) \ {h} : Before(x, h)
  BY <1>5, <1>6, StartsOf
<1>8. h \in Files /\ (h = f \/ Before(h, f)) /\ StartsGroup(fs, h)
  BY <1>1, <1>7 DEF Starts, Earlier
<1>9. ~StartsGroup(fs, s)
  <2>1. SUFFICES ASSUME StartsGroup(fs, s) PROVE FALSE
    OBVIOUS
  <2>2. s \in Starts(fs, s)
    BY <2>1 DEF Starts
  <2>3. s = h \/ Before(s, h)
    BY <1>7, <2>2
  <2>4. Before(s, f) \/ s = f
    BY <1>5, <1>8, <2>3, BeforeOrder
  <2> QED BY <1>5, <2>4, BeforeOrder
<1> DEFINE p == Latest(Earlier(fs, s))
<1>10. Earlier(fs, s) # {} /\ s.first <= p.past
  <2>1. Earlier(fs, s) # {} /\ ~(s.first > p.past)
    BY <1>9 DEF StartsGroup
  <2>2. Earlier(fs, s) \in SUBSET Files /\ Named(Earlier(fs, s))
    BY <1>1 DEF Earlier, Named
  <2>3. p \in Files
    BY <2>1, <2>2, LastFile
  <2> QED BY <2>1, <2>3, <1>5, FileFields
<1>11. Earlier(fs, s) \in SUBSET Files /\ Named(Earlier(fs, s)) /\ f \in Earlier(fs, s)
  BY <1>1, <1>5 DEF Earlier, Named
<1>12. p \in Earlier(fs, s) /\ \A x \in Earlier(fs, s) \ {p} : Before(x, p)
  BY <1>11, LastFile
<1> HIDE DEF p
<1>13. p \in fs /\ p \in Files /\ Before(p, s)
  BY <1>1, <1>12 DEF Earlier
<1>14. CASE p = f
  BY <1>5, <1>10, <1>14
<1>15. CASE p # f
  <2>1. Before(f, p)
    BY <1>11, <1>12, <1>15
  <2>2. Before(h, p)
    BY <1>5, <1>8, <1>13, <2>1, BeforeOrder
  <2>3. h \in Starts(fs, p)
    BY <1>7, <1>8, <2>2 DEF Starts, Earlier
  <2>4. Starts(fs, p) \subseteq Starts(fs, s)
    <3>1. SUFFICES ASSUME NEW x \in Starts(fs, p) PROVE x \in Starts(fs, s)
      OBVIOUS
    <3>2. x \in fs /\ (x = p \/ Before(x, p)) /\ StartsGroup(fs, x)
      BY <1>13 DEF Starts, Earlier
    <3>3. Before(x, s)
      BY <1>1, <1>5, <1>13, <3>2, BeforeOrder
    <3> QED BY <3>2, <3>3 DEF Starts, Earlier
  <2>5. Latest(Starts(fs, p)) = h
    <3> DEFINE l == Latest(Starts(fs, p))
    <3>1. l \in Starts(fs, p) /\ \A x \in Starts(fs, p) \ {l} : Before(x, l)
      BY <1>13, StartsOf
    <3> HIDE DEF l
    <3>2. SUFFICES ASSUME l # h PROVE FALSE
      BY DEF l
    <3>3. Before(h, l) /\ Before(l, h)
      BY <1>7, <2>3, <2>4, <3>1, <3>2
    <3>4. l \in Files
      BY <3>1, <1>1, <2>4, StartsOf, <1>5
    <3> QED BY <1>8, <3>3, <3>4, BeforeOrder
  <2>6. p \in grp
    BY <1>2, <1>13, <2>5
  <2>7. p \in G
    BY <2>1, <2>6 DEF G
  <2>8. p = s \/ Before(s, p)
    BY <1>4, <2>7
  <2> QED BY <1>5, <1>13, <2>8, BeforeOrder
<1> QED BY <1>14, <1>15

\* Hence no bar is missing between the files of a group: were b missing, take the last
\* file that starts before it; the next one of the group starts before it too.
LEMMA MergedWhole ==
  ASSUME NEW fs, Fine(fs), NEW grp \in Groups(fs), clock \in Nat, clock <= Horizon
  PROVE  FileOK(Merged(grp)) /\ Whole(Merged(grp)) /\ Merged(grp).rows = RowsOf(grp)
<1> DEFINE rows == RowsOf(grp) m == Min(rows) n == Max(rows)
<1>1. fs \in SUBSET Files /\ Named(fs) /\ grp \subseteq fs /\ \A f \in fs : FileOK(f)
  BY FineNamed, GroupMembers DEF Fine
<1>2. /\ FileOK(Merged(grp)) /\ Merged(grp).rows = rows
      /\ Merged(grp).first = m /\ Merged(grp).past = n + 1
      /\ m \in rows /\ n \in rows
      /\ \A b \in rows : m <= b /\ b <= n
  BY <1>1, MergedOK
<1>3. rows \in SUBSET Bars
  BY <1>1, RowsOfFiles
<1> HIDE DEF m, n
<1>4. ASSUME NEW b \in Bars, m <= b, b <= n PROVE b \in rows
  <2>0. m \in Nat /\ n \in Nat /\ b \in Nat
    BY <1>2, <1>3
  <2>1. PICK f1 \in grp : m \in f1.rows
    BY <1>2 DEF RowsOf
  <2>2. PICK f2 \in grp : n \in f2.rows
    BY <1>2 DEF RowsOf
  <2> DEFINE P == {f \in grp : f.first <= b}
  <2>3. f1.first <= m /\ f1.first \in Nat /\ n < f2.past /\ f2.past \in Nat
    BY <1>1, <2>1, <2>2, FileFields DEF FileOK
  <2>4. f1 \in P /\ P \in SUBSET Files /\ Named(P)
    <3>1. f1.first <= b
      BY <1>4, <2>0, <2>3
    <3> QED BY <1>1, <3>1 DEF Named
  <2> DEFINE f == Latest(P)
  <2>5. f \in P /\ \A g \in P \ {f} : Before(g, f)
    BY <2>4, LastFile
  <2> HIDE DEF f, P
  <2>6. /\ f \in grp /\ f.first <= b /\ FileOK(f) /\ Whole(f)
        /\ f \in Files /\ f.past \in Nat /\ f.first \in Nat
    BY <1>1, <2>5, FileFields DEF P, Fine
  <2>7. CASE b < f.past
    <3>1. b \in f.rows
      BY <2>6, <2>7 DEF Whole
    <3> QED BY <2>6, <3>1 DEF RowsOf
  <2>8. CASE f.past <= b
    <3>1. f2 # f
      BY <1>4, <2>0, <2>3, <2>6, <2>8
    <3>2. CASE Before(f2, f)
      <4>1. f2.first <= f.first
        BY <1>1, <2>6, <3>2, BeforeOrder
      <4>2. f2.first <= b /\ b < f2.past
        <5>1. f2.first \in Nat
          BY <1>1, FileFields
        <5> QED BY <5>1, <4>1, <2>0, <2>3, <2>6, <1>4
      <4>3. b \in f2.rows
        BY <4>2, <1>1 DEF Fine, Whole
      <4> QED BY <4>3 DEF RowsOf
    <3>3. CASE Before(f, f2)
      <4>1. PICK s \in grp : Before(f, s) /\ s.first <= f.past
        BY <2>6, <3>3, NextInGroup
      <4>2. s \in Files /\ s.first \in Nat
        BY <1>1, FileFields
      <4>3. s \in P
        BY <2>6, <2>8, <4>1, <4>2 DEF P
      <4>4. s = f \/ Before(s, f)
        BY <2>5, <4>3
      <4> QED BY <2>6, <4>1, <4>2, <4>4, BeforeOrder
    <3> QED BY <1>1, <2>6, <3>1, <3>2, <3>3, BeforeOrder DEF Named
  <2> QED BY <2>6, <2>7, <2>8
<1>5. Whole(Merged(grp))
  <2>1. n \in Nat /\ \A b \in Bars : b \in Nat
    BY <1>2, <1>3
  <2>3. \A b \in Bars : b < n + 1 => b <= n
    BY <2>1
  <2>2. \A b \in Bars : m <= b /\ b < n + 1 => b \in rows
    BY <1>4, <2>3
  <2> QED BY <1>2, <2>2 DEF Whole
<1> QED BY <1>2, <1>5

\* Compaction keeps files well formed.
LEMMA CompactedOK ==
  ASSUME NEW fs, AllOK(fs), NEW listed \in SUBSET fs, clock \in Nat, clock <= Horizon
  PROVE  AllOK(Compacted(fs, listed))
<1>1. AllOK(listed)
  BY DEF AllOK
<1>2. \A grp \in Groups(listed) : FileOK(Merged(grp))
  BY <1>1, MergedOK DEF AllOK
<1>3. \A f \in Compacted(fs, listed) :
        f \in fs \/ \E grp \in Groups(listed) : f = Merged(grp)
  BY DEF Compacted
<1> QED BY <1>2, <1>3 DEF AllOK

\* Groups that are done are made of listed files.
LEMMA DoneListed ==
  ASSUME NEW listed, NEW grp
  PROVE  Done(listed, grp) \in SUBSET listed
BY GroupMembers DEF Done

\* So does a compaction that is cut.
LEMMA CompactedUpToOK ==
  ASSUME NEW fs, AllOK(fs), NEW listed \in SUBSET fs, NEW grp \in Groups(listed),
         NEW removed, clock \in Nat, clock <= Horizon
  PROVE  AllOK(CompactedUpTo(fs, listed, grp, removed))
<1> DEFINE cs == Compacted(fs, Done(listed, grp))
<1>1. AllOK(cs)
  <2>1. Done(listed, grp) \in SUBSET fs
    BY DoneListed
  <2> QED BY <2>1, CompactedOK
<1>2. FileOK(Merged(grp))
  <2>1. \A f \in listed : FileOK(f)
    BY DEF AllOK
  <2> QED BY <2>1, MergedOK
<1> HIDE DEF cs
<1>3. AllOK(Put(cs, Merged(grp)))
  BY <1>1, <1>2 DEF AllOK, Put
<1>4. CompactedUpTo(fs, listed, grp, removed) \subseteq Put(cs, Merged(grp))
  BY DEF CompactedUpTo, cs
<1> QED BY <1>3, <1>4 DEF AllOK

\* A file that is written among whole files replaces none but itself.
LEMMA PutFine ==
  ASSUME NEW fs, Fine(fs), NEW seg, FileOK(seg), Whole(seg)
  PROVE  Put(fs, seg) = fs \cup {seg} /\ Fine(Put(fs, seg))
<1>1. Fine(fs \cup {seg})
  BY DEF Fine
<1>2. Named(fs \cup {seg})
  BY <1>1, FineNamed
<1>3. Put(fs, seg) = fs \cup {seg}
  BY <1>2 DEF Put, Named
<1> QED BY <1>1, <1>3

\* Compaction keeps files whole and takes no row off the disk.
LEMMA CompactedFine ==
  ASSUME NEW fs, Fine(fs), NEW listed \in SUBSET fs, clock \in Nat, clock <= Horizon
  PROVE  /\ Fine(Compacted(fs, listed))
         /\ RowsOf(fs) \subseteq RowsOf(Compacted(fs, listed))
         /\ \A grp \in Groups(listed) : Merged(grp) \in Compacted(fs, listed)
<1> DEFINE new == {Merged(grp) : grp \in Groups(listed)}
<1>1. Fine(listed)
  BY DEF Fine
<1>2. \A grp \in Groups(listed) : /\ FileOK(Merged(grp)) /\ Whole(Merged(grp))
                                  /\ Merged(grp).rows = RowsOf(grp)
  BY <1>1, MergedWhole
<1>3. Fine(fs \cup new)
  BY <1>2 DEF Fine
<1>4. Named(fs \cup new)
  BY <1>3, FineNamed
<1>5. \A grp \in Groups(listed) : Merged(grp) \in Compacted(fs, listed)
  BY DEF Compacted
<1>6. \A f \in fs : f \in Compacted(fs, listed) \/ \E grp \in Groups(listed) : f \in grp
  <2>1. SUFFICES ASSUME NEW f \in fs, \A grp \in Groups(listed) : f \notin grp
                 PROVE  f \in Compacted(fs, listed)
    OBVIOUS
  <2>2. CASE Name(f) \notin NamesOf(new)
    BY <2>1, <2>2 DEF Compacted
  <2>3. CASE Name(f) \in NamesOf(new)
    <3>1. PICK s \in new : Name(s) = Name(f)
      BY <2>3 DEF NamesOf
    <3>2. s = f
      BY <1>4, <3>1 DEF Named
    <3> QED BY <3>2 DEF Compacted
  <2> QED BY <2>2, <2>3
<1>7. Compacted(fs, listed) \subseteq fs \cup new
  BY DEF Compacted
<1>8. ASSUME NEW f \in fs, NEW b \in f.rows
      PROVE  \E g \in Compacted(fs, listed) : b \in g.rows
  <2>1. CASE f \in Compacted(fs, listed)
    BY <2>1
  <2>2. ASSUME NEW grp \in Groups(listed), f \in grp
        PROVE  \E g \in Compacted(fs, listed) : b \in g.rows
    <3>1. b \in Merged(grp).rows
      BY <1>2, <2>2 DEF RowsOf
    <3> QED BY <1>5, <3>1
  <2> QED BY <1>6, <2>1, <2>2
<1> HIDE DEF new
<1>9. Fine(Compacted(fs, listed))
  BY <1>3, <1>7 DEF Fine
<1>10. RowsOf(fs) \subseteq RowsOf(Compacted(fs, listed))
  BY <1>8 DEF RowsOf
<1> QED BY <1>5, <1>9, <1>10

\* Nor does one that is cut, wherever it is: the merged file is written first.
LEMMA CompactedUpToFine ==
  ASSUME NEW fs, Fine(fs), NEW listed \in SUBSET fs, NEW grp \in Groups(listed),
         NEW removed \in SUBSET grp, clock \in Nat, clock <= Horizon
  PROVE  /\ Fine(CompactedUpTo(fs, listed, grp, removed))
         /\ RowsOf(fs) \subseteq RowsOf(CompactedUpTo(fs, listed, grp, removed))
<1> DEFINE cs == Compacted(fs, Done(listed, grp)) seg == Merged(grp)
           ps == CompactedUpTo(fs, listed, grp, removed)
<1>1. Fine(cs) /\ RowsOf(fs) \subseteq RowsOf(cs)
  <2>1. Done(listed, grp) \in SUBSET fs
    BY DoneListed
  <2> QED BY <2>1, CompactedFine
<1>2. FileOK(seg) /\ Whole(seg) /\ seg.rows = RowsOf(grp)
  <2>1. Fine(listed)
    BY DEF Fine
  <2> QED BY <2>1, MergedWhole
<1> HIDE DEF cs, seg
<1>3. Put(cs, seg) = cs \cup {seg} /\ Fine(Put(cs, seg))
  BY <1>1, <1>2, PutFine
<1>4. ps = {f \in Put(cs, seg) : f \in removed => Name(f) = Name(seg)}
  BY DEF CompactedUpTo, cs, seg
<1> HIDE DEF ps
<1>5. Fine(ps) /\ seg \in ps
  BY <1>3, <1>4 DEF Fine
<1>6. ASSUME NEW b \in RowsOf(fs) PROVE b \in RowsOf(ps)
  <2>1. PICK f \in cs : b \in f.rows
    BY <1>1, <1>6 DEF RowsOf
  <2>2. CASE f \in removed
    <3>1. b \in seg.rows
      BY <1>2, <2>1, <2>2 DEF RowsOf
    <3> QED BY <1>5, <3>1 DEF RowsOf
  <2>3. CASE f \notin removed
    <3>1. f \in ps
      BY <1>3, <1>4, <2>3
    <3> QED BY <2>1, <3>1 DEF RowsOf
  <2> QED BY <2>2, <2>3
<1> QED BY <1>5, <1>6 DEF ps

\* Past finds the end of the range a tick is in.
LEMMA PastOf ==
  ASSUME NEW ticks \in SUBSET Nat, NEW n \in Nat, \A u \in ticks : u <= n,
         NEW t \in ticks
  PROVE  /\ Past(ticks, t) \in Nat /\ t < Past(ticks, t) /\ Past(ticks, t) \notin ticks
         /\ \A u \in Nat : t <= u /\ u < Past(ticks, t) => u \in ticks
         /\ Past(ticks, t) - 1 \in ticks /\ Past(ticks, t) - 1 \in Nat
<1> DEFINE m == Max(ticks) U == {u \in t .. m + 1 : u \notin ticks}
<1>1. m \in ticks /\ \A u \in ticks : u <= m
  BY MaxOf
<1> HIDE DEF m
<1>2. m \in Nat /\ t \in Nat /\ t <= m /\ m + 1 \notin ticks
  <2>1. m \in Nat /\ t \in Nat /\ t <= m
    BY <1>1
  <2>2. m + 1 \in ticks => FALSE
    BY <1>1, <2>1
  <2> QED BY <2>1, <2>2
<1>3. U \in SUBSET Nat /\ m + 1 \in U /\ U \subseteq t .. m + 1
  BY <1>2
<1>4. \A u \in Nat : t <= u /\ u <= m + 1 /\ u \notin ticks => u \in U
  BY <1>2
<1>5. \A u \in U : u \notin ticks
  OBVIOUS
<1>6. Past(ticks, t) = Min(U)
  BY DEF Past, m
<1> HIDE DEF U
<1> DEFINE p == Min(U)
<1>7. p \in U /\ \A u \in U : p <= u
  BY <1>3, MinOf
<1> HIDE DEF p
<1>8. p \in Nat /\ t <= p /\ p # t /\ p \notin ticks /\ p <= m + 1
  BY <1>3, <1>5, <1>7
<1>9. \A u \in Nat : t <= u /\ u < p => u \in ticks
  <2>1. SUFFICES ASSUME NEW u \in Nat, t <= u, u < p, u \notin ticks PROVE FALSE
    OBVIOUS
  <2>2. u \in U
    BY <1>2, <1>4, <1>8, <2>1
  <2> QED BY <1>7, <1>8, <2>1, <2>2
<1>10. t < p /\ p - 1 \in Nat
  BY <1>2, <1>8
<1>11. p - 1 \in ticks
  BY <1>2, <1>9, <1>10, <1>8
<1> QED BY <1>6, <1>8, <1>9, <1>10, <1>11 DEF p

-----------------------------------------------------------------------------
(***************************************************************************)
(* Type correctness, action by action.                                     *)
(***************************************************************************)

\* The clock is in its bounds.
LEMMA ClockType ==
  ASSUME TypeInv
  PROVE  clock \in Nat /\ clock <= Horizon /\ clock >= 1 /\ clock \in 1 .. Horizon
BY BoundType DEF TypeInv

\* The range of a query is made of ticks.
LEMMA QueryTicks ==
  ASSUME NEW lo \in Nat, lo >= 1, NEW hi \in Nat, hi <= Horizon + Ahead
  PROVE  lo .. hi \subseteq Ticks
BY BoundType DEF Ticks

\* What _load_index returns is well typed, rebuilt or not.
LEMMA KnownOK ==
  ASSUME DiskOK
  PROVE  KnownNames \subseteq Names /\ KnownCoverage \subseteq Ticks
<1>1. NamesOf(files) \subseteq Names
  BY DEF DiskOK, FileOK, NamesOf, Name, Names, Files
<1>2. \A f \in files : f.first .. f.past - 1 \subseteq Ticks
  BY DEF DiskOK, FileOK, Files, Ticks
<1> QED BY <1>1, <1>2 DEF KnownNames, KnownCoverage, DiskOK

\* Files are well formed in the next state if they are now and no time passes.
LEMMA SameClockFiles ==
  ASSUME clock' = clock, AllOK(files')
  PROVE  (\A f \in files : FileOK(f))'
BY DEF AllOK, FileOK, Files, Ticks

\* A reader leaves the disk well formed.
LEMMA LoadedOK ==
  ASSUME DiskOK, Loaded, clock' = clock
  PROVE  DiskOK'
<1>1. files' = files /\ AllOK(files')
  BY DEF Loaded, DiskOK, AllOK, disk
<1>2. (\A f \in files : FileOK(f))'
  BY <1>1, SameClockFiles
<1>3. names' \subseteq Names /\ coverage' \subseteq Ticks /\ indexed' \in BOOLEAN
  BY KnownOK DEF Loaded, DiskOK, disk
<1> QED BY <1>2, <1>3 DEF DiskOK, Names, Ticks

\* So are the files with a page among them,
LEMMA AddedOK ==
  ASSUME TypeInv, NEW rows \in SUBSET Bars, rows # {}, \A b \in rows : b <= clock
  PROVE  /\ AllOK(Added(rows))
         /\ AddedListed(rows) \in SUBSET Added(rows)
         /\ FileOK(Segment(rows, Period, clock))
<1>1. FileOK(Segment(rows, Period, clock))
  BY ClockType, SegmentOK, BoundType
<1> QED BY <1>1 DEF Added, AddedListed, Listed, Put, AllOK, TypeInv, DiskOK

\* and their names,
LEMMA FileNames ==
  ASSUME NEW fs, AllOK(fs)
  PROVE  NamesOf(fs) \subseteq Names
BY DEF AllOK, FileOK, NamesOf, Name, Names, Files

\* what store_range leaves,
LEMMA StoreOK ==
  ASSUME TypeInv, NEW rows \in SUBSET Bars, rows # {}, \A b \in rows : b <= clock,
         NEW ticks \in SUBSET Ticks, StoreRange(ticks, rows), clock' = clock
  PROVE  DiskOK'
<1> DEFINE listed == AddedListed(rows)
<1>1. AllOK(Added(rows)) /\ listed \in SUBSET Added(rows)
  BY AddedOK
<1> HIDE DEF listed
<1>2. AllOK(listed)
  BY <1>1 DEF AllOK
<1>3. AllOK(Compacted(Added(rows), listed)) /\ AllOK(Compacted(listed, listed))
  BY <1>1, <1>2, CompactedOK, ClockType
<1>4. /\ files' = Compacted(Added(rows), listed)
      /\ names' = NamesOf(Compacted(listed, listed))
      /\ coverage' = KnownCoverage \cup ticks
      /\ indexed' = TRUE
  BY DEF StoreRange, listed
<1>5. (\A f \in files : FileOK(f))'
  BY <1>3, <1>4, SameClockFiles
<1>6. names' \subseteq Names
  BY <1>3, <1>4, FileNames
<1>7. coverage' \subseteq Ticks
  BY <1>4, KnownOK DEF TypeInv
<1> QED BY <1>4, <1>5, <1>6, <1>7 DEF DiskOK, Names, Ticks

\* and what a process leaves that dies in it.
LEMMA DieOK ==
  ASSUME TypeInv, NEW rows \in SUBSET Bars, rows # {}, \A b \in rows : b <= clock,
         DiesInStore(rows), clock' = clock
  PROVE  DiskOK' /\ torn' \in BOOLEAN
<1> DEFINE listed == AddedListed(rows)
<1>1. AllOK(Added(rows)) /\ listed \in SUBSET Added(rows)
  BY AddedOK
<1>2. \/ files' = Added(rows)
      \/ \E grp \in Groups(listed) : \E removed :
           files' = CompactedUpTo(Added(rows), listed, grp, removed)
  BY DEF DiesInStore
<1> HIDE DEF listed
<1>3. \A grp \in Groups(listed) : \A removed :
         AllOK(CompactedUpTo(Added(rows), listed, grp, removed))
  BY <1>1, CompactedUpToOK, ClockType
<1>4. AllOK(files')
  BY <1>1, <1>2, <1>3
<1>5. (\A f \in files : FileOK(f))'
  BY <1>4, SameClockFiles
<1>6. names' \subseteq Names /\ coverage' \subseteq Ticks /\ indexed' \in BOOLEAN
  BY KnownOK DEF DiesInStore, TypeInv, DiskOK
<1>7. torn' \in BOOLEAN
  BY DEF DiesInStore, TypeInv
<1> QED BY <1>5, <1>6, <1>7 DEF DiskOK, Names, Ticks

\* A client moves to a well-formed query, the others stay.
LEMMA SetOK ==
  ASSUME TypeInv, NEW c \in Clients, NEW query, QueryOK(query), Set(c, query),
         clock' = clock
  PROVE  /\ client' \in [Clients -> QueryTypes]
         /\ (\A d \in Clients : QueryOK(client[d]))'
         /\ client'[c] = query
         /\ \A d \in Clients \ {c} : client'[d] = client[d]
<1>1. client \in [Clients -> QueryTypes] /\ \A d \in Clients : QueryOK(client[d])
  BY DEF TypeInv
<1>2. client' = [client EXCEPT ![c] = query]
  BY DEF Set
<1>3. client'[c] = query /\ \A d \in Clients \ {c} : client'[d] = client[d]
  BY <1>1, <1>2
<1>4. query \in QueryTypes
  BY DEF QueryOK
<1>5. client' \in [Clients -> QueryTypes]
  BY <1>1, <1>2, <1>4
<1>6. \A d \in Clients : QueryOK(client'[d])
  BY <1>1, <1>3
<1>7. (\A d \in Clients : QueryOK(client[d]))'
  BY <1>6 DEF QueryOK, QueryTypes, Ticks, Points
<1> QED BY <1>3, <1>5, <1>7

\* A query that is over is well formed.
LEMMA IdleOK == QueryOK(Idle)
BY DEF QueryOK, Idle, QueryTypes, Points

\* Time may pass while queries wait.
LEMMA SameClients ==
  ASSUME TypeInv, client' = client, clock' \in Nat, clock' >= clock
  PROVE  client' \in [Clients -> QueryTypes] /\ (\A d \in Clients : QueryOK(client[d]))'
<1>1. client \in [Clients -> QueryTypes] /\ \A d \in Clients : QueryOK(client[d])
  BY DEF TypeInv
<1>2. SUFFICES ASSUME NEW d \in Clients PROVE QueryOK(client[d])'
  BY <1>1
<1>3. QueryOK(client[d]) /\ client'[d] = client[d] /\ client[d] \in QueryTypes
  BY <1>1
<1>4. client[d].asked <= clock => client[d].asked <= clock'
  BY <1>3, ClockType DEF QueryTypes
<1>6. client[d].page \subseteq Bars
  BY <1>3 DEF QueryTypes
<1>7. \A b \in Bars : b <= clock => b <= clock'
  BY ClockType
<1>5. \A b \in client[d].page : b <= clock => b <= clock'
  BY <1>6, <1>7
<1> QED BY <1>3, <1>4, <1>5 DEF QueryOK

\* What is missing of a range is in it.
LEMMA MissingTicks ==
  ASSUME NEW lo, NEW hi
  PROVE  Missing(lo, hi) \subseteq lo .. hi
BY DEF Missing

\* The bounds of what is asked.
LEMMA QueryRange ==
  ASSUME TypeInv, NEW r \in Queries
  PROVE  /\ r[1] \in Nat /\ r[2] \in Nat /\ 1 <= r[1] /\ r[1] <= r[2]
         /\ r[2] <= clock + Ahead
         /\ r[1] .. r[2] \subseteq Ticks
<1>1. /\ r[1] \in Nat /\ r[2] \in Nat /\ 1 <= r[1] /\ r[1] <= r[2]
      /\ r[2] <= clock + Ahead
  BY DEF Queries
<1>2. r[2] <= Horizon + Ahead
  BY <1>1, ClockType, BoundType
<1> QED BY <1>1, <1>2, QueryTicks

\* A range query begins.
LEMMA AskRangeOK ==
  ASSUME TypeInv, NEW c \in Clients, NEW r \in Queries, AskRange(c, r[1], r[2])
  PROVE  TypeInv'
<1> DEFINE lo == r[1] hi == r[2]
           query == [Idle EXCEPT !.at = IF Missing(lo, hi) = {} THEN "load" ELSE "fetch",
                                 !.lo = lo, !.hi = hi, !.asked = clock,
                                 !.todo = Missing(lo, hi)]
<1>1. /\ lo \in Nat /\ hi \in Nat /\ 1 <= lo /\ lo <= hi /\ hi <= clock + Ahead
      /\ lo .. hi \subseteq Ticks /\ Missing(lo, hi) \subseteq lo .. hi
  BY QueryRange, MissingTicks
<1>2. clock' = clock /\ Set(c, query) /\ Loaded /\ queries' = queries + 1
      /\ queries < MaxQueries /\ UNCHANGED <<faults, torn, lost>>
  BY DEF AskRange
<1>3. QueryOK(query)
  <2> DEFINE miss == Missing(lo, hi) at == IF miss = {} THEN "load" ELSE "fetch"
  <2>1. query = [at |-> at, lo |-> lo, hi |-> hi, limited |-> FALSE, asked |-> clock,
                 todo |-> miss, read |-> {}, page |-> {}]
    <3> HIDE DEF lo, hi, miss, at
    <3>1. query = [Idle EXCEPT !.at = at, !.lo = lo, !.hi = hi, !.asked = clock,
                               !.todo = miss]
      BY DEF at, miss
    <3> HIDE DEF query
    <3> QED BY <3>1 DEF Idle
  <2>2. at \in {"load", "fetch"} /\ (at = "load" <=> miss = {}) /\ miss \subseteq lo .. hi
    BY <1>1
  <2> HIDE DEF lo, hi, miss, at, query
  <2>3. query \in QueryTypes
    BY <1>1, <2>1, <2>2, ClockType DEF QueryTypes, Points
  <2> QED BY <1>1, <2>1, <2>2, <2>3, ClockType DEF QueryOK
<1> HIDE DEF query
<1>4. client' \in [Clients -> QueryTypes] /\ (\A d \in Clients : QueryOK(client[d]))'
  BY <1>2, <1>3, SetOK
<1>5. DiskOK'
  BY <1>2, LoadedOK DEF TypeInv
<1> QED BY <1>2, <1>4, <1>5 DEF TypeInv, QueryTypes, Ticks, Points

\* A limited query begins and reads.
LEMMA AskLatestOK ==
  ASSUME TypeInv, NEW c \in Clients, NEW r \in Queries, AskLatest(c, r[1], r[2])
  PROVE  TypeInv'
<1> DEFINE lo == r[1] hi == r[2] held == Held(lo, hi)
           read == {b \in held : Cardinality({u \in held : u >= b}) <= Limit}
           query == [Idle EXCEPT !.at = "covered", !.limited = TRUE, !.lo = lo, !.hi = hi,
                                 !.asked = clock, !.read = read]
<1>1. /\ lo \in Nat /\ hi \in Nat /\ 1 <= lo /\ lo <= hi /\ hi <= clock + Ahead
  BY QueryRange
<1>2. clock' = clock /\ Set(c, query) /\ Loaded /\ queries' = queries + 1
      /\ queries < MaxQueries /\ UNCHANGED <<faults, torn, lost>>
  BY DEF AskLatest
<1>3. read \subseteq Bars
  BY FileFields DEF Held, Listed, RowsOf, TypeInv, DiskOK, FileOK
<1>4. QueryOK(query)
  <2>1. query = [at |-> "covered", lo |-> lo, hi |-> hi, limited |-> TRUE,
                 asked |-> clock, todo |-> {}, read |-> read, page |-> {}]
    <3> HIDE DEF lo, hi, read
    <3>1. query = [Idle EXCEPT !.at = "covered", !.limited = TRUE, !.lo = lo, !.hi = hi,
                               !.asked = clock, !.read = read]
      OBVIOUS
    <3> HIDE DEF query
    <3> QED BY <3>1 DEF Idle
  <2> HIDE DEF lo, hi, read, query
  <2>2. query \in QueryTypes
    BY <1>1, <1>3, <2>1, ClockType DEF QueryTypes, Points
  <2> QED BY <1>1, <2>1, <2>2, ClockType DEF QueryOK
<1> HIDE DEF query
<1>5. client' \in [Clients -> QueryTypes] /\ (\A d \in Clients : QueryOK(client[d]))'
  BY <1>2, <1>4, SetOK
<1>6. DiskOK'
  BY <1>2, LoadedOK DEF TypeInv
<1> QED BY <1>2, <1>5, <1>6 DEF TypeInv, QueryTypes, Ticks, Points

\* Every client has a well-formed query.
LEMMA ClientOK ==
  ASSUME TypeInv, NEW c \in Clients
  PROVE  QueryOK(client[c]) /\ client[c] \in QueryTypes
BY DEF TypeInv, QueryOK

\* A limited query looks what is covered.
LEMMA LookCoveredOK ==
  ASSUME TypeInv, NEW c \in Clients, LookCovered(c)
  PROVE  TypeInv'
<1> DEFINE q == client[c]
           next == IF Missing(From(q), q.hi) = {} THEN Idle
                   ELSE [q EXCEPT !.at = "fetch", !.todo = q.lo .. q.hi]
<1>1. QueryOK(q) /\ q \in QueryTypes
  BY ClientOK
<1>2. clock' = clock /\ Set(c, next) /\ Loaded /\ q.at = "covered"
      /\ UNCHANGED <<queries, faults, torn, lost>>
  BY DEF LookCovered
<1> HIDE DEF q
<1>3. /\ q.lo \in Nat /\ q.hi \in Nat /\ q.asked \in Nat /\ 1 <= q.lo /\ q.lo <= q.hi
      /\ q.hi <= q.asked + Ahead /\ q.asked <= clock
      /\ q.limited /\ q.page = {}
  BY <1>1, <1>2 DEF QueryOK, QueryTypes
<1>4. q.lo .. q.hi \subseteq Ticks /\ q.lo \in q.lo .. q.hi
  <2>1. q.hi <= Horizon + Ahead
    BY <1>3, ClockType, BoundType
  <2>2. q.lo \in q.lo .. q.hi
    BY <1>3
  <2>3. q.lo >= 1
    BY <1>3
  <2> QED BY <1>3, <2>1, <2>2, <2>3, QueryTicks
<1>5. QueryOK(next)
  <2>1. QueryOK([q EXCEPT !.at = "fetch", !.todo = q.lo .. q.hi])
    BY <1>1, <1>3, <1>4 DEF QueryOK, QueryTypes, Points
  <2> QED BY <2>1, IdleOK
<1> HIDE DEF next
<1>6. client' \in [Clients -> QueryTypes] /\ (\A d \in Clients : QueryOK(client[d]))'
  BY <1>2, <1>5, SetOK
<1>7. DiskOK'
  BY <1>2, LoadedOK DEF TypeInv
<1> QED BY <1>2, <1>6, <1>7 DEF TypeInv, QueryTypes, Ticks, Points

\* The first range of what is asked for: ticks without a hole from the first one on.
LEMMA RestOf ==
  ASSUME NEW ticks \in SUBSET Ticks, ticks # {}
  PROVE  /\ Rest(ticks, Min(ticks)) \subseteq ticks
         /\ Min(ticks) \in ticks /\ Min(ticks) \in Rest(ticks, Min(ticks))
         /\ \A t \in ticks : Min(ticks) <= t
         /\ \A t, u, v \in Nat : t \in Rest(ticks, Min(ticks)) /\ v \in Rest(ticks, Min(ticks))
              /\ t <= u /\ u <= v => u \in Rest(ticks, Min(ticks))
<1>1. ticks \in SUBSET Nat /\ \A t \in ticks : t <= Bound
  BY BoundType DEF Bound, Ticks
<1> DEFINE m == Min(ticks) p == Past(ticks, m)
<1>2. m \in ticks /\ \A t \in ticks : m <= t
  BY <1>1, MinOf
<1> HIDE DEF m
<1>3. m \in Nat /\ p \in Nat /\ m < p /\ \A u \in Nat : m <= u /\ u < p => u \in ticks
  BY <1>1, <1>2, PastOf, BoundType
<1>4. Rest(ticks, m) = m .. p - 1
  BY DEF Rest
<1> HIDE DEF p
<1>5. Rest(ticks, m) \subseteq ticks /\ m \in Rest(ticks, m)
  BY <1>3, <1>4
<1>6. \A t, u, v \in Nat : t \in Rest(ticks, m) /\ v \in Rest(ticks, m)
              /\ t <= u /\ u <= v => u \in Rest(ticks, m)
  BY <1>3, <1>4
<1> QED BY <1>2, <1>5, <1>6 DEF m

\* The server answers with bars that have come and were asked for.
LEMMA ServedOK ==
  ASSUME NEW q \in QueryTypes, q.todo # {}
  PROVE  Served(q) \subseteq Bars /\ \A b \in Served(q) : b <= clock /\ b \in q.todo
<1>1. Rest(q.todo, Min(q.todo)) \subseteq q.todo
  BY RestOf DEF QueryTypes
<1> QED BY <1>1 DEF Served

\* An answer comes in.
LEMMA FetchOK ==
  ASSUME TypeInv, NEW c \in Clients, Fetch(c)
  PROVE  TypeInv'
<1> DEFINE q    == client[c]
           rest == IF q.limited THEN {} ELSE q.todo \ Rest(q.todo, Min(q.todo))
           next == IF Served(q) # {} THEN [q EXCEPT !.at = "store", !.page = Served(q)]
                   ELSE IF rest # {} THEN [q EXCEPT !.todo = rest]
                   ELSE IF q.limited THEN Idle
                   ELSE [q EXCEPT !.at = "load", !.todo = {}]
<1>1. QueryOK(q) /\ q \in QueryTypes
  BY ClientOK
<1>2. clock' = clock /\ Set(c, next) /\ q.at = "fetch"
      /\ UNCHANGED <<disk, queries, faults, torn, lost>>
  BY DEF Fetch
<1> HIDE DEF q
<1>3. q.todo # {} /\ q.page = {}
  BY <1>1, <1>2 DEF QueryOK
<1>4. Served(q) \subseteq Bars /\ \A b \in Served(q) : b <= clock /\ b \in q.todo
  BY <1>1, <1>3, ServedOK
<1>5. rest \subseteq q.todo /\ (q.limited => rest = {})
  OBVIOUS
<1> HIDE DEF rest
<1>6. QueryOK([q EXCEPT !.at = "store", !.page = Served(q)]) \/ Served(q) = {}
  BY <1>1, <1>2, <1>3, <1>4 DEF QueryOK, QueryTypes, Points
<1>7. QueryOK([q EXCEPT !.todo = rest]) \/ rest = {}
  BY <1>1, <1>2, <1>3, <1>5 DEF QueryOK, QueryTypes, Points
<1>8. QueryOK([q EXCEPT !.at = "load", !.todo = {}]) \/ q.limited
  BY <1>1, <1>2, <1>3 DEF QueryOK, QueryTypes, Points
<1>9. QueryOK(next)
  BY <1>6, <1>7, <1>8, IdleOK
<1> HIDE DEF next
<1>10. client' \in [Clients -> QueryTypes] /\ (\A d \in Clients : QueryOK(client[d]))'
  BY <1>2, <1>9, SetOK
<1>11. DiskOK'
  BY <1>2 DEF TypeInv, DiskOK, disk, FileOK, Files, Names, Ticks
<1> QED BY <1>2, <1>10, <1>11 DEF TypeInv, QueryTypes, Ticks, Points

\* A query fails.
LEMMA FetchFailsOK ==
  ASSUME TypeInv, NEW c \in Clients, FetchFails(c)
  PROVE  TypeInv'
<1>1. clock' = clock /\ Set(c, Idle) /\ UNCHANGED <<disk, queries, faults, torn, lost>>
  BY DEF FetchFails
<1>2. client' \in [Clients -> QueryTypes] /\ (\A d \in Clients : QueryOK(client[d]))'
  BY <1>1, IdleOK, SetOK
<1>3. DiskOK'
  BY <1>1 DEF TypeInv, DiskOK, disk, FileOK, Files, Names, Ticks
<1> QED BY <1>1, <1>2, <1>3 DEF TypeInv, QueryTypes, Ticks, Points

\* A page covers nothing that was not asked for.
LEMMA CoverageOf ==
  ASSUME NEW q, QueryOK(q), q.at = "store"
  PROVE  PageCoverage(q) \subseteq q.todo /\ q.todo \in SUBSET Ticks
<1>1. q \in QueryTypes /\ q.todo # {} /\ q.page # {}
  BY DEF QueryOK
<1>2. q.todo \in SUBSET Ticks /\ q.page \in SUBSET Bars /\ q.lo \in Nat /\ q.hi \in Nat
  BY <1>1 DEF QueryTypes
<1>3. CASE q.limited
  <2>1. q.todo = q.lo .. q.hi
    BY <1>3 DEF QueryOK
  <2>2. Min(q.page) \in q.page
    <3>1. q.page \in SUBSET Nat
      BY <1>2
    <3> QED BY <1>1, <3>1, MinOf
  <2>3. Min(q.page) \in q.lo .. q.hi
    BY <2>1, <2>2 DEF QueryOK
  <2>4. Min(q.page) .. q.hi \subseteq q.lo .. q.hi
    BY <1>2, <2>3
  <2> QED BY <1>2, <1>3, <2>1, <2>4 DEF PageCoverage
<1>4. CASE ~q.limited
  BY <1>1, <1>2, <1>4, RestOf DEF PageCoverage
<1> QED BY <1>2, <1>3, <1>4

\* The page of a query that stores.
LEMMA PageOK ==
  ASSUME TypeInv, NEW c \in Clients, client[c].at = "store"
  PROVE  /\ client[c].page \in SUBSET Bars /\ client[c].page # {}
         /\ \A b \in client[c].page : b <= clock /\ b \in client[c].todo
BY ClientOK DEF QueryOK, QueryTypes

\* A client stores its page.
LEMMA StoreStepOK ==
  ASSUME TypeInv, NEW c \in Clients, Store(c)
  PROVE  TypeInv'
<1> DEFINE q    == client[c]
           rest == q.todo \ PageCoverage(q)
           next == IF q.limited THEN Idle
                   ELSE [q EXCEPT !.at = IF rest = {} THEN "load" ELSE "fetch",
                                  !.todo = rest, !.page = {}]
<1>1. QueryOK(q) /\ q \in QueryTypes
  BY ClientOK
<1>2. clock' = clock /\ Set(c, next) /\ q.at = "store"
      /\ StoreRange(PageCoverage(q), q.page)
      /\ UNCHANGED <<queries, faults, torn, lost>>
  BY DEF Store
<1>3. /\ q.page \in SUBSET Bars /\ q.page # {} /\ \A b \in q.page : b <= clock
      /\ PageCoverage(q) \in SUBSET Ticks
  BY <1>1, <1>2, PageOK, CoverageOf
<1>4. DiskOK'
  BY <1>2, <1>3, StoreOK
<1> HIDE DEF q
<1>5. rest \subseteq q.todo
  OBVIOUS
<1> HIDE DEF rest
<1>6. QueryOK(next)
  BY <1>1, <1>2, <1>5, IdleOK DEF QueryOK, QueryTypes, Points
<1> HIDE DEF next
<1>7. client' \in [Clients -> QueryTypes] /\ (\A d \in Clients : QueryOK(client[d]))'
  BY <1>2, <1>6, SetOK
<1> QED BY <1>2, <1>4, <1>7 DEF TypeInv, QueryTypes, Ticks, Points

\* A client dies in it.
LEMMA DieStepOK ==
  ASSUME TypeInv, NEW c \in Clients, Die(c)
  PROVE  TypeInv'
<1>1. /\ clock' = clock /\ Set(c, Idle) /\ client[c].at = "store"
      /\ faults < MaxFaults /\ faults' = faults + 1
      /\ DiesInStore(client[c].page) /\ UNCHANGED <<queries, lost>>
  BY DEF Die
<1>2. client' \in [Clients -> QueryTypes] /\ (\A d \in Clients : QueryOK(client[d]))'
  BY <1>1, IdleOK, SetOK
<1>3. DiskOK' /\ torn' \in BOOLEAN
  BY <1>1, PageOK, DieOK
<1> QED BY <1>1, <1>2, <1>3 DEF TypeInv, QueryTypes, Ticks, Points

\* A range query ends.
LEMMA LoadOK ==
  ASSUME TypeInv, NEW c \in Clients, Load(c)
  PROVE  TypeInv'
<1>1. /\ clock' = clock /\ Set(c, Idle) /\ Loaded
      /\ UNCHANGED <<queries, faults, torn, lost>>
  BY DEF Load
<1>2. client' \in [Clients -> QueryTypes] /\ (\A d \in Clients : QueryOK(client[d]))'
  BY <1>1, IdleOK, SetOK
<1>3. DiskOK'
  BY <1>1, LoadedOK DEF TypeInv
<1> QED BY <1>1, <1>2, <1>3 DEF TypeInv, QueryTypes, Ticks, Points

\* Time passes, an index is lost, a segment is damaged.
LEMMA OtherStepsOK ==
  ASSUME TypeInv, Tick \/ LoseIndex \/ DamageSegment \/ UNCHANGED vars
  PROVE  TypeInv'
<1>1. /\ client' = client /\ clock' \in Nat /\ clock' >= clock /\ clock' \in Start .. Horizon
      /\ files' \subseteq files
      /\ \/ names' = names /\ coverage' = coverage /\ indexed' = indexed
         \/ names' = {} /\ coverage' = {} /\ indexed' = FALSE
      /\ queries' = queries /\ faults' \in 0 .. MaxFaults /\ torn' = torn
  BY ClockType DEF Tick, LoseIndex, DamageSegment, vars, disk, TypeInv
<1>2. lost' \subseteq Bars
  BY FileFields DEF Tick, LoseIndex, DamageSegment, vars, disk, TypeInv, DiskOK, FileOK
<1>3. client' \in [Clients -> QueryTypes] /\ (\A d \in Clients : QueryOK(client[d]))'
  BY <1>1, SameClients
<1>4. ASSUME NEW f \in files' PROVE FileOK(f)'
  <2>1. FileOK(f)
    BY <1>1, <1>4 DEF TypeInv, DiskOK
  <2>2. f.rows \subseteq Bars
    BY <2>1 DEF FileOK, Files
  <2>3. \A b \in Bars : b <= clock => b <= clock'
    BY <1>1, ClockType
  <2> QED BY <2>1, <2>2, <2>3 DEF FileOK, Files, Ticks
<1>5. DiskOK'
  BY <1>1, <1>4 DEF DiskOK, TypeInv, Names, Ticks
<1> QED BY <1>1, <1>2, <1>3, <1>5 DEF TypeInv, QueryTypes, Ticks, Points

\* The type invariant holds in the beginning,
LEMMA TypeInvInit == Init => TypeInv
<1>1. SUFFICES ASSUME Init PROVE TypeInv
  OBVIOUS
<1>2. \A c \in Clients : client[c] = Idle
  BY <1>1 DEF Init
<1>3. client \in [Clients -> QueryTypes]
  BY <1>1, <1>2, IdleOK DEF Init, QueryOK
<1>4. DiskOK
  BY <1>1 DEF Init, DiskOK
<1>5. clock \in Start .. Horizon /\ queries \in 0 .. MaxQueries /\ faults \in 0 .. MaxFaults
  BY <1>1 DEF Init
<1>6. torn \in BOOLEAN /\ lost \subseteq Bars
  BY <1>1 DEF Init
<1> QED BY <1>2, <1>3, <1>4, <1>5, <1>6, IdleOK DEF TypeInv

\* and every step keeps it.
LEMMA TypeInvNext == TypeInv /\ [Next]_vars => TypeInv'
<1> SUFFICES ASSUME TypeInv, [Next]_vars PROVE TypeInv'
  OBVIOUS
<1>1. CASE \E c \in Clients, r \in Queries : AskRange(c, r[1], r[2])
  BY <1>1, AskRangeOK
<1>2. CASE \E c \in Clients, r \in Queries : AskLatest(c, r[1], r[2])
  BY <1>2, AskLatestOK
<1>3. CASE \E c \in Clients : LookCovered(c)
  BY <1>3, LookCoveredOK
<1>4. CASE \E c \in Clients : Fetch(c) \/ FetchFails(c)
  BY <1>4, FetchOK, FetchFailsOK
<1>5. CASE \E c \in Clients : Store(c)
  BY <1>5, StoreStepOK
<1>6. CASE \E c \in Clients : Die(c)
  BY <1>6, DieStepOK
<1>7. CASE \E c \in Clients : Load(c)
  BY <1>7, LoadOK
<1>8. CASE Tick \/ LoseIndex \/ DamageSegment \/ UNCHANGED vars
  BY <1>8, OtherStepsOK
<1> QED BY <1>1, <1>2, <1>3, <1>4, <1>5, <1>6, <1>7, <1>8 DEF Next

\* Files are well formed, and the place of a query fits its range and page.
THEOREM TypesHold == Spec => []TypeInv
BY TypeInvInit, TypeInvNext, PTL DEF Spec

\* It says more than TypeOK.
LEMMA TypeInvType == TypeInv => TypeOK
<1>1. SUFFICES ASSUME TypeInv PROVE TypeOK
  OBVIOUS
<1>2. \A f \in files : Name(f) \in Names /\ f.rows \subseteq Bars
  BY <1>1 DEF TypeInv, DiskOK, FileOK, Files, Name, Names
<1>3. ASSUME NEW c \in Clients
      PROVE  /\ client[c].at \in Points
             /\ client[c].todo \subseteq Ticks
             /\ client[c].read \cup client[c].page \subseteq Bars
             /\ client[c].at = "fetch" => client[c].todo # {}
             /\ client[c].at = "store" <=> client[c].page # {}
  BY <1>1, ClientOK DEF QueryOK, QueryTypes
<1> QED BY <1>1, <1>2, <1>3 DEF TypeOK, TypeInv, DiskOK

\* The cache directory and the queries over it hold values of their types: a query
\* that asks has something to ask for, and one that stores has rows to store.
THEOREM TypeCorrect == Spec => []TypeOK
BY TypesHold, TypeInvType, PTL

-----------------------------------------------------------------------------
(***************************************************************************)
(* No row leaves the disk.                                                 *)
(***************************************************************************)

\* The segment of a page is whole: up to its last row because the page is solid, and
\* in the period of that row because bars are spaced.
LEMMA SegmentWhole ==
  ASSUME SpacedBars, NEW rows \in SUBSET Bars, rows # {}, Solid(rows), NEW made,
         NEW k \in Nat, \A b \in rows : b <= k
  PROVE  Whole(Segment(rows, Period, made))
<1> DEFINE m == Min(rows) n == Max(rows)
<1>1. rows \in SUBSET Nat
  OBVIOUS
<1>3. m \in rows /\ \A b \in rows : m <= b
  BY <1>1, MinOf
<1>4. n \in rows /\ \A b \in rows : b <= n
  BY <1>1, MaxOf
<1> HIDE DEF m, n
<1>5. m \in Nat /\ n \in Nat /\ n \in Bars
  BY <1>1, <1>3, <1>4
<1>6. ASSUME NEW b \in Bars, m <= b, b < n + Period PROVE b \in rows
  <2>1. b \in Nat
    OBVIOUS
  <2>2. CASE b <= n
    BY <1>3, <1>4, <1>6, <2>2 DEF Solid
  <2>3. CASE n < b
    BY <1>5, <1>6, <2>1, <2>3 DEF SpacedBars
  <2> QED BY <1>5, <2>1, <2>2, <2>3
<1>7. /\ Segment(rows, Period, made).first = m
      /\ Segment(rows, Period, made).past = n + Period
      /\ Segment(rows, Period, made).rows = rows
  BY DEF Segment, m, n
<1> QED BY <1>3, <1>6, <1>7 DEF Whole

\* The rank of a bar counts the rows on one side of it and grows with it.
LEMMA RankBelow ==
  ASSUME NEW rows \in SUBSET Bars, NEW a \in Nat, NEW b \in Nat, a <= b
  PROVE  /\ Cardinality({u \in rows : u <= a}) <= Cardinality({u \in rows : u <= b})
         /\ Cardinality({u \in rows : u <= a}) \in Nat
         /\ Cardinality({u \in rows : u <= b}) \in Nat
<1> DEFINE A == {u \in rows : u <= a} B == {u \in rows : u <= b}
<1>1. IsFiniteSet(rows) /\ \A u \in rows : u \in Nat
  BY FS_Subset
<1>2. A \subseteq B
  <2>1. \A u \in rows : u <= a => u <= b
    BY <1>1
  <2> QED BY <2>1
<1>3. IsFiniteSet(A) /\ IsFiniteSet(B)
  BY <1>1, FS_Subset
<1> HIDE DEF A, B
<1>4. Cardinality(A) <= Cardinality(B)
  BY <1>2, <1>3, FS_Subset
<1>5. Cardinality(A) \in Nat /\ Cardinality(B) \in Nat
  BY <1>3, FS_CardinalityType
<1> QED BY <1>4, <1>5 DEF A, B

\* Or falls.
LEMMA RankAbove ==
  ASSUME NEW rows \in SUBSET Bars, NEW a \in Nat, NEW b \in Nat, a <= b
  PROVE  /\ Cardinality({u \in rows : u >= b}) <= Cardinality({u \in rows : u >= a})
         /\ Cardinality({u \in rows : u >= a}) \in Nat
         /\ Cardinality({u \in rows : u >= b}) \in Nat
<1> DEFINE A == {u \in rows : u >= a} B == {u \in rows : u >= b}
<1>1. IsFiniteSet(rows) /\ \A u \in rows : u \in Nat
  BY FS_Subset
<1>2. B \subseteq A
  <2>1. \A u \in rows : u >= b => u >= a
    BY <1>1
  <2> QED BY <2>1
<1>3. IsFiniteSet(A) /\ IsFiniteSet(B)
  BY <1>1, FS_Subset
<1> HIDE DEF A, B
<1>4. Cardinality(B) <= Cardinality(A)
  BY <1>2, <1>3, FS_Subset
<1>5. Cardinality(A) \in Nat /\ Cardinality(B) \in Nat
  BY <1>3, FS_CardinalityType
<1> QED BY <1>4, <1>5 DEF A, B

\* The server leaves out no bar between two it sends.
LEMMA ServedSolid ==
  ASSUME NEW q \in QueryTypes, q.todo # {}, q.limited => q.todo = q.lo .. q.hi,
         clock \in Nat
  PROVE  Solid(Served(q))
<1> DEFINE range == IF q.limited THEN q.todo ELSE Rest(q.todo, Min(q.todo))
           rows  == {b \in Bars : b \in range /\ b <= clock}
<1>1. rows \in SUBSET Bars /\ \A b \in rows : b \in range /\ b <= clock /\ b \in Nat
  OBVIOUS
<1>2. \A t, u, v \in Nat : t \in range /\ v \in range /\ t <= u /\ u <= v => u \in range
  <2>1. CASE q.limited
    BY <2>1 DEF QueryTypes
  <2>2. CASE ~q.limited
    BY <2>2, RestOf DEF QueryTypes
  <2> QED BY <2>1, <2>2
<1>3. \A b : b \in Served(q) <=>
               /\ b \in rows
               /\ q.limited => Cardinality({u \in rows : u >= b}) <= Limit
               /\ ~q.limited => Cardinality({u \in rows : u <= b}) <= Page
  BY DEF Served
<1>4. SUFFICES ASSUME NEW b \in Bars, NEW m \in Served(q), NEW n \in Served(q),
                      m <= b, b <= n
               PROVE  b \in Served(q)
  BY DEF Solid
<1>5. m \in rows /\ n \in rows /\ m \in Nat /\ n \in Nat /\ b \in Nat
  BY <1>1, <1>3
<1>6. \A u \in Nat : u \in Bars /\ u \in range /\ u <= clock => u \in rows
  OBVIOUS
<1> HIDE DEF range, rows
<1>7. b \in rows
  <2>1. b \in range
    BY <1>1, <1>2, <1>4, <1>5
  <2>2. n <= clock
    BY <1>1, <1>5
  <2>3. b <= clock
    BY <1>4, <1>5, <2>2
  <2> QED BY <1>5, <1>6, <2>1, <2>3
<1>8. CASE q.limited
  <2>1. Cardinality({u \in rows : u >= m}) <= Limit
    BY <1>3, <1>8
  <2>2. /\ Cardinality({u \in rows : u >= b}) <= Cardinality({u \in rows : u >= m})
        /\ Cardinality({u \in rows : u >= b}) \in Nat
        /\ Cardinality({u \in rows : u >= m}) \in Nat
    BY <1>1, <1>4, <1>5, RankAbove
  <2>3. Cardinality({u \in rows : u >= b}) <= Limit
    BY <2>1, <2>2
  <2> QED BY <1>3, <1>7, <1>8, <2>3
<1>9. CASE ~q.limited
  <2>1. Cardinality({u \in rows : u <= n}) <= Page
    BY <1>3, <1>9
  <2>2. /\ Cardinality({u \in rows : u <= b}) <= Cardinality({u \in rows : u <= n})
        /\ Cardinality({u \in rows : u <= b}) \in Nat
        /\ Cardinality({u \in rows : u <= n}) \in Nat
    BY <1>1, <1>4, <1>5, RankBelow
  <2>3. Cardinality({u \in rows : u <= b}) <= Page
    BY <2>1, <2>2
  <2> QED BY <1>3, <1>7, <1>9, <2>3
<1> QED BY <1>8, <1>9 DEF QueryTypes

\* The new segment joins the files and replaces none.
LEMMA AddedFine ==
  ASSUME TypeInv, SpacedBars, WholeFiles,
         NEW rows \in SUBSET Bars, rows # {}, \A b \in rows : b <= clock, Solid(rows)
  PROVE  /\ Fine(files)
         /\ Added(rows) = files \cup {Segment(rows, Period, clock)} /\ Fine(Added(rows))
         /\ Segment(rows, Period, clock).rows = rows
<1>1. Fine(files)
  BY DEF TypeInv, DiskOK, WholeFiles, Fine
<1>2. FileOK(Segment(rows, Period, clock)) /\ Whole(Segment(rows, Period, clock))
  BY AddedOK, SegmentWhole, ClockType
<1>3. Segment(rows, Period, clock).rows = rows
  BY DEF Segment
<1> HIDE DEF Segment
<1> QED BY <1>1, <1>2, <1>3, PutFine DEF Added

\* What storing a page leaves on the disk.
LEMMA StoreFiles ==
  ASSUME TypeInv, SpacedBars, WholeFiles,
         NEW rows \in SUBSET Bars, rows # {}, \A b \in rows : b <= clock, Solid(rows),
         NEW ticks, StoreRange(ticks, rows)
  PROVE  (\A f \in files' : Whole(f)) /\ RowsOf(files) \cup rows \subseteq RowsOf(files')
<1>1. /\ Added(rows) = files \cup {Segment(rows, Period, clock)} /\ Fine(Added(rows))
      /\ Segment(rows, Period, clock).rows = rows
  BY AddedFine
<1>2. AddedListed(rows) \in SUBSET Added(rows)
  BY AddedOK
<1>3. files' = Compacted(Added(rows), AddedListed(rows))
  BY DEF StoreRange
<1>4. Fine(files') /\ RowsOf(Added(rows)) \subseteq RowsOf(files')
  BY <1>1, <1>2, <1>3, CompactedFine, ClockType
<1>5. RowsOf(files) \cup rows \subseteq RowsOf(Added(rows))
  BY <1>1 DEF RowsOf
<1> QED BY <1>4, <1>5 DEF Fine

\* What a process leaves there that dies while it stores.
LEMMA DieFiles ==
  ASSUME TypeInv, SpacedBars, WholeFiles,
         NEW rows \in SUBSET Bars, rows # {}, \A b \in rows : b <= clock, Solid(rows),
         DiesInStore(rows)
  PROVE  (\A f \in files' : Whole(f)) /\ RowsOf(files) \subseteq RowsOf(files')
<1>1. Added(rows) = files \cup {Segment(rows, Period, clock)} /\ Fine(Added(rows))
  BY AddedFine
<1>2. AddedListed(rows) \in SUBSET Added(rows)
  BY AddedOK
<1>3. \/ files' = Added(rows)
      \/ \E grp \in Groups(AddedListed(rows)) : \E removed \in SUBSET grp :
           files' = CompactedUpTo(Added(rows), AddedListed(rows), grp, removed)
  <2>1. CASE files' = Added(rows)
    BY <2>1
  <2>2. CASE \E grp \in Groups(AddedListed(rows)) :
               files' = CompactedUpTo(Added(rows), AddedListed(rows), grp, {})
    BY <2>2
  <2>3. CASE \E grp \in Groups(AddedListed(rows)) : \E f \in grp :
                 files' = CompactedUpTo(Added(rows), AddedListed(rows), grp,
                                        {g \in grp : g = f \/ Before(g, f)})
    BY <2>3
  <2> QED BY <2>1, <2>2, <2>3 DEF DiesInStore
<1>4. Fine(files') /\ RowsOf(Added(rows)) \subseteq RowsOf(files')
  <2>1. CASE files' = Added(rows)
    BY <1>1, <2>1
  <2>2. ASSUME NEW grp \in Groups(AddedListed(rows)), NEW removed \in SUBSET grp,
               files' = CompactedUpTo(Added(rows), AddedListed(rows), grp, removed)
        PROVE  Fine(files') /\ RowsOf(Added(rows)) \subseteq RowsOf(files')
    BY <1>1, <1>2, <2>2, CompactedUpToFine, ClockType
  <2> QED BY <1>3, <2>1, <2>2
<1>5. RowsOf(files) \subseteq RowsOf(Added(rows))
  BY <1>1 DEF RowsOf
<1> QED BY <1>4, <1>5 DEF Fine

\* The page a client stores.
LEMMA PageSolid ==
  ASSUME TypeInv, SolidPages, NEW c \in Clients, client[c].at = "store"
  PROVE  /\ client[c].page \in SUBSET Bars /\ client[c].page # {} /\ Solid(client[c].page)
         /\ \A b \in client[c].page : b <= clock
BY PageOK DEF SolidPages

\* What any step leaves there.
LEMMA FilesStep ==
  ASSUME TypeInv, SpacedBars, WholeFiles, SolidPages, [Next]_vars
  PROVE  (\A f \in files' : Whole(f)) /\ RowsOf(files) \subseteq RowsOf(files') \cup lost'
<1>1. CASE \E c \in Clients : Store(c)
  <2>1. PICK c \in Clients : Store(c)
    BY <1>1
  <2>2. client[c].at = "store" /\ StoreRange(PageCoverage(client[c]), client[c].page)
    BY <2>1 DEF Store
  <2>3. PICK ticks : StoreRange(ticks, client[c].page)
    BY <2>2
  <2> QED BY <2>2, <2>3, PageSolid, StoreFiles
<1>2. CASE \E c \in Clients : Die(c)
  <2>1. PICK c \in Clients : Die(c)
    BY <1>2
  <2>2. client[c].at = "store" /\ DiesInStore(client[c].page)
    BY <2>1 DEF Die
  <2> QED BY <2>2, PageSolid, DieFiles
<1>3. CASE DamageSegment
  <2>1. PICK f \in files : files' = files \ {f} /\ lost' = lost \cup f.rows
    BY <1>3 DEF DamageSegment
  <2> QED BY <2>1 DEF WholeFiles, RowsOf
<1>4. CASE files' = files
  BY <1>4 DEF WholeFiles
<1>5. \/ \E c \in Clients : Store(c) \/ Die(c)
      \/ DamageSegment
      \/ files' = files
  BY DEF Next, AskRange, AskLatest, LookCovered, Fetch, FetchFails, Load, Tick, LoseIndex,
         Loaded, disk, vars
<1> QED BY <1>1, <1>2, <1>3, <1>4, <1>5

\* A query that is over has no page.
LEMMA IdleSolid == Solid(Idle.page)
BY DEF Solid, Idle

\* A client moves, the pages of the others stay.
LEMMA SetPages ==
  ASSUME TypeInv, SolidPages, NEW c \in Clients, NEW query, Set(c, query),
         Solid(query.page)
  PROVE  SolidPages'
<1>1. \A d \in Clients : client'[d] = IF d = c THEN query ELSE client[d]
  BY DEF Set, TypeInv
<1> QED BY <1>1 DEF SolidPages, Solid

\* Pages stay solid.
LEMMA PagesStep ==
  ASSUME TypeInv, SolidPages, [Next]_vars
  PROVE  SolidPages'
<1>1. CASE \E c \in Clients : \E query : Set(c, query) /\ Solid(query.page)
  BY <1>1, SetPages
<1>2. CASE client' = client
  BY <1>2 DEF SolidPages, Solid
<1>3. ASSUME NEW c \in Clients, NEW r \in Queries, AskRange(c, r[1], r[2])
      PROVE  \E query : Set(c, query) /\ Solid(query.page)
  <2> DEFINE query == [Idle EXCEPT !.at = IF Missing(r[1], r[2]) = {} THEN "load" ELSE "fetch",
                                   !.lo = r[1], !.hi = r[2], !.asked = clock,
                                   !.todo = Missing(r[1], r[2])]
  <2>1. Set(c, query)
    BY <1>3 DEF AskRange
  <2>2. query.page = Idle.page
    BY DEF Idle
  <2> HIDE DEF query
  <2> QED BY <2>1, <2>2, IdleSolid
<1>4. ASSUME NEW c \in Clients, NEW r \in Queries, AskLatest(c, r[1], r[2])
      PROVE  \E query : Set(c, query) /\ Solid(query.page)
  <2> DEFINE held == Held(r[1], r[2])
             read == {b \in held : Cardinality({u \in held : u >= b}) <= Limit}
             query == [Idle EXCEPT !.at = "covered", !.limited = TRUE, !.lo = r[1],
                                   !.hi = r[2], !.asked = clock, !.read = read]
  <2>1. Set(c, query)
    BY <1>4 DEF AskLatest
  <2>2. query.page = Idle.page
    BY DEF Idle
  <2> HIDE DEF query
  <2> QED BY <2>1, <2>2, IdleSolid
<1>5. ASSUME NEW c \in Clients, LookCovered(c)
      PROVE  \E query : Set(c, query) /\ Solid(query.page)
  <2>1. client[c] \in QueryTypes /\ Solid(client[c].page)
    BY ClientOK DEF SolidPages
  <2> DEFINE a == [client[c] EXCEPT !.at = "fetch", !.todo = client[c].lo .. client[c].hi]
  <2>2. Set(c, Idle) \/ Set(c, a)
    BY <1>5 DEF LookCovered
  <2>3. a.page = client[c].page
    BY <2>1 DEF QueryTypes
  <2> HIDE DEF a
  <2> QED BY <2>1, <2>2, <2>3, IdleSolid
<1>6. ASSUME NEW c \in Clients, Fetch(c)
      PROVE  \E query : Set(c, query) /\ Solid(query.page)
  <2> DEFINE q == client[c]
             rest == IF q.limited THEN {} ELSE q.todo \ Rest(q.todo, Min(q.todo))
             s == [q EXCEPT !.at = "store", !.page = Served(q)]
             t == [q EXCEPT !.todo = rest]
             l == [q EXCEPT !.at = "load", !.todo = {}]
  <2>1. QueryOK(q) /\ q \in QueryTypes /\ Solid(q.page) /\ q.at = "fetch"
    BY <1>6, ClientOK DEF SolidPages, Fetch
  <2>2. Set(c, Idle) \/ Set(c, s) \/ Set(c, t) \/ Set(c, l)
    BY <1>6 DEF Fetch
  <2>3. Solid(Served(q))
    <3>1. q.todo # {} /\ (q.limited => q.todo = q.lo .. q.hi)
      BY <2>1 DEF QueryOK
    <3> QED BY <2>1, <3>1, ServedSolid, ClockType
  <2>4. s.page = Served(q) /\ t.page = q.page /\ l.page = q.page
    BY <2>1 DEF QueryTypes
  <2> HIDE DEF s, t, l
  <2> QED BY <2>1, <2>2, <2>3, <2>4, IdleSolid
<1>7. ASSUME NEW c \in Clients, Store(c)
      PROVE  \E query : Set(c, query) /\ Solid(query.page)
  <2> DEFINE q == client[c]
             rest == q.todo \ PageCoverage(q)
             n == [q EXCEPT !.at = IF rest = {} THEN "load" ELSE "fetch",
                            !.todo = rest, !.page = {}]
  <2>1. Set(c, Idle) \/ Set(c, n)
    BY <1>7 DEF Store
  <2>2. n.page = {}
    BY ClientOK DEF QueryTypes
  <2>3. Solid({})
    BY DEF Solid
  <2> HIDE DEF n
  <2> QED BY <2>1, <2>2, <2>3, IdleSolid
<1>8. ASSUME NEW c \in Clients, FetchFails(c) \/ Die(c) \/ Load(c)
      PROVE  \E query : Set(c, query) /\ Solid(query.page)
  BY <1>8, IdleSolid DEF FetchFails, Die, Load
<1>9. CASE Tick \/ LoseIndex \/ DamageSegment \/ UNCHANGED vars
  BY <1>2, <1>9 DEF Tick, LoseIndex, DamageSegment, vars
<1> QED BY <1>1, <1>3, <1>4, <1>5, <1>6, <1>7, <1>8, <1>9 DEF Next

\* Files are whole and pages solid.
LEMMA WholeStep ==
  ASSUME SpacedBars
  PROVE  Spec => [](TypeInv /\ WholeFiles /\ SolidPages)
<1>1. Init => WholeFiles /\ SolidPages
  BY IdleSolid DEF Init, WholeFiles, SolidPages
<1>2. TypeInv /\ WholeFiles /\ SolidPages /\ [Next]_vars => (WholeFiles /\ SolidPages)'
  <2> SUFFICES ASSUME TypeInv, WholeFiles, SolidPages, [Next]_vars
               PROVE  (WholeFiles /\ SolidPages)'
    OBVIOUS
  <2>1. \A f \in files' : Whole(f)
    BY FilesStep
  <2>2. WholeFiles'
    BY <2>1 DEF WholeFiles, Whole
  <2> QED BY <2>2, PagesStep
<1> QED BY <1>1, <1>2, TypeInvInit, TypeInvNext, PTL DEF Spec

\* No compaction takes a row off the disk, wherever a death cuts it, and a damaged
\* segment takes no row but its own.
THEOREM RowsAreKept ==
  ASSUME SpacedBars
  PROVE  Spec => RowsStay
<1>1. TypeInv /\ WholeFiles /\ SolidPages /\ [Next]_vars =>
        [RowsOf(files) \subseteq RowsOf(files') \cup lost']_vars
  BY FilesStep
<1> QED BY <1>1, WholeStep, PTL DEF Spec, RowsStay

-----------------------------------------------------------------------------
(***************************************************************************)
(* Pages are whole.                                                        *)
(***************************************************************************)

\* RankAbove, for all bars.
LEMMA RanksAbove ==
  ASSUME NEW rows \in SUBSET Bars
  PROVE  \A a, b \in Nat : a <= b =>
           /\ Cardinality({u \in rows : u >= b}) <= Cardinality({u \in rows : u >= a})
           /\ Cardinality({u \in rows : u >= a}) \in Nat
           /\ Cardinality({u \in rows : u >= b}) \in Nat
BY RankAbove

\* If not all rows are among the newest n, these are n: the greatest row that is not
\* one of them has rank n + 1 at least, and above it is nothing but them.
LEMMA NewestFull ==
  ASSUME NEW rows \in SUBSET Bars, NEW n \in Nat \ {0}, NEW k \in Nat,
         \A b \in rows : b <= k,
         NEW x \in rows, x \notin NewestRows(rows, n)
  PROVE  Cardinality(NewestRows(rows, n)) = n
<1> DEFINE S == NewestRows(rows, n) O == rows \ S
           rank(b) == Cardinality({u \in rows : u >= b})
<1>1. \A b : b \in S <=> b \in rows /\ rank(b) <= n
  BY DEF NewestRows
<1>2. rows \in SUBSET Nat /\ IsFiniteSet(rows)
  BY FS_Subset
<1>3. \A a, b \in Nat : a <= b => rank(b) <= rank(a) /\ rank(a) \in Nat /\ rank(b) \in Nat
  BY ONLY rows \in SUBSET Bars, RanksAbove
<1> HIDE DEF rank, S
<1>4. PICK g \in O : \A b \in O : b <= g
  <2>1. O \in SUBSET Nat /\ x \in O /\ \A b \in O : b <= k
    BY <1>2 DEF S
  <2> HIDE DEF O
  <2> QED BY <2>1, GreatestOf
<1>5. g \in rows /\ g \in Nat /\ rank(g) \in Nat /\ ~(rank(g) <= n)
  BY <1>1, <1>2, <1>3, <1>4
<1>6. \A u \in rows : u \in S <=> u > g
  <2>1. ASSUME NEW u \in rows, u \in S PROVE u > g
    <3>1. u \in Nat /\ rank(u) <= n
      BY <1>1, <1>2, <2>1
    <3>2. u <= g => rank(g) <= rank(u) /\ rank(u) \in Nat
      BY <1>3, <1>5, <3>1
    <3> QED BY <1>5, <3>1, <3>2
  <2>2. ASSUME NEW u \in rows, u \notin S PROVE ~(u > g)
    BY <1>2, <1>4, <1>5, <2>2
  <2> QED BY <2>1, <2>2
<1>7. S \subseteq rows /\ IsFiniteSet(S) /\ Cardinality(S) \in Nat
  <2>1. S \subseteq rows
    BY <1>1
  <2> QED BY <1>2, <2>1, FS_Subset, FS_CardinalityType
<1>8. {u \in rows : u >= g} = S \cup {g}
  <2>1. \A u \in rows : u >= g <=> u > g \/ u = g
    BY <1>2, <1>5
  <2> QED BY <1>5, <1>6, <1>7, <2>1
<1>9. rank(g) = Cardinality(S) + 1
  <2>1. g \notin S
    BY <1>4
  <2> QED BY <1>7, <1>8, <2>1, FS_AddElement DEF rank
<1>10. Cardinality(S) >= n
  BY <1>5, <1>7, <1>9
<1>11. S # {} /\ S \in SUBSET Nat
  BY <1>2, <1>7, <1>10, FS_EmptySet
<1>12. PICK m \in S : \A b \in S : m <= b
  BY <1>11, LeastOf
<1>13. rank(m) <= n /\ m \in rows /\ m \in Nat
  BY <1>1, <1>11, <1>12
<1>14. S \subseteq {u \in rows : u >= m} /\ IsFiniteSet({u \in rows : u >= m})
  <2>1. {u \in rows : u >= m} \subseteq rows
    OBVIOUS
  <2>2. \A b \in S : b \in rows /\ b \in Nat /\ b >= m
    BY <1>7, <1>11, <1>12
  <2> QED BY <1>2, <2>1, <2>2, FS_Subset
<1>15. Cardinality(S) <= rank(m) /\ rank(m) \in Nat
  BY <1>3, <1>13, <1>14, FS_Subset DEF rank
<1>16. Cardinality(S) = n
  BY <1>7, <1>10, <1>13, <1>15
<1> QED BY <1>16 DEF S

\* The bars a server can answer a query with.
Answers(q) ==
  {b \in Bars : b \in (IF q.limited THEN q.todo ELSE Rest(q.todo, Min(q.todo)))
                /\ b <= clock}

\* The server sends the newest of them, or the first.
LEMMA ServedOf ==
  ASSUME NEW q
  PROVE  /\ q.limited => Served(q) = NewestRows(Answers(q), Limit)
         /\ ~q.limited => Served(q) = {b \in Answers(q) :
                            Cardinality({u \in Answers(q) : u <= b}) <= Page}
BY DEF Served, NewestRows, Answers

\* A full page covers from or up to its outermost row, and one that is not full holds
\* all there is.
LEMMA ServedWhole ==
  ASSUME Ahead = 0, clock \in Nat, NEW q, QueryOK(q), q.at = "fetch", Served(q) # {},
         NEW p, p = [q EXCEPT !.at = "store", !.page = Served(q)]
  PROVE  PageWhole(p)
<1> DEFINE page == Served(q)
<1>1. /\ q \in QueryTypes /\ q.todo # {} /\ (q.limited => q.todo = q.lo .. q.hi)
      /\ q.lo \in Nat /\ q.hi \in Nat /\ q.asked \in Nat /\ q.hi <= clock
      /\ q.todo \subseteq q.lo .. q.hi
  BY DEF QueryOK, QueryTypes
<1>2. p.limited = q.limited /\ p.todo = q.todo /\ p.page = page /\ p.lo = q.lo /\ p.hi = q.hi
  BY <1>1 DEF QueryTypes
<1>3. page \in SUBSET Bars /\ page # {} /\ \A b \in page : b <= clock /\ b \in q.todo
  BY <1>1, ServedOK
<1>4. Answers(q) \in SUBSET Bars /\ \A b \in Answers(q) : b <= clock
  BY DEF Answers
<1> HIDE DEF page
<1>5. page \in SUBSET Nat
  BY <1>3
<1>6. Min(page) \in page /\ Max(page) \in page /\ Min(page) \in Nat /\ Max(page) \in Nat
  BY <1>3, <1>5, MinOf, MaxOf
<1>7. SUFFICES ASSUME NEW b \in Bars, b \in PageCoverage(p) PROVE b \in page
  BY <1>2 DEF PageWhole
<1>8. CASE q.limited
  <2>1. page = NewestRows(Answers(q), Limit)
    BY <1>8, ServedOf DEF page
  <2>2. b \in (IF Cardinality(page) = Limit THEN Min(page) ELSE q.lo) .. q.hi
    BY <1>2, <1>7, <1>8 DEF PageCoverage
  <2>3. Min(page) \in q.lo .. q.hi
    BY <1>1, <1>3, <1>6
  <2>4. b \in q.lo .. q.hi /\ b \in Nat /\ b <= clock
    BY <1>1, <2>2, <2>3
  <2>5. b \in Answers(q)
    BY <1>1, <1>8, <2>4 DEF Answers
  <2>6. CASE Cardinality(page) = Limit
    <3>1. Min(page) <= b
      BY <2>2, <2>4, <2>6, <1>6
    <3>2. Cardinality({u \in Answers(q) : u >= Min(page)}) <= Limit
      BY <1>6, <2>1 DEF NewestRows
    <3>3. /\ Cardinality({u \in Answers(q) : u >= b})
               <= Cardinality({u \in Answers(q) : u >= Min(page)})
          /\ Cardinality({u \in Answers(q) : u >= b}) \in Nat
          /\ Cardinality({u \in Answers(q) : u >= Min(page)}) \in Nat
      BY <1>4, <1>6, <2>4, <3>1, RankAbove
    <3>4. Cardinality({u \in Answers(q) : u >= b}) <= Limit
      BY <3>2, <3>3
    <3> QED BY <2>1, <2>5, <3>4 DEF NewestRows
  <2>7. CASE Cardinality(page) # Limit
    BY <1>4, <2>1, <2>5, <2>7, NewestFull
  <2> QED BY <2>6, <2>7
<1>9. CASE ~q.limited
  <2> DEFINE n == Max(page)
  <2>1. page = {u \in Answers(q) : Cardinality({v \in Answers(q) : v <= u}) <= Page}
    BY <1>9, ServedOf DEF page
  <2>2. b \in Rest(q.todo, Min(q.todo)) /\ b <= n
    BY <1>2, <1>7, <1>9 DEF PageCoverage
  <2>3. n \in page /\ n \in Nat /\ n <= clock /\ b \in Nat
    BY <1>3, <1>6
  <2> HIDE DEF n
  <2>4. b \in Answers(q)
    BY <1>9, <2>2, <2>3 DEF Answers
  <2>5. Cardinality({u \in Answers(q) : u <= n}) <= Page
    BY <2>1, <2>3
  <2>6. /\ Cardinality({u \in Answers(q) : u <= b})
             <= Cardinality({u \in Answers(q) : u <= n})
        /\ Cardinality({u \in Answers(q) : u <= b}) \in Nat
        /\ Cardinality({u \in Answers(q) : u <= n}) \in Nat
    BY <1>4, <2>2, <2>3, RankBelow
  <2>7. Cardinality({u \in Answers(q) : u <= b}) <= Page
    BY <2>5, <2>6
  <2> QED BY <2>1, <2>4, <2>7
<1> QED BY <1>8, <1>9

\* An empty page means that the range is empty.
LEMMA ServedEmpty ==
  ASSUME NEW q, ~q.limited, Served(q) = {}, clock \in Nat
  PROVE  Answers(q) = {}
<1>1. SUFFICES ASSUME Answers(q) # {} PROVE FALSE
  OBVIOUS
<1>2. Answers(q) \in SUBSET Nat
  BY DEF Answers
<1>3. PICK m \in Answers(q) : \A b \in Answers(q) : m <= b
  BY <1>1, <1>2, LeastOf
<1>4. {u \in Answers(q) : u <= m} = {m}
  <2>1. \A u \in Answers(q) : u \in Nat /\ m \in Nat /\ m <= u
    BY <1>2, <1>3
  <2> QED BY <2>1, <1>3
<1>5. Cardinality({u \in Answers(q) : u <= m}) = 1
  BY <1>4, FS_Singleton
<1>6. m \in Served(q)
  BY <1>3, <1>5, ServedOf
<1> QED BY <1>6

\* Pages stay whole.
LEMMA PagesWholeStep ==
  ASSUME TypeInv, PagesWhole, Ahead = 0, [Next]_vars
  PROVE  PagesWhole'
<1>1. SUFFICES ASSUME NEW d \in Clients, client'[d].at = "store" PROVE PageWhole(client'[d])
  BY DEF PagesWhole, PageWhole, PageCoverage, Rest, Past
<1>2. CASE client'[d] = client[d]
  BY <1>1, <1>2 DEF PagesWhole
<1>3. CASE client'[d] # client[d]
  <2>1. client \in [Clients -> QueryTypes]
    BY DEF TypeInv
  <2>2. ASSUME NEW c \in Clients, NEW query, Set(c, query)
        PROVE  c = d /\ client'[d] = query
    BY <1>3, <2>1, <2>2 DEF Set
  <2>3. Idle.at # "store"
    BY DEF Idle
  <2>4. ASSUME NEW c \in Clients, Fetch(c) PROVE PageWhole(client'[d])
    <3> DEFINE q == client[c]
               rest == IF q.limited THEN {} ELSE q.todo \ Rest(q.todo, Min(q.todo))
               s == [q EXCEPT !.at = "store", !.page = Served(q)]
               t == [q EXCEPT !.todo = rest]
               l == [q EXCEPT !.at = "load", !.todo = {}]
    <3>1. QueryOK(q) /\ q \in QueryTypes /\ q.at = "fetch"
      BY <2>4, ClientOK DEF Fetch
    <3>2. Set(c, Idle) \/ (Set(c, s) /\ Served(q) # {}) \/ Set(c, t) \/ Set(c, l)
      BY <2>4 DEF Fetch
    <3>3. t.at = "fetch" /\ l.at = "load"
      BY <3>1 DEF QueryTypes
    <3> HIDE DEF t, l
    <3>4. Served(q) # {} => PageWhole(s)
      BY <3>1, ServedWhole, ClockType
    <3> HIDE DEF s, q
    <3>5. \A x : Set(c, x) => client'[d] = x
      BY <2>2
    <3>6. Set(c, s) /\ Served(q) # {}
      BY <1>1, <2>3, <3>2, <3>3, <3>5
    <3> QED BY <3>4, <3>5, <3>6
  <2>5. ASSUME NEW c \in Clients, NEW r \in Queries,
               AskRange(c, r[1], r[2]) \/ AskLatest(c, r[1], r[2])
        PROVE  FALSE
    <3> DEFINE a == [Idle EXCEPT !.at = IF Missing(r[1], r[2]) = {} THEN "load" ELSE "fetch",
                                 !.lo = r[1], !.hi = r[2], !.asked = clock,
                                 !.todo = Missing(r[1], r[2])]
               held == Held(r[1], r[2])
               read == {b \in held : Cardinality({u \in held : u >= b}) <= Limit}
               l == [Idle EXCEPT !.at = "covered", !.limited = TRUE, !.lo = r[1],
                                 !.hi = r[2], !.asked = clock, !.read = read]
    <3>1. Set(c, a) \/ Set(c, l)
      BY <2>5 DEF AskRange, AskLatest
    <3>2. a.at # "store" /\ l.at # "store"
      BY DEF Idle
    <3> HIDE DEF a, l
    <3> QED BY <1>1, <2>2, <3>1, <3>2
  <2>6. ASSUME NEW c \in Clients, LookCovered(c) PROVE FALSE
    <3> DEFINE a == [client[c] EXCEPT !.at = "fetch", !.todo = client[c].lo .. client[c].hi]
    <3>1. Set(c, Idle) \/ Set(c, a)
      BY <2>6 DEF LookCovered
    <3>2. a.at = "fetch"
      BY <2>1 DEF QueryTypes
    <3> HIDE DEF a
    <3> QED BY <1>1, <2>2, <2>3, <3>1, <3>2
  <2>7. ASSUME NEW c \in Clients, Store(c) PROVE FALSE
    <3> DEFINE q == client[c]
               rest == q.todo \ PageCoverage(q)
               n == [q EXCEPT !.at = IF rest = {} THEN "load" ELSE "fetch",
                              !.todo = rest, !.page = {}]
    <3>1. Set(c, Idle) \/ Set(c, n)
      BY <2>7 DEF Store
    <3>2. n.at # "store"
      BY <2>1 DEF QueryTypes
    <3> HIDE DEF n
    <3> QED BY <1>1, <2>2, <2>3, <3>1, <3>2
  <2>8. ASSUME NEW c \in Clients, FetchFails(c) \/ Die(c) \/ Load(c) PROVE FALSE
    BY <1>1, <2>2, <2>3, <2>8 DEF FetchFails, Die, Load
  <2>9. CASE Tick \/ LoseIndex \/ DamageSegment \/ UNCHANGED vars
    BY <1>3, <2>9 DEF Tick, LoseIndex, DamageSegment, vars
  <2> QED BY <2>4, <2>5, <2>6, <2>7, <2>8, <2>9 DEF Next
<1> QED BY <1>2, <1>3

-----------------------------------------------------------------------------
(***************************************************************************)
(* What is covered is held.                                                *)
(***************************************************************************)

\* The files a reader finds, with the index and without.
LEMMA KnownRowsOf ==
  ASSUME indexed \in BOOLEAN
  PROVE  KnownRows = IF indexed THEN RowsOf(Listed(files, names)) ELSE RowsOf(files)
<1>1. ASSUME indexed PROVE Listed(files, KnownNames) = Listed(files, names)
  BY <1>1 DEF Listed, KnownNames, NamesOf
<1>2. ASSUME ~indexed PROVE Listed(files, KnownNames) = files
  BY <1>2 DEF Listed, KnownNames, NamesOf
<1> QED BY <1>1, <1>2 DEF KnownRows

\* An index that is rebuilt covers what the files hold, since they are whole.
LEMMA KnownCoverageHeld ==
  ASSUME TypeInv, WholeFiles, CoverageHeld, ~torn
  PROVE  Bars \cap KnownCoverage \subseteq KnownRows \cup lost
<1>0. indexed \in BOOLEAN
  BY DEF TypeInv, DiskOK
<1>1. CASE indexed
  <2>1. KnownCoverage \subseteq coverage
    BY <1>1 DEF KnownCoverage
  <2>2. KnownRows = RowsOf(Listed(files, names))
    BY <1>0, <1>1, KnownRowsOf
  <2> QED BY <1>1, <2>1, <2>2 DEF CoverageHeld
<1>2. CASE ~indexed
  <2>1. KnownRows = RowsOf(files)
    BY <1>0, <1>2, KnownRowsOf
  <2>2. ASSUME NEW b \in Bars, b \in KnownCoverage PROVE b \in RowsOf(files)
    <3>1. PICK f \in files : b \in f.first .. f.past - 1
      BY <1>2, <2>2 DEF KnownCoverage
    <3>2. f.first \in Nat /\ f.past \in Nat
      BY FileFields DEF TypeInv, DiskOK, FileOK
    <3>3. f.first <= b /\ b < f.past
      BY <3>1, <3>2
    <3> QED BY <3>3 DEF WholeFiles, Whole, RowsOf
  <2> QED BY <2>1, <2>2
<1> QED BY <1>1, <1>2

\* A reader changes nothing of what is known.
LEMMA LoadedKeeps ==
  ASSUME TypeInv, WholeFiles, CoverageHeld, Loaded, torn' = torn, lost' = lost
  PROVE  /\ files' = files /\ KnownRows' = KnownRows /\ CoverageHeld'
<1>1. indexed \in BOOLEAN /\ indexed' \in BOOLEAN
  BY DEF Loaded, TypeInv, DiskOK, disk
<1>2. KnownRows = IF indexed THEN RowsOf(Listed(files, names)) ELSE RowsOf(files)
  BY <1>1, KnownRowsOf
<1>3. KnownRows' = IF indexed' THEN RowsOf(Listed(files', names')) ELSE RowsOf(files')
  BY <1>1 DEF KnownRows, KnownNames, Listed, NamesOf, RowsOf
<1>4. CASE UNCHANGED disk
  BY <1>2, <1>3, <1>4 DEF disk, CoverageHeld, Listed, RowsOf
<1>5. CASE /\ indexed' = TRUE /\ names' = KnownNames
           /\ coverage' = KnownCoverage /\ files' = files
  <2>1. KnownRows' = RowsOf(Listed(files, KnownNames))
    BY <1>3, <1>5
  <2>2. KnownRows' = KnownRows
    BY <2>1 DEF KnownRows
  <2>3. RowsOf(Listed(files', names')) = KnownRows
    BY <1>5 DEF KnownRows
  <2>4. ASSUME ~torn' PROVE Bars \cap coverage' \subseteq RowsOf(Listed(files', names')) \cup lost'
    BY <1>5, <2>3, <2>4, KnownCoverageHeld
  <2>5. CoverageHeld'
    BY <2>4 DEF CoverageHeld, Listed, RowsOf
  <2> QED BY <1>5, <2>2, <2>5
<1> QED BY <1>4, <1>5 DEF Loaded

\* After a page is stored the index lists files with all rows known and its own,
LEMMA StoreListed ==
  ASSUME TypeInv, SpacedBars, WholeFiles,
         NEW rows \in SUBSET Bars, rows # {}, \A b \in rows : b <= clock, Solid(rows),
         NEW ticks, StoreRange(ticks, rows)
  PROVE  KnownRows \cup rows \subseteq RowsOf(Listed(files', names'))
<1> DEFINE seg == Segment(rows, Period, clock) listed == AddedListed(rows)
           cs == Compacted(listed, listed)
<1>1. /\ Fine(files) /\ Added(rows) = files \cup {seg} /\ Fine(Added(rows))
      /\ seg.rows = rows
  BY AddedFine
<1>2. listed = Listed(Added(rows), KnownNames \cup {Name(seg)})
  BY DEF AddedListed
<1>3. /\ files' = Compacted(Added(rows), listed)
      /\ names' = NamesOf(cs)
  BY DEF StoreRange
<1> HIDE DEF seg, listed
<1>4. Listed(files, KnownNames) \subseteq listed /\ seg \in listed /\ listed \subseteq Added(rows)
  BY <1>1, <1>2 DEF Listed
<1>5. Fine(listed)
  BY <1>1, <1>4 DEF Fine
<1>6. RowsOf(listed) \subseteq RowsOf(cs)
  BY <1>5, CompactedFine, ClockType
<1>7. cs \subseteq files'
  BY <1>3, <1>4 DEF Compacted
<1>8. cs \subseteq Listed(files', names')
  BY <1>3, <1>7 DEF Listed, NamesOf
<1>9. KnownRows \cup rows \subseteq RowsOf(listed)
  BY <1>1, <1>4 DEF KnownRows, RowsOf
<1>10. RowsOf(cs) \subseteq RowsOf(Listed(files', names'))
  BY <1>8 DEF RowsOf
<1> QED BY <1>6, <1>9, <1>10

\* and covers no more than these.
LEMMA StoreKnown ==
  ASSUME TypeInv, SpacedBars, WholeFiles, CoverageHeld,
         NEW rows \in SUBSET Bars, rows # {}, \A b \in rows : b <= clock, Solid(rows),
         NEW ticks, \A b \in Bars : b \in ticks => b \in rows,
         StoreRange(ticks, rows), torn' = torn, lost' = lost
  PROVE  KnownRows \cup rows \subseteq KnownRows' /\ CoverageHeld'
<1>1. KnownRows \cup rows \subseteq RowsOf(Listed(files', names'))
  BY StoreListed
<1>2. indexed' = TRUE /\ coverage' = KnownCoverage \cup ticks
  BY DEF StoreRange
<1>3. KnownRows' = RowsOf(Listed(files', names'))
  BY <1>2 DEF KnownRows, KnownNames, Listed, NamesOf, RowsOf
<1>4. ASSUME ~torn' PROVE Bars \cap coverage' \subseteq RowsOf(Listed(files', names')) \cup lost'
  <2>1. Bars \cap KnownCoverage \subseteq KnownRows \cup lost
    BY <1>4, KnownCoverageHeld
  <2> QED BY <1>1, <1>2, <2>1
<1>5. CoverageHeld'
  BY <1>4 DEF CoverageHeld, Listed, RowsOf
<1> QED BY <1>1, <1>3, <1>5

\* Before the first group is done nothing is removed.
LEMMA NothingDone ==
  ASSUME NEW fs, NEW listed, NEW grp, Done(listed, grp) = {}
  PROVE  Compacted(fs, Done(listed, grp)) = fs
<1>1. Groups({}) = {}
  BY DEF Groups
<1> QED BY <1>1 DEF Compacted, NamesOf

\* A process that dies before it removed a file leaves all files there,
LEMMA DieUntorn ==
  ASSUME TypeInv, SpacedBars, WholeFiles,
         NEW rows \in SUBSET Bars, rows # {}, \A b \in rows : b <= clock, Solid(rows),
         DiesInStore(rows), ~torn'
  PROVE  files \subseteq files'
<1>1. Added(rows) = files \cup {Segment(rows, Period, clock)} /\ Fine(Added(rows))
  BY AddedFine
<1>2. AddedListed(rows) \in SUBSET Added(rows)
  BY AddedOK
<1>3. CASE files' = Added(rows)
  BY <1>1, <1>3
<1>4. ASSUME NEW grp \in Groups(AddedListed(rows)),
             files' = CompactedUpTo(Added(rows), AddedListed(rows), grp, {}),
             Done(AddedListed(rows), grp) = {}
      PROVE  files \subseteq files'
  <2>1. files' = Put(Added(rows), Merged(grp))
    BY <1>4, NothingDone DEF CompactedUpTo
  <2>2. FileOK(Merged(grp)) /\ Whole(Merged(grp))
    <3>1. Fine(AddedListed(rows))
      BY <1>1, <1>2 DEF Fine
    <3> QED BY <3>1, MergedWhole, ClockType
  <2> HIDE DEF Merged
  <2>3. files' = Added(rows) \cup {Merged(grp)}
    BY <1>1, <2>1, <2>2, PutFine
  <2> QED BY <1>1, <2>3
<1>5. \/ files' = Added(rows)
      \/ \E grp \in Groups(AddedListed(rows)) :
           /\ files' = CompactedUpTo(Added(rows), AddedListed(rows), grp, {})
           /\ Done(AddedListed(rows), grp) = {}
  BY DEF DiesInStore
<1> QED BY <1>3, <1>4, <1>5

\* and what is known, is known still.
LEMMA DieKnown ==
  ASSUME TypeInv, SpacedBars, WholeFiles, CoverageHeld,
         NEW rows \in SUBSET Bars, rows # {}, \A b \in rows : b <= clock, Solid(rows),
         DiesInStore(rows), torn => torn', lost' = lost
  PROVE  (~torn' => KnownRows \subseteq KnownRows') /\ CoverageHeld'
<1>1. SUFFICES ASSUME ~torn'
               PROVE  /\ KnownRows \subseteq KnownRows'
                      /\ Bars \cap coverage' \subseteq RowsOf(Listed(files', names')) \cup lost'
  BY DEF CoverageHeld, Listed, RowsOf
<1>2. files \subseteq files' /\ ~torn
  BY <1>1, DieUntorn
<1>3. /\ indexed' = TRUE /\ indexed \in BOOLEAN
      /\ \/ indexed /\ names' = names /\ coverage' = coverage
         \/ names' = KnownNames /\ coverage' = KnownCoverage
  BY DEF DiesInStore, TypeInv, DiskOK
<1>4. KnownRows' = RowsOf(Listed(files', names'))
  BY <1>3 DEF KnownRows, KnownNames, Listed, NamesOf, RowsOf
<1>5. CASE indexed /\ names' = names /\ coverage' = coverage
  <2>1. KnownRows = RowsOf(Listed(files, names))
    BY <1>5, KnownRowsOf
  <2>2. RowsOf(Listed(files, names)) \subseteq RowsOf(Listed(files', names'))
    BY <1>2, <1>5 DEF RowsOf, Listed
  <2>3. Bars \cap coverage \subseteq RowsOf(Listed(files, names)) \cup lost
    BY <1>2, <1>5 DEF CoverageHeld
  <2> QED BY <1>4, <1>5, <2>1, <2>2, <2>3
<1>6. CASE names' = KnownNames /\ coverage' = KnownCoverage
  <2>1. KnownRows \subseteq RowsOf(Listed(files', names'))
    BY <1>2, <1>6 DEF KnownRows, RowsOf, Listed
  <2>2. Bars \cap KnownCoverage \subseteq KnownRows \cup lost
    BY <1>2, KnownCoverageHeld
  <2> QED BY <1>4, <1>6, <2>1, <2>2
<1> QED BY <1>3, <1>5, <1>6

\* A damaged segment takes its own rows only.
LEMMA DamageKnown ==
  ASSUME TypeInv, CoverageHeld, DamageSegment
  PROVE  KnownRows \subseteq KnownRows' \cup lost' /\ CoverageHeld'
<1>1. PICK f \in files : files' = files \ {f} /\ lost' = lost \cup f.rows
  BY DEF DamageSegment
<1>2. indexed' = indexed /\ names' = names /\ coverage' = coverage /\ torn' = torn
      /\ indexed \in BOOLEAN
  BY DEF DamageSegment, TypeInv, DiskOK
<1>3. KnownRows = IF indexed THEN RowsOf(Listed(files, names)) ELSE RowsOf(files)
  BY <1>2, KnownRowsOf
<1>4. KnownRows' = IF indexed THEN RowsOf(Listed(files', names)) ELSE RowsOf(files')
  <2>1. CASE indexed
    BY <1>2, <2>1 DEF KnownRows, KnownNames, Listed, NamesOf, RowsOf
  <2>2. CASE ~indexed
    BY <1>2, <2>2 DEF KnownRows, KnownNames, Listed, NamesOf, RowsOf
  <2> QED BY <2>1, <2>2
<1>5. /\ RowsOf(Listed(files, names)) \subseteq RowsOf(Listed(files', names)) \cup f.rows
      /\ RowsOf(files) \subseteq RowsOf(files') \cup f.rows
  BY <1>1 DEF RowsOf, Listed
<1>6. KnownRows \subseteq KnownRows' \cup lost'
  BY <1>1, <1>3, <1>4, <1>5
<1>7. ASSUME ~torn', indexed'
      PROVE  Bars \cap coverage' \subseteq RowsOf(Listed(files', names')) \cup lost'
  <2>1. Bars \cap coverage \subseteq RowsOf(Listed(files, names)) \cup lost
    BY <1>2, <1>7 DEF CoverageHeld
  <2> QED BY <1>1, <1>2, <1>5, <2>1
<1>8. CoverageHeld'
  BY <1>7 DEF CoverageHeld, Listed, RowsOf
<1> QED BY <1>6, <1>8

\* An index that is lost takes nothing.
LEMMA IndexLost ==
  ASSUME TypeInv, LoseIndex
  PROVE  KnownRows \subseteq KnownRows' /\ CoverageHeld'
<1>1. indexed' = FALSE /\ files' = files /\ indexed \in BOOLEAN
  BY DEF LoseIndex, TypeInv, DiskOK
<1>2. KnownRows \subseteq RowsOf(files)
  BY DEF KnownRows, RowsOf, Listed
<1>3. KnownRows' = RowsOf(files')
  BY <1>1 DEF KnownRows, KnownNames, Listed, NamesOf, RowsOf
<1> QED BY <1>1, <1>2, <1>3 DEF CoverageHeld

\* A client stores its page.
LEMMA StoreStepKnown ==
  ASSUME TypeInv, StoreInv, SpacedBars, NEW c \in Clients, Store(c)
  PROVE  KnownRows \cup client[c].page \subseteq KnownRows' /\ CoverageHeld'
<1> DEFINE rows == client[c].page
<1>1. /\ client[c].at = "store" /\ torn' = torn /\ lost' = lost
      /\ StoreRange(PageCoverage(client[c]), rows)
  BY DEF Store
<1>2. \A b \in Bars : b \in PageCoverage(client[c]) => b \in rows
  BY <1>1 DEF StoreInv, PagesWhole, PageWhole
<1>3. rows \in SUBSET Bars /\ rows # {} /\ Solid(rows) /\ \A b \in rows : b <= clock
  BY <1>1, PageSolid DEF StoreInv
<1> HIDE DEF rows
<1>4. KnownRows \cup rows \subseteq KnownRows' /\ CoverageHeld'
  BY <1>1, <1>2, <1>3, StoreKnown DEF StoreInv
<1> QED BY <1>4 DEF rows

\* What a step does to the rows that are known.
LEMMA KnownStep ==
  ASSUME TypeInv, StoreInv, SpacedBars, [Next]_vars
  PROVE  /\ ~torn' => KnownRows \subseteq KnownRows' \cup lost'
         /\ CoverageHeld'
         /\ lost \subseteq lost' /\ (torn => torn')
<1>1. lost \subseteq lost' /\ (torn => torn')
  <2>1. lost \subseteq lost'
    BY DEF Next, AskRange, AskLatest, LookCovered, Fetch, FetchFails, Load, Tick, LoseIndex,
           DamageSegment, Store, Die, vars
  <2>2. ASSUME NEW c \in Clients, Die(c) PROVE torn => torn'
    BY <2>2 DEF Die, DiesInStore
  <2>3. (\E c \in Clients : Die(c)) \/ torn' = torn
    BY DEF Next, AskRange, AskLatest, LookCovered, Fetch, FetchFails, Load, Tick, LoseIndex,
           DamageSegment, Store, vars
  <2> QED BY <2>1, <2>2, <2>3
<1>2. CASE \E c \in Clients : Store(c)
  BY <1>1, <1>2, StoreStepKnown
<1>3. CASE \E c \in Clients : Die(c)
  <2>1. PICK c \in Clients : Die(c)
    BY <1>3
  <2>2. client[c].at = "store" /\ DiesInStore(client[c].page) /\ lost' = lost
    BY <2>1 DEF Die
  <2> QED BY <1>1, <2>2, PageSolid, DieKnown DEF StoreInv
<1>4. CASE DamageSegment
  BY <1>1, <1>4, DamageKnown DEF StoreInv
<1>5. CASE LoseIndex
  BY <1>1, <1>5, IndexLost
<1>6. CASE Loaded /\ torn' = torn /\ lost' = lost
  BY <1>1, <1>6, LoadedKeeps DEF StoreInv
<1>7. CASE UNCHANGED disk /\ torn' = torn /\ lost' = lost
  BY <1>1, <1>7 DEF disk, StoreInv, CoverageHeld, KnownRows, KnownNames, Listed, NamesOf, RowsOf
<1>8. \/ \E c \in Clients : Store(c) \/ Die(c)
      \/ DamageSegment \/ LoseIndex
      \/ Loaded /\ torn' = torn /\ lost' = lost
      \/ UNCHANGED disk /\ torn' = torn /\ lost' = lost
  BY DEF Next, AskRange, AskLatest, LookCovered, Fetch, FetchFails, Load, Tick, disk, vars
<1> QED BY <1>2, <1>3, <1>4, <1>5, <1>6, <1>7, <1>8

\* What a range query has not to ask for stays known, whatever other clients do.
LEMMA RangesHeldStep ==
  ASSUME TypeInv, StoreInv, RangesHeld, SpacedBars, [Next]_vars
  PROVE  RangesHeld'
<1>1. SUFFICES ASSUME NEW d \in Clients, ~torn', Ranged(client'[d]),
                      NEW b \in Bars \ lost',
                      b \in (client'[d].lo .. client'[d].hi) \ client'[d].todo,
                      b <= client'[d].asked
               PROVE  b \in KnownRows'
  BY DEF RangesHeld, RangeOf, Ranged
<1>2. KnownRows \subseteq KnownRows' \cup lost' /\ CoverageHeld' /\ lost \subseteq lost' /\ ~torn
  BY <1>1, KnownStep
<1>3. client \in [Clients -> QueryTypes]
  BY DEF TypeInv
<1>4. CASE client'[d] = client[d]
  BY <1>1, <1>2, <1>4 DEF RangesHeld, RangeOf
<1>5. CASE client'[d] # client[d]
  <2>1. ASSUME NEW c \in Clients, NEW query, Set(c, query)
        PROVE  c = d /\ client'[d] = query
    BY <1>3, <1>5, <2>1 DEF Set
  <2>2. ~Ranged(Idle)
    BY DEF Ranged, Idle
  <2>3. ASSUME NEW c \in Clients, Set(c, Idle) PROVE FALSE
    BY <1>1, <2>1, <2>2, <2>3
  <2>4. ASSUME NEW c \in Clients, NEW r \in Queries, AskRange(c, r[1], r[2])
        PROVE  b \in KnownRows'
    <3> DEFINE query == [Idle EXCEPT !.at = IF Missing(r[1], r[2]) = {} THEN "load" ELSE "fetch",
                                     !.lo = r[1], !.hi = r[2], !.asked = clock,
                                     !.todo = Missing(r[1], r[2])]
    <3>1. Set(c, query)
      BY <2>4 DEF AskRange
    <3>2. query.lo = r[1] /\ query.hi = r[2] /\ query.todo = Missing(r[1], r[2])
      BY DEF Idle
    <3> HIDE DEF query
    <3>3. b \in KnownCoverage
      BY <1>1, <2>1, <3>1, <3>2 DEF Missing, Effective
    <3> QED BY <1>1, <1>2, <3>3, KnownCoverageHeld DEF StoreInv
  <2>5. ASSUME NEW c \in Clients, NEW r \in Queries, AskLatest(c, r[1], r[2])
        PROVE  FALSE
    <3> DEFINE held == Held(r[1], r[2])
               read == {u \in held : Cardinality({v \in held : v >= u}) <= Limit}
               l == [Idle EXCEPT !.at = "covered", !.limited = TRUE, !.lo = r[1],
                                 !.hi = r[2], !.asked = clock, !.read = read]
    <3>1. Set(c, l)
      BY <2>5 DEF AskLatest
    <3>2. l.limited
      BY DEF Idle
    <3> HIDE DEF l
    <3> QED BY <1>1, <2>1, <3>1, <3>2 DEF Ranged
  <2>6. ASSUME NEW c \in Clients, LookCovered(c) PROVE FALSE
    <3> DEFINE a == [client[c] EXCEPT !.at = "fetch", !.todo = client[c].lo .. client[c].hi]
    <3>1. Set(c, Idle) \/ Set(c, a)
      BY <2>6 DEF LookCovered
    <3>2. a.limited
      <4>1. client[c].limited
        BY <2>6, ClientOK DEF LookCovered, QueryOK
      <4> QED BY <1>3, <4>1 DEF QueryTypes
    <3> HIDE DEF a
    <3> QED BY <1>1, <2>1, <2>3, <3>1, <3>2 DEF Ranged
  <2>7. ASSUME NEW c \in Clients, Fetch(c) PROVE b \in KnownRows'
    <3> DEFINE q == client[c]
               first == Rest(q.todo, Min(q.todo))
               rest == IF q.limited THEN {} ELSE q.todo \ first
               s == [q EXCEPT !.at = "store", !.page = Served(q)]
               t == [q EXCEPT !.todo = rest]
               l == [q EXCEPT !.at = "load", !.todo = {}]
    <3>1. QueryOK(q) /\ q \in QueryTypes /\ q.at = "fetch"
      BY <2>7, ClientOK DEF Fetch
    <3>2. \/ Set(c, Idle)
          \/ Set(c, s)
          \/ Set(c, t) /\ Served(q) = {}
          \/ Set(c, l) /\ Served(q) = {} /\ rest = {} /\ ~q.limited
      BY <2>7 DEF Fetch
    <3>3. /\ s.todo = q.todo /\ t.todo = rest /\ l.todo = {}
          /\ \A x \in {s, t, l} : /\ x.limited = q.limited /\ x.lo = q.lo /\ x.hi = q.hi
                                  /\ x.asked = q.asked
      BY <3>1 DEF QueryTypes
    <3>4. q.at # "idle" /\ q.asked \in Nat /\ q.asked <= clock
      BY <3>1 DEF QueryOK, QueryTypes
    <3> HIDE DEF s, t, l
    <3>5. PICK x \in {s, t, l} : Set(c, x) /\ x = client'[d] /\ c = d /\ b \notin x.todo
      BY <1>1, <2>1, <2>3, <3>2
    <3>6. ~q.limited /\ Ranged(q)
      BY <1>1, <3>1, <3>3, <3>5 DEF Ranged
    <3>7. b \in q.lo .. q.hi /\ b <= q.asked /\ b \in Nat
      BY <1>1, <3>3, <3>5
    <3>8. CASE b \notin q.todo
      <4>1. b \in KnownRows
        BY <1>1, <1>2, <3>6, <3>7, <3>8 DEF RangesHeld, RangeOf
      <4> QED BY <1>1, <1>2, <4>1
    <3>9. CASE b \in q.todo
      <4>1. Served(q) = {} /\ b \in first
        <5>1. CASE Set(c, s)
          <6>1. s = client'[d]
            BY <2>1, <5>1
          <6> QED BY <1>1, <3>3, <3>9, <6>1
        <5>2. CASE Set(c, t) /\ Served(q) = {}
          <6>1. t = client'[d]
            BY <2>1, <5>2
          <6> QED BY <1>1, <3>3, <3>6, <3>9, <5>2, <6>1
        <5>3. CASE Set(c, l) /\ Served(q) = {} /\ rest = {} /\ ~q.limited
          BY <3>9, <5>3
        <5> QED BY <2>3, <3>2, <5>1, <5>2, <5>3
      <4>2. Answers(q) = {}
        BY <3>6, <4>1, ServedEmpty, ClockType
      <4>3. b <= clock
        BY <3>4, <3>7, ClockType
      <4>4. b \in Answers(q)
        BY <3>6, <4>1, <4>3 DEF Answers
      <4> QED BY <4>2, <4>4
    <3> QED BY <3>8, <3>9
  <2>8. ASSUME NEW c \in Clients, Store(c) PROVE b \in KnownRows'
    <3> DEFINE q == client[c]
               rest == q.todo \ PageCoverage(q)
               n == [q EXCEPT !.at = IF rest = {} THEN "load" ELSE "fetch",
                              !.todo = rest, !.page = {}]
    <3>1. QueryOK(q) /\ q \in QueryTypes /\ q.at = "store"
      BY <2>8, ClientOK DEF Store
    <3>2. Set(c, Idle) \/ Set(c, n)
      BY <2>8 DEF Store
    <3>3. /\ n.todo = rest /\ n.limited = q.limited /\ n.lo = q.lo /\ n.hi = q.hi
          /\ n.asked = q.asked
      BY <3>1 DEF QueryTypes
    <3> HIDE DEF n
    <3>4. n = client'[d] /\ c = d
      BY <2>1, <2>3, <3>2
    <3>5. Ranged(q) /\ b \in q.lo .. q.hi /\ b <= q.asked /\ b \notin rest
      BY <1>1, <3>1, <3>3, <3>4 DEF Ranged
    <3>6. CASE b \notin q.todo
      <4>1. b \in KnownRows
        BY <1>1, <1>2, <3>4, <3>5, <3>6 DEF RangesHeld, RangeOf
      <4> QED BY <1>1, <1>2, <4>1
    <3>7. CASE b \in q.todo
      <4>1. b \in PageCoverage(q)
        BY <3>5, <3>7
      <4>2. b \in q.page
        BY <3>1, <4>1 DEF StoreInv, PagesWhole, PageWhole
      <4> QED BY <2>8, <4>2, StoreStepKnown
    <3> QED BY <3>6, <3>7
  <2>9. ASSUME NEW c \in Clients, FetchFails(c) \/ Die(c) \/ Load(c) PROVE FALSE
    BY <2>3, <2>9 DEF FetchFails, Die, Load
  <2>10. CASE Tick \/ LoseIndex \/ DamageSegment \/ UNCHANGED vars
    BY <1>5, <2>10 DEF Tick, LoseIndex, DamageSegment, vars
  <2> QED BY <2>4, <2>5, <2>6, <2>7, <2>8, <2>9, <2>10 DEF Next
<1> QED BY <1>4, <1>5

\* The inductive invariant.
LEMMA AnswersHeld ==
  ASSUME SpacedBars, Ahead = 0
  PROVE  Spec => [](TypeInv /\ StoreInv /\ RangesHeld)
<1> DEFINE I == TypeInv /\ StoreInv /\ RangesHeld
<1>1. Init => I
  <2> SUFFICES ASSUME Init PROVE I
    OBVIOUS
  <2>1. TypeInv
    BY TypeInvInit
  <2>2. WholeFiles /\ SolidPages
    BY IdleSolid DEF Init, WholeFiles, SolidPages
  <2>3. \A c \in Clients : client[c] = Idle
    BY DEF Init
  <2>4. PagesWhole /\ RangesHeld
    BY <2>3 DEF Idle, PagesWhole, RangesHeld, Ranged
  <2>5. CoverageHeld
    BY DEF Init, CoverageHeld
  <2> QED BY <2>1, <2>2, <2>4, <2>5 DEF StoreInv
<1>2. I /\ [Next]_vars => I'
  <2> SUFFICES ASSUME TypeInv, StoreInv, RangesHeld, [Next]_vars PROVE I'
    OBVIOUS
  <2>1. TypeInv' /\ SolidPages' /\ PagesWhole'
    BY TypeInvNext, PagesStep, PagesWholeStep DEF StoreInv
  <2>2. WholeFiles'
    BY FilesStep DEF StoreInv, WholeFiles, Whole
  <2>3. CoverageHeld'
    BY KnownStep
  <2>4. RangesHeld'
    BY RangesHeldStep
  <2> QED BY <2>1, <2>2, <2>3, <2>4 DEF StoreInv
<1> QED BY <1>1, <1>2, PTL DEF Spec

\* What counts as covered is held, but for rows lost to damage, as long as no process
\* died in the removal of compacted files: pages of several clients interleave, files
\* are compacted, the index is lost and rebuilt, processes die.  No query reaches
\* beyond the clock; MCSegmentCache_latest shows what happens when one does.
THEOREM CoverageIsHeld ==
  ASSUME SpacedBars, Ahead = 0
  PROVE  Spec => []CoveredIsHeld
<1>1. TypeInv /\ StoreInv => CoveredIsHeld
  <2> SUFFICES ASSUME TypeInv, StoreInv, ~torn PROVE VerifiedCoverage
    BY DEF CoveredIsHeld
  <2>1. Bars \cap KnownCoverage \subseteq KnownRows \cup lost
    BY KnownCoverageHeld DEF StoreInv
  <2> QED BY <2>1 DEF VerifiedCoverage, Effective, KnownRows
<1> QED BY <1>1, AnswersHeld, PTL

\* The answer of an unlimited session has every bar of its range that was there when it
\* was asked for, whatever other clients did to the cache in the meantime.
THEOREM RangesAreComplete ==
  ASSUME SpacedBars, Ahead = 0
  PROVE  Spec => []RangeIsComplete
<1>1. TypeInv /\ RangesHeld => RangeIsComplete
  <2> SUFFICES ASSUME TypeInv, RangesHeld, NEW c \in Clients, ~torn, client[c].at = "load",
                      NEW b \in Bars \ lost, b \in client[c].lo .. client[c].hi,
                      b <= client[c].asked
               PROVE  b \in Held(b, b)
    BY DEF RangeIsComplete
  <2>1. ~client[c].limited /\ client[c].todo = {}
    BY ClientOK DEF QueryOK
  <2>2. b \in KnownRows
    BY <2>1 DEF RangesHeld, RangeOf, Ranged
  <2>3. b \in b .. b
    OBVIOUS
  <2> QED BY <2>2, <2>3 DEF Held, KnownRows
<1> QED BY <1>1, AnswersHeld, PTL

-----------------------------------------------------------------------------
(***************************************************************************)
(* Bars that still form.                                                   *)
(***************************************************************************)

\* What a rebuilt index covers was reached as well.
LEMMA KnownReached ==
  ASSUME TypeInv, CoverageReached
  PROVE  \A t \in KnownCoverage : Reached(t)
<1>1. ASSUME NEW f \in files, NEW t \in f.first .. f.past - 1
      PROVE  Reached(t)
  <2>1. FileOK(f) /\ f \in Files
    BY DEF TypeInv, DiskOK, FileOK
  <2>2. f.first \in Nat /\ f.past \in Nat
    BY <2>1, FileFields
  <2>3. PICK b \in f.rows : f.past <= b + Period
    BY <2>1 DEF FileOK
  <2>4. b \in Bars /\ b \in Nat /\ b <= clock
    BY <2>1, <2>3, FileFields DEF FileOK
  <2>5. t < b + Period
    BY <1>1, <2>2, <2>3, <2>4, BoundType
  <2> QED BY <2>4, <2>5 DEF Reached
<1> QED BY <1>1 DEF KnownCoverage, CoverageReached

\* Coverage does not run ahead of time.
LEMMA ReachedStep ==
  ASSUME TypeInv, CoverageReached, Ahead = 0, [Next]_vars
  PROVE  CoverageReached'
<1>1. clock' \in Nat /\ clock' >= clock
  <2>1. clock' = clock \/ clock' = clock + 1
    BY DEF Next, AskRange, AskLatest, LookCovered, Fetch, FetchFails, Load, Tick, LoseIndex,
           DamageSegment, Store, Die, vars
  <2> QED BY <2>1, ClockType
<1>2. ASSUME NEW t \in Ticks, Reached(t) PROVE Reached(t)'
  <2>1. CASE t <= clock
    BY <1>1, <2>1, ClockType, BoundType DEF Reached
  <2>2. CASE \E b \in Bars : b <= clock /\ t < b + Period
    <3>1. PICK b \in Bars : b <= clock /\ t < b + Period
      BY <2>2
    <3>2. b \in Nat /\ b <= clock'
      BY <1>1, <3>1, ClockType
    <3> QED BY <3>1, <3>2 DEF Reached
  <2> QED BY <1>2, <2>1, <2>2 DEF Reached
<1>3. ASSUME NEW c \in Clients, client[c].at = "store", NEW t \in PageCoverage(client[c])
      PROVE  t \in Ticks /\ Reached(t)
  <2> DEFINE q == client[c]
  <2>1. QueryOK(q) /\ q \in QueryTypes
    BY ClientOK
  <2>2. /\ q.todo # {} /\ q.lo \in Nat /\ q.hi \in Nat /\ q.asked \in Nat
        /\ q.lo >= 1 /\ q.hi <= q.asked /\ q.asked <= clock
    BY <1>3, <2>1 DEF QueryOK, QueryTypes
  <2>3. PageCoverage(q) \subseteq q.todo /\ q.todo \subseteq q.lo .. q.hi
    BY <1>3, <2>1, CoverageOf DEF QueryOK
  <2> HIDE DEF q
  <2>4. t \in Nat /\ t <= clock
    <3>1. t \in q.lo .. q.hi
      BY <1>3, <2>3 DEF q
    <3> QED BY <2>2, <3>1, ClockType
  <2>5. t \in Ticks
    BY <1>3, <2>1, <2>3 DEF QueryTypes, q
  <2> QED BY <2>4, <2>5 DEF Reached
<1>4. KnownCoverage \subseteq Ticks /\ coverage \subseteq Ticks
  BY KnownOK DEF TypeInv, DiskOK
<1>5. \A t \in KnownCoverage \cup coverage : Reached(t)'
  BY <1>2, <1>4, KnownReached DEF CoverageReached
<1>6. \/ coverage' \subseteq KnownCoverage \cup coverage
      \/ \E c \in Clients : /\ client[c].at = "store"
                            /\ coverage' = KnownCoverage \cup PageCoverage(client[c])
  <2>1. CASE \E c \in Clients : Store(c)
    BY <2>1 DEF Store, StoreRange
  <2>2. CASE \E c \in Clients : Die(c)
    BY <2>2 DEF Die, DiesInStore
  <2>3. CASE Loaded
    BY <2>3 DEF Loaded, disk
  <2>4. CASE LoseIndex
    BY <2>4 DEF LoseIndex
  <2>5. CASE coverage' = coverage
    BY <2>5
  <2>6. \/ \E c \in Clients : Store(c) \/ Die(c)
        \/ Loaded \/ LoseIndex \/ coverage' = coverage
    BY DEF Next, AskRange, AskLatest, LookCovered, Fetch, FetchFails, Load, Tick,
           DamageSegment, disk, vars
  <2> QED BY <2>1, <2>2, <2>3, <2>4, <2>5, <2>6
<1>7. \A t \in coverage' : Reached(t)'
  BY <1>2, <1>3, <1>5, <1>6
<1> QED BY <1>7 DEF CoverageReached, Reached

\* So it is in every state.
LEMMA CoverageIsReached ==
  ASSUME Ahead = 0
  PROVE  Spec => [](TypeInv /\ CoverageReached)
<1>1. Init => CoverageReached
  BY DEF Init, CoverageReached
<1>2. TypeInv /\ CoverageReached /\ [Next]_vars => CoverageReached'
  BY ReachedStep
<1> QED BY <1>1, <1>2, TypeInvInit, TypeInvNext, PTL DEF Spec

\* A bar that still forms is never answered from the cache alone: the range it is in
\* ends a period after it at the latest, and _effective_coverages takes one period off
\* a range that ends near now.  tail_refresh_bars is 1 wherever the cache is made; with
\* 0 there are no bars to ask again.
THEOREM FormingBarsAreAsked ==
  ASSUME SpacedBars, Ahead = 0, TailRefresh \in {0, 1}
  PROVE  Spec => []FormingIsAsked
<1>1. TypeInv /\ CoverageReached => FormingIsAsked
  <2> SUFFICES ASSUME TypeInv, CoverageReached,
                      NEW b \in Bars, b <= clock, clock < b + Period * TailRefresh,
                      b \in Effective(KnownCoverage)
               PROVE  FALSE
    BY DEF FormingIsAsked
  <2> DEFINE known == KnownCoverage past == Past(known, b)
  <2>1. b \in Nat /\ clock \in Nat /\ Period \in Nat
    BY ClockType
  <2>2. TailRefresh = 1 /\ clock < b + Period
    BY <2>1
  <2>3. b \in known /\ (past >= clock - Period => b < past - Period)
    BY <2>1, <2>2 DEF Effective
  <2>4. known \in SUBSET Nat /\ \A t \in known : t <= Bound
    BY KnownOK, BoundType DEF TypeInv, Ticks, Bound
  <2>5. \A t \in known : Reached(t)
    BY KnownReached
  <2> HIDE DEF known
  <2>6. past \in Nat /\ b < past /\ past - 1 \in known
    BY <2>3, <2>4, BoundType, PastOf
  <2>7. Reached(past - 1)
    BY <2>5, <2>6
  <2> HIDE DEF past
  <2>8. past <= b + Period
    <3>1. CASE past - 1 <= clock
      BY <2>1, <2>2, <2>6, <3>1
    <3>2. CASE \E m \in Bars : m <= clock /\ past - 1 < m + Period
      <4>1. PICK m \in Bars : m <= clock /\ past - 1 < m + Period
        BY <3>2
      <4>2. m \in Nat
        OBVIOUS
      <4>3. b < m => b + Period <= m
        BY DEF SpacedBars
      <4>4. m <= b
        BY <2>1, <2>2, <4>1, <4>2, <4>3
      <4> QED BY <2>1, <2>6, <4>1, <4>2, <4>4
    <3> QED BY <2>7, <3>1, <3>2 DEF Reached
  <2>9. past >= clock - Period
    BY <2>1, <2>2, <2>6
  <2> QED BY <2>1, <2>3, <2>6, <2>8, <2>9
<1> QED BY <1>1, CoverageIsReached, PTL

-----------------------------------------------------------------------------
(***************************************************************************)
(* The newest rows from the cache.                                         *)
(***************************************************************************)

\* Nothing is lost without faults.
LEMMA LostStep ==
  ASSUME TypeInv, NothingLost, Undisturbed, [Next]_vars
  PROVE  NothingLost' /\ (Loaded \/ UNCHANGED disk \/ \E c \in Clients : Store(c))
<1>1. faults = 0 /\ ~(faults < MaxFaults)
  BY DEF NothingLost, Undisturbed
<1>2. ~LoseIndex /\ ~DamageSegment /\ \A c \in Clients : ~Die(c)
  BY <1>1 DEF LoseIndex, DamageSegment, Die
<1>3. UNCHANGED <<faults, torn, lost>>
  BY <1>2 DEF Next, AskRange, AskLatest, LookCovered, Fetch, FetchFails, Load, Tick, Store, vars
<1>4. Loaded \/ UNCHANGED disk \/ \E c \in Clients : Store(c)
  BY <1>2 DEF Next, AskRange, AskLatest, LookCovered, Fetch, FetchFails, Load, Tick, disk, vars
<1> QED BY <1>3, <1>4 DEF NothingLost

\* A reader finds what the one before it found.
LEMMA SameRows ==
  ASSUME TypeInv, StoreInv, NothingLost, NothingLost', Loaded \/ UNCHANGED disk
  PROVE  KnownRows' = KnownRows
<1>1. torn' = torn /\ lost' = lost
  BY DEF NothingLost
<1>2. CASE Loaded
  BY <1>1, <1>2, LoadedKeeps DEF StoreInv
<1>3. CASE UNCHANGED disk
  BY <1>3 DEF disk, KnownRows, KnownNames, Listed, NamesOf, RowsOf
<1> QED BY <1>2, <1>3

\* What one client read stays current until it looks what is covered.
LEMMA ReadStep ==
  ASSUME TypeInv, StoreInv, NothingLost, ReadIsCurrent, Undisturbed, [Next]_vars
  PROVE  ReadIsCurrent'
<1>1. NothingLost' /\ (Loaded \/ UNCHANGED disk \/ \E c \in Clients : Store(c))
  BY LostStep
<1>2. SUFFICES ASSUME NEW d \in Clients, client'[d].at = "covered"
               PROVE  client'[d].read = NewestRows(Held(client[d].lo, client[d].hi)', Limit)
  BY DEF ReadIsCurrent, NewestRows, Held, KnownNames, Listed, NamesOf, RowsOf
<1>3. client \in [Clients -> QueryTypes]
  BY DEF TypeInv
<1>4. \A c \in Clients : c = d
  BY DEF Undisturbed
<1>5. ASSUME NEW c \in Clients, NEW query, Set(c, query) PROVE c = d /\ client'[d] = query
  BY <1>3, <1>4, <1>5 DEF Set
<1>6. Idle.at # "covered"
  BY DEF Idle
<1>7. CASE client' = client
  <2>1. \A c \in Clients : ~Store(c)
    <3>1. SUFFICES ASSUME NEW c \in Clients, Store(c) PROVE FALSE
      OBVIOUS
    <3>2. client[d].at = "store"
      BY <1>4, <3>1 DEF Store
    <3> QED BY <1>2, <1>7, <3>2
  <2>2. Held(client[d].lo, client[d].hi)' = Held(client[d].lo, client[d].hi)
    <3> DEFINE lo == client[d].lo hi == client[d].hi
    <3>1. client'[d].lo = lo /\ client'[d].hi = hi
      BY <1>7
    <3>2. KnownRows' = KnownRows
      BY <1>1, <2>1, SameRows
    <3> QED BY <3>1, <3>2 DEF Held, KnownRows
  <2> QED BY <1>2, <1>7, <2>2 DEF ReadIsCurrent
<1>8. ASSUME NEW c \in Clients, NEW r \in Queries, AskLatest(c, r[1], r[2])
      PROVE  client'[d].read = NewestRows(Held(client[d].lo, client[d].hi)', Limit)
  <2> DEFINE lo == r[1] hi == r[2] held == Held(lo, hi)
             read == {b \in held : Cardinality({u \in held : u >= b}) <= Limit}
             l == [Idle EXCEPT !.at = "covered", !.limited = TRUE, !.lo = r[1],
                               !.hi = r[2], !.asked = clock, !.read = read]
  <2>1. Set(c, l) /\ Loaded
    BY <1>8 DEF AskLatest
  <2>2. l.read = read /\ l.lo = lo /\ l.hi = hi
    BY DEF Idle
  <2>3. read = NewestRows(held, Limit)
    BY DEF NewestRows
  <2> HIDE DEF l, read, lo, hi
  <2>4. client'[d].read = read /\ client'[d].lo = lo /\ client'[d].hi = hi
    BY <1>5, <2>1, <2>2
  <2>5. KnownRows' = KnownRows
    BY <1>1, <2>1, SameRows
  <2>6. Held(client[d].lo, client[d].hi)' = held
    BY <2>4, <2>5 DEF Held, KnownRows
  <2> QED BY <2>3, <2>4, <2>6
<1>9. ASSUME NEW c \in Clients, NEW r \in Queries, AskRange(c, r[1], r[2])
      PROVE  FALSE
  <2> DEFINE a == [Idle EXCEPT !.at = IF Missing(r[1], r[2]) = {} THEN "load" ELSE "fetch",
                               !.lo = r[1], !.hi = r[2], !.asked = clock,
                               !.todo = Missing(r[1], r[2])]
  <2>1. Set(c, a)
    BY <1>9 DEF AskRange
  <2>2. a.at # "covered"
    BY DEF Idle
  <2> HIDE DEF a
  <2> QED BY <1>2, <1>5, <2>1, <2>2
<1>10. ASSUME NEW c \in Clients, LookCovered(c) PROVE FALSE
  <2> DEFINE a == [client[c] EXCEPT !.at = "fetch", !.todo = client[c].lo .. client[c].hi]
  <2>1. Set(c, Idle) \/ Set(c, a)
    BY <1>10 DEF LookCovered
  <2>2. a.at = "fetch"
    BY <1>3 DEF QueryTypes
  <2> HIDE DEF a
  <2> QED BY <1>2, <1>5, <1>6, <2>1, <2>2
<1>11. ASSUME NEW c \in Clients, Fetch(c) PROVE FALSE
  <2> DEFINE q == client[c]
             rest == IF q.limited THEN {} ELSE q.todo \ Rest(q.todo, Min(q.todo))
             s == [q EXCEPT !.at = "store", !.page = Served(q)]
             t == [q EXCEPT !.todo = rest]
             l == [q EXCEPT !.at = "load", !.todo = {}]
  <2>1. Set(c, Idle) \/ Set(c, s) \/ Set(c, t) \/ Set(c, l)
    BY <1>11 DEF Fetch
  <2>2. s.at = "store" /\ t.at = "fetch" /\ l.at = "load"
    BY <1>3, <1>11 DEF QueryTypes, Fetch
  <2> HIDE DEF s, t, l
  <2> QED BY <1>2, <1>5, <1>6, <2>1, <2>2
<1>12. ASSUME NEW c \in Clients, Store(c) PROVE FALSE
  <2> DEFINE q == client[c]
             rest == q.todo \ PageCoverage(q)
             n == [q EXCEPT !.at = IF rest = {} THEN "load" ELSE "fetch",
                            !.todo = rest, !.page = {}]
  <2>1. Set(c, Idle) \/ Set(c, n)
    BY <1>12 DEF Store
  <2>2. n.at # "covered"
    BY <1>3 DEF QueryTypes
  <2> HIDE DEF n
  <2> QED BY <1>2, <1>5, <1>6, <2>1, <2>2
<1>13. ASSUME NEW c \in Clients, FetchFails(c) \/ Die(c) \/ Load(c) PROVE FALSE
  BY <1>2, <1>5, <1>6, <1>13 DEF FetchFails, Die, Load
<1>14. CASE Tick \/ LoseIndex \/ DamageSegment \/ UNCHANGED vars
  BY <1>7, <1>14 DEF Tick, LoseIndex, DamageSegment, vars
<1> QED BY <1>8, <1>9, <1>10, <1>11, <1>12, <1>13, <1>14 DEF Next

\* A query that finds nothing missing has read all that it must answer with.
LEMMA LatestStep ==
  ASSUME TypeInv, StoreInv, NothingLost, ReadIsCurrent, [Next]_vars,
         NEW c \in Clients, client[c].at = "covered", client'[c].at = "idle",
         NEW b \in Bars, b \in From(client[c]) .. client[c].hi
  PROVE  b \in client[c].read
<1> DEFINE q == client[c] held == Held(q.lo, q.hi)
<1>1. q \in QueryTypes /\ client \in [Clients -> QueryTypes]
  BY ClientOK DEF TypeInv
<1>2. LookCovered(c)
  <2>1. ASSUME NEW d \in Clients, NEW query, Set(d, query) PROVE d = c
    BY <1>1, <2>1 DEF Set
  <2>2. client' # client
    OBVIOUS
  <2>3. ASSUME NEW d \in Clients,
               \/ \E r \in Queries : AskRange(d, r[1], r[2]) \/ AskLatest(d, r[1], r[2])
               \/ Fetch(d) \/ FetchFails(d) \/ Store(d) \/ Die(d) \/ Load(d)
        PROVE  client[d].at # "covered" /\ \E query : Set(d, query)
    BY <2>3 DEF AskRange, AskLatest, Fetch, FetchFails, Store, Die, Load
  <2>4. ASSUME NEW d \in Clients, LookCovered(d) PROVE \E query : Set(d, query)
    BY <2>4 DEF LookCovered
  <2>5. ~Tick /\ ~LoseIndex /\ ~DamageSegment /\ ~UNCHANGED vars
    BY <2>2 DEF Tick, LoseIndex, DamageSegment, vars
  <2>6. PICK d \in Clients :
          \/ \E r \in Queries : AskRange(d, r[1], r[2]) \/ AskLatest(d, r[1], r[2])
          \/ Fetch(d) \/ FetchFails(d) \/ Store(d) \/ Die(d) \/ Load(d) \/ LookCovered(d)
    BY <2>5 DEF Next
  <2> QED BY <2>1, <2>3, <2>4, <2>6
<1>3. From(q) .. q.hi \subseteq KnownCoverage
  <2>1. Missing(From(q), q.hi) = {}
    <3> DEFINE a == [q EXCEPT !.at = "fetch", !.todo = q.lo .. q.hi]
    <3>1. SUFFICES ASSUME Missing(From(q), q.hi) # {} PROVE FALSE
      OBVIOUS
    <3>2. Set(c, a)
      BY <1>2, <3>1 DEF LookCovered
    <3>3. a.at = "fetch"
      BY <1>1 DEF QueryTypes
    <3> HIDE DEF a
    <3> QED BY <1>1, <3>2, <3>3 DEF Set
  <2> QED BY <2>1 DEF Missing, Effective
<1>4. b \in KnownRows
  BY <1>3, KnownCoverageHeld DEF StoreInv, NothingLost
<1>5. q.read = NewestRows(held, Limit)
  BY DEF ReadIsCurrent
<1>6. held \in SUBSET Bars /\ \A u \in held : u \in q.lo .. q.hi
  BY FileFields DEF Held, Listed, RowsOf, TypeInv, DiskOK, FileOK
<1>7. q.read \subseteq held /\ q.lo \in Nat /\ q.hi \in Nat /\ b \in Nat
      /\ q.read \in SUBSET Nat
  BY <1>1, <1>5, <1>6 DEF NewestRows, QueryTypes
<1>8. q.read # {} => Min(q.read) \in q.read
  BY <1>7, MinOf
<1>9. Cardinality(q.read) = Limit => q.read # {}
  BY FS_EmptySet
<1>10. From(q) \in q.lo .. q.hi \/ From(q) = q.lo
  BY <1>6, <1>7, <1>8, <1>9 DEF From
<1>11. b \in held
  <2>1. b \in q.lo .. q.hi
    BY <1>7, <1>10
  <2> QED BY <1>4, <2>1 DEF Held, KnownRows
<1> HIDE DEF held
<1>12. CASE Cardinality(q.read) = Limit
  <2> DEFINE m == Min(q.read)
  <2>1. m \in q.read /\ m \in Nat /\ m <= b
    BY <1>7, <1>8, <1>9, <1>12 DEF From
  <2> HIDE DEF m
  <2>2. Cardinality({u \in held : u >= m}) <= Limit
    BY <1>5, <2>1 DEF NewestRows
  <2>3. held \in SUBSET Bars /\ b \in Nat
    BY <1>6, <1>7
  <2>4. /\ Cardinality({u \in held : u >= b}) <= Cardinality({u \in held : u >= m})
        /\ Cardinality({u \in held : u >= b}) \in Nat
        /\ Cardinality({u \in held : u >= m}) \in Nat
    BY ONLY <2>3, <2>1, RanksAbove
  <2>5. Cardinality({u \in held : u >= b}) <= Limit
    BY <2>2, <2>4
  <2> QED BY <1>5, <1>11, <2>5 DEF NewestRows
<1>13. CASE Cardinality(q.read) # Limit
  <2>1. \A u \in held : u <= q.hi
    BY <1>6, <1>7
  <2>2. b \notin NewestRows(held, Limit) => Cardinality(NewestRows(held, Limit)) = Limit
    BY <1>6, <1>7, <1>11, <2>1, NewestFull
  <2> QED BY <1>5, <1>13, <2>2
<1> QED BY <1>12, <1>13

\* A limited answer out of the cache has the newest rows, if one client uses the cache,
\* nothing goes wrong and no query reaches beyond the clock.  With a second client it
\* fails: rows are read before coverage (client.py:932 and 937), and a page that is
\* stored in between counts as covered and is not in the answer.
THEOREM LatestRowsAreComplete ==
  ASSUME SpacedBars, Ahead = 0, Undisturbed
  PROVE  Spec => LatestIsComplete
<1> DEFINE I == TypeInv /\ StoreInv /\ NothingLost /\ ReadIsCurrent
<1>1. Init => NothingLost /\ ReadIsCurrent
  <2> SUFFICES ASSUME Init PROVE NothingLost /\ ReadIsCurrent
    OBVIOUS
  <2>1. \A c \in Clients : client[c] = Idle
    BY DEF Init
  <2>2. Idle.at = "idle"
    BY DEF Idle
  <2> QED BY <2>1, <2>2 DEF Init, NothingLost, ReadIsCurrent
<1>2. TypeInv /\ StoreInv /\ NothingLost /\ ReadIsCurrent /\ [Next]_vars
        => (NothingLost /\ ReadIsCurrent)'
  BY LostStep, ReadStep
<1>3. I /\ [Next]_vars =>
        [\A c \in Clients : LET q == client[c] IN
           q.at = "covered" /\ client'[c].at = "idle" =>
             \A b \in Bars : b \in From(q) .. q.hi /\ b <= q.asked => b \in q.read]_vars
  BY LatestStep
<1> QED BY <1>1, <1>2, <1>3, AnswersHeld, PTL DEF Spec, LatestIsComplete

=============================================================================

---------------------------- MODULE SegmentCache ----------------------------
(***************************************************************************)
(* The history cache of one series (symbol, period, adjust) and the        *)
(* queries that answer from it: HistorySegmentCache and the callers of it  *)
(* in RtdataClient.  Clients stand for threads and processes that share    *)
(* the cache directory; an operation of the cache holds the lock of the    *)
(* series, so it is one step unless its process dies in it.                *)
(*                                                                         *)
(* Times are ticks.  A range [first, past) of the code is the set of ticks *)
(* first .. past - 1, and the code merges two ranges exactly when the      *)
(* union of their sets has no hole between them.  A bar is its timestamp.  *)
(***************************************************************************)
EXTENDS Integers, FiniteSets, FiniteSetsExt

CONSTANTS
  Clients,
  Bars,          \* timestamps of the bars the server has, once their time came
  Period,        \* _period_ms
  TailRefresh,   \* tail_refresh_bars
  Page,          \* HISTORY_V1_PAGE_ROWS
  Limit,         \* _history_max_rows of a limited session
  Requests,      \* first and last tick of the queries
  Start,         \* the clock in the beginning
  Horizon,       \* bound: the clock
  MaxQueries,    \* bound: queries
  MaxFaults,     \* bound: processes that die, indexes and segments that are lost
  Ahead          \* how far beyond the clock a query may reach

ASSUME CacheAssumption ==
  /\ Bars \subseteq Nat \ {0} /\ IsFiniteSet(Bars)
  /\ Requests \subseteq (Nat \ {0}) \X Nat
  /\ Period \in Nat \ {0} /\ TailRefresh \in Nat
  /\ Page \in Nat \ {0} /\ Limit \in Nat \ {0}
  /\ Start \in Nat \ {0} /\ Horizon \in Nat /\ Start <= Horizon
  /\ Ahead \in Nat /\ MaxQueries \in Nat /\ MaxFaults \in Nat

VARIABLES
  clock,     \* _now_ms()
  files,     \* segments/*.rtk
  indexed,   \* index.json is there and readable
  names,     \* "segments" of index.json
  coverage,  \* "coverage" of index.json, as ticks
  client,    \* client -> its query
  queries,   \* queries asked
  faults,    \* processes that died, indexes and segments that were lost
  torn,      \* history: a process died while it removed compacted files
  lost       \* history: the rows of segments that were damaged

disk == <<files, indexed, names, coverage>>
vars == <<clock, files, indexed, names, coverage, client, queries, faults, torn, lost>>

Ticks == 1 .. Horizon + Ahead + Period

\* A file carries its name, of which the header repeats all but the time.
Name(seg) == [first |-> seg.first, past |-> seg.past, count |-> seg.count,
              made |-> seg.made]
Names == [first : Ticks, past : Ticks, count : 1 .. Cardinality(Bars), made : 1 .. Horizon]

Points == {"idle", "covered", "fetch", "store", "load"}

Idle == [at |-> "idle", lo |-> 0, hi |-> 0, limited |-> FALSE, asked |-> 0,
         todo |-> {}, read |-> {}, page |-> {}]

TypeOK ==
  /\ clock \in Start .. Horizon
  /\ \A f \in files : Name(f) \in Names /\ f.rows \subseteq Bars
  /\ indexed \in BOOLEAN
  /\ names \subseteq Names
  /\ coverage \subseteq Ticks
  /\ queries \in 0 .. MaxQueries
  /\ faults \in 0 .. MaxFaults
  /\ torn \in BOOLEAN
  /\ lost \subseteq Bars
  /\ \A c \in Clients :
       /\ client[c].at \in Points
       /\ client[c].todo \subseteq Ticks
       /\ client[c].read \cup client[c].page \subseteq Bars
       /\ client[c].at = "fetch" => client[c].todo # {}
       /\ client[c].at = "store" <=> client[c].page # {}

Init ==
  /\ clock = Start
  /\ files = {}
  /\ indexed = FALSE
  /\ names = {}
  /\ coverage = {}
  /\ client = [c \in Clients |-> Idle]
  /\ queries = 0
  /\ faults = 0
  /\ torn = FALSE
  /\ lost = {}

-----------------------------------------------------------------------------
(***************************************************************************)
(* Operators on segments and ranges.                                       *)
(***************************************************************************)

\* The file that holds these rows; the segment ends a given time after its last row.
Segment(rows, tail, made) ==
  [first |-> Min(rows), past |-> Max(rows) + tail, count |-> Cardinality(rows),
   made |-> made, rows |-> rows]

\* os.replace: a file of the same name goes.
Put(fs, seg) == {f \in fs : Name(f) # Name(seg)} \cup {seg}

NamesOf(fs) == {Name(f) : f \in fs}
Listed(fs, ns) == {f \in fs : Name(f) \in ns}
RowsOf(fs) == UNION {f.rows : f \in fs}

\* _filter_valid_segments sorts by start, then age, then name.
Before(f, g) ==
  \/ f.first < g.first
  \/ f.first = g.first /\ f.made < g.made
  \/ f.first = g.first /\ f.made = g.made /\ f.past < g.past
  \/ f.first = g.first /\ f.made = g.made /\ f.past = g.past /\ f.count < g.count

Earlier(fs, f) == {g \in fs : Before(g, f)}

\* The last of some files.
Latest(fs) == CHOOSE f \in fs : \A g \in fs \ {f} : Before(g, f)

\* A segment joins the group of the one before it unless a gap separates the two.
StartsGroup(fs, f) ==
  Earlier(fs, f) # {} => f.first > Latest(Earlier(fs, f)).past

\* The groups of _compact_segments that have more than one member.
Groups(fs) ==
  LET head(f) == Latest({g \in Earlier(fs, f) \cup {f} : StartsGroup(fs, g)})
  IN  {grp \in {{g \in fs : head(g) = head(f)} : f \in fs} : Cardinality(grp) > 1}

\* Bug variant: the compacted rows are those of the newest segment.
MergedNewest(grp) ==
  LET made == Max({f.made : f \in grp})
  IN  Segment((CHOOSE f \in grp : f.made = made).rows, 1, made)

\* The segment a group is compacted to.
Merged(grp) == Segment(RowsOf(grp), 1, Max({f.made : f \in grp}))

\* All groups written, all their old files removed.
Compacted(fs, listed) ==
  LET groups == Groups(listed)
      new    == {Merged(grp) : grp \in groups}
  IN  {f \in fs : Name(f) \notin NamesOf(new) /\ \A grp \in groups : f \notin grp}
        \cup new

\* The files of the groups that are compacted before one.
Done(listed, grp) ==
  UNION {g \in Groups(listed) : Before(Latest(g), Latest(grp)) /\ g # grp}

\* Bug variant: the old files are removed before the new one is written.
CompactedUpToUnwritten(fs, listed, grp, removed) ==
  Compacted(fs, Done(listed, grp)) \ removed

\* The files in the middle of the compaction: a group is written and some of its old
\* files, in order, are removed.
CompactedUpTo(fs, listed, grp, removed) ==
  {f \in Put(Compacted(fs, Done(listed, grp)), Merged(grp)) :
     f \in removed => Name(f) = Name(Merged(grp))}

\* Where the range that a tick is in ends, and its ticks from there on.
Past(ticks, t) == Min({u \in t .. Max(ticks) + 1 : u \notin ticks})
Rest(ticks, t) == t .. Past(ticks, t) - 1

\* Bug variant: a covered range is trusted to its end.
EffectiveToEnd(ticks) == ticks

\* _effective_coverages: the tail of a range that ends near now is not trusted.
Effective(ticks) ==
  {t \in ticks :
     LET past == Past(ticks, t)
     IN  past >= clock - Period * TailRefresh => t < past - Period * TailRefresh}

-----------------------------------------------------------------------------
(***************************************************************************)
(* The index.                                                              *)
(***************************************************************************)

\* _load_index: only files that are there count, and coverage without any segment
\* is dropped.  Without an index it is rebuilt from the files.
KnownNames == IF indexed THEN names \cap NamesOf(files) ELSE NamesOf(files)
KnownCoverage ==
  IF indexed
  THEN IF KnownNames = {} THEN {} ELSE coverage
  ELSE UNION {f.first .. f.past - 1 : f \in files}

\* What a reader leaves on the disk: the index is saved when it was rebuilt or its
\* coverage dropped.
Loaded ==
  IF ~indexed \/ (KnownNames = {} /\ coverage # {})
  THEN /\ indexed' = TRUE
       /\ names' = KnownNames
       /\ coverage' = KnownCoverage
       /\ UNCHANGED files
  ELSE UNCHANGED disk

\* load_range and get_missing_ranges.
Held(lo, hi) == {b \in RowsOf(Listed(files, KnownNames)) : b \in lo .. hi}
Missing(lo, hi) == (lo .. hi) \ Effective(KnownCoverage)

-----------------------------------------------------------------------------
(***************************************************************************)
(* Storing a page.                                                         *)
(***************************************************************************)

\* The files with the page in a segment of its own, and those the index knows then.
Added(rows) == Put(files, Segment(rows, Period, clock))
AddedListed(rows) ==
  Listed(Added(rows), KnownNames \cup {Name(Segment(rows, Period, clock))})

\* store_range.
StoreRange(ticks, rows) ==
  LET listed == AddedListed(rows)
  IN  /\ files' = Compacted(Added(rows), listed)
      /\ names' = NamesOf(Compacted(listed, listed))
      /\ coverage' = KnownCoverage \cup ticks
      /\ indexed' = TRUE

\* The process dies in it: the page, and perhaps a part of the compaction, is on the
\* disk and the index is the one _load_index left there.
DiesInStore(rows) ==
  LET listed == AddedListed(rows)
  IN  /\ \/ /\ files' = Added(rows)
            /\ UNCHANGED torn
         \/ \E grp \in Groups(listed) :
              /\ files' = CompactedUpTo(Added(rows), listed, grp, {})
              /\ torn' = (torn \/ Done(listed, grp) # {})
         \/ /\ \E grp \in Groups(listed) : \E f \in grp :
                 files' = CompactedUpTo(Added(rows), listed, grp,
                                        {g \in grp : g = f \/ Before(g, f)})
            /\ torn' = TRUE
      /\ indexed' = TRUE
      /\ names' = IF indexed /\ ~(KnownNames = {} /\ coverage # {})
                  THEN names ELSE KnownNames
      /\ coverage' = IF indexed /\ ~(KnownNames = {} /\ coverage # {})
                     THEN coverage ELSE KnownCoverage

-----------------------------------------------------------------------------
(***************************************************************************)
(* The queries of get_kline.                                               *)
(***************************************************************************)

Set(c, query) == client' = [client EXCEPT ![c] = query]

\* get_kline of an unlimited session asks the cache what it misses.
AskRange(c, lo, hi) ==
  /\ client[c].at = "idle"
  /\ queries < MaxQueries
  /\ queries' = queries + 1
  /\ Set(c, [Idle EXCEPT !.at = IF Missing(lo, hi) = {} THEN "load" ELSE "fetch",
                         !.lo = lo, !.hi = hi, !.asked = clock,
                         !.todo = Missing(lo, hi)])
  /\ Loaded
  /\ UNCHANGED <<clock, faults, torn, lost>>

\* One of a limited session reads the newest rows of the cache first.
AskLatest(c, lo, hi) ==
  /\ client[c].at = "idle"
  /\ queries < MaxQueries
  /\ queries' = queries + 1
  /\ LET held == Held(lo, hi)
         read == {b \in held : Cardinality({u \in held : u >= b}) <= Limit}
     IN  Set(c, [Idle EXCEPT !.at = "covered", !.limited = TRUE, !.lo = lo, !.hi = hi,
                             !.asked = clock, !.read = read])
  /\ Loaded
  /\ UNCHANGED <<clock, faults, torn, lost>>

\* The rows a limited answer must be covered from.
From(q) == IF Cardinality(q.read) = Limit THEN Min(q.read) ELSE q.lo

\* Then it asks what is covered; all covered, the rows read before are the answer.
LookCovered(c) ==
  LET q == client[c]
      missing == Missing(From(q), q.hi)
  IN  /\ q.at = "covered"
      /\ Set(c, IF missing = {} THEN Idle
                ELSE [q EXCEPT !.at = "fetch", !.todo = q.lo .. q.hi])
      /\ Loaded
      /\ UNCHANGED <<clock, queries, faults, torn, lost>>

\* The rows the server answers with (external): the first of a range, or the newest.
Served(q) ==
  LET range == IF q.limited THEN q.todo ELSE Rest(q.todo, Min(q.todo))
      rows  == {b \in Bars : b \in range /\ b <= clock}
      rank(b) == IF q.limited THEN Cardinality({u \in rows : u >= b})
                              ELSE Cardinality({u \in rows : u <= b})
  IN  {b \in rows : rank(b) <= IF q.limited THEN Limit ELSE Page}

\* Bug variant: a page without rows is stored like any other.
FetchStores(c) ==
  /\ client[c].at = "fetch"
  /\ Set(c, [client[c] EXCEPT !.at = "store", !.page = Served(client[c])])
  /\ UNCHANGED <<clock, disk, queries, faults, torn, lost>>

\* A page without rows ends its range.
Fetch(c) ==
  LET q    == client[c]
      rest == IF q.limited THEN {} ELSE q.todo \ Rest(q.todo, Min(q.todo))
  IN  /\ q.at = "fetch"
      /\ Set(c, IF Served(q) # {} THEN [q EXCEPT !.at = "store", !.page = Served(q)]
                ELSE IF rest # {} THEN [q EXCEPT !.todo = rest]
                ELSE IF q.limited THEN Idle
                ELSE [q EXCEPT !.at = "load", !.todo = {}])
      /\ UNCHANGED <<clock, disk, queries, faults, torn, lost>>

\* The query fails: timeout, loss of the connection, an invalid answer.
FetchFails(c) ==
  /\ client[c].at = "fetch"
  /\ Set(c, Idle)
  /\ UNCHANGED <<clock, disk, queries, faults, torn, lost>>

\* Bug variant: the empty rest of a range counts as covered.
PageCoverageWhole(q) ==
  IF q.limited
  THEN (IF Cardinality(q.page) = Limit THEN Min(q.page) ELSE q.lo) .. q.hi
  ELSE Rest(q.todo, Min(q.todo))

\* A page covers from where it was asked for up to its last row; a limited answer up
\* to the end that was asked for.
PageCoverage(q) ==
  IF q.limited
  THEN (IF Cardinality(q.page) = Limit THEN Min(q.page) ELSE q.lo) .. q.hi
  ELSE {t \in Rest(q.todo, Min(q.todo)) : t <= Max(q.page)}

Store(c) ==
  LET q    == client[c]
      rest == q.todo \ PageCoverage(q)
  IN  /\ q.at = "store"
      /\ StoreRange(PageCoverage(q), q.page)
      /\ Set(c, IF q.limited THEN Idle
                ELSE [q EXCEPT !.at = IF rest = {} THEN "load" ELSE "fetch",
                               !.todo = rest, !.page = {}])
      /\ UNCHANGED <<clock, queries, faults, torn, lost>>

\* A process is killed while it stores.
Die(c) ==
  /\ client[c].at = "store"
  /\ faults < MaxFaults
  /\ faults' = faults + 1
  /\ DiesInStore(client[c].page)
  /\ Set(c, Idle)
  /\ UNCHANGED <<clock, queries, lost>>

\* The answer of an unlimited session is what the cache holds in the end.
Load(c) ==
  /\ client[c].at = "load"
  /\ Set(c, Idle)
  /\ Loaded
  /\ UNCHANGED <<clock, queries, faults, torn, lost>>

Tick ==
  /\ clock < Horizon
  /\ clock' = clock + 1
  /\ UNCHANGED <<disk, client, queries, faults, torn, lost>>

\* The index is removed or unreadable (external).
LoseIndex ==
  /\ indexed
  /\ faults < MaxFaults
  /\ faults' = faults + 1
  /\ indexed' = FALSE
  /\ names' = {}
  /\ coverage' = {}
  /\ UNCHANGED <<clock, files, client, queries, torn, lost>>

\* A segment is damaged (external).  The next reader removes it, and to all others it
\* is not there either: what they do with a name is to look for a valid file.
DamageSegment ==
  /\ faults < MaxFaults
  /\ faults' = faults + 1
  /\ \E f \in files : files' = files \ {f} /\ lost' = lost \cup f.rows
  /\ UNCHANGED <<clock, indexed, names, coverage, client, queries, torn>>

Queries == {r \in Requests : r[1] <= r[2] /\ r[2] <= clock + Ahead}

Next ==
  \/ \E c \in Clients, r \in Queries : AskRange(c, r[1], r[2])
  \/ \E c \in Clients, r \in Queries : AskLatest(c, r[1], r[2])
  \/ \E c \in Clients : LookCovered(c)
  \/ \E c \in Clients : Fetch(c)
  \/ \E c \in Clients : FetchFails(c)
  \/ \E c \in Clients : Store(c)
  \/ \E c \in Clients : Die(c)
  \/ \E c \in Clients : Load(c)
  \/ Tick
  \/ LoseIndex
  \/ DamageSegment

Spec == Init /\ [][Next]_vars

-----------------------------------------------------------------------------
(***************************************************************************)
(* Properties.                                                             *)
(***************************************************************************)

\* "优先使用可验证覆盖的缓存": what the cache counts as covered it holds, so that an
\* answer from it lacks no bar, but those a damaged segment took with it: coverage
\* does not say which segment it rests on.
VerifiedCoverage ==
  LET trusted == Effective(KnownCoverage)
      held    == RowsOf(Listed(files, KnownNames))
  IN  \A b \in Bars \ lost : b <= clock /\ b \in trusted => b \in held

\* So it is through pages of several clients that interleave, compaction, the loss of
\* the index and deaths of processes, but in the removal of compacted files.
CoveredIsHeld == ~torn => VerifiedCoverage

\* A bar that still forms is never answered from the cache alone.
FormingIsAsked ==
  LET trusted == Effective(KnownCoverage)
  IN  \A b \in Bars : b <= clock /\ clock < b + Period * TailRefresh =>
                        b \notin trusted

\* No compaction, wherever it is cut, takes a row off the disk, and a damaged segment
\* takes no row but its own.
RowsStay ==
  [][RowsOf(files) \subseteq RowsOf(files') \cup lost']_vars

\* The answer of an unlimited session has every bar of the range that was there when
\* it was asked for, whatever other clients did to the cache in the meantime.  Rows that
\* were damaged may be missed for good: what counts as covered is not asked again.
RangeIsComplete ==
  \A c \in Clients :
    ~torn /\ client[c].at = "load" =>
      \A b \in Bars \ lost : b \in client[c].lo .. client[c].hi
                               /\ b <= client[c].asked => b \in Held(b, b)

\* "A prefix or a suffix with unknown gaps cannot establish the latest rows": a limited
\* answer from the cache has the newest rows that were there when it was asked for.
LatestIsComplete ==
  [][\A c \in Clients :
       LET q == client[c]
       IN  q.at = "covered" /\ client'[c].at = "idle" =>
             \A b \in Bars : b \in From(q) .. q.hi /\ b <= q.asked => b \in q.read]_vars

=============================================================================

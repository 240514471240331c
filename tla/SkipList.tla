------------------------------ MODULE SkipList ------------------------------
(***************************************************************************)
(* The skip list of ds/skiplist: nodes of random height, and on each level *)
(* of a node the next node of that height with the span to it, from which  *)
(* ranks are computed.  Data are distinct, so a node is named by its data; *)
(* the caller guarantees what the comments of Insert and Update assume.    *)
(* QueryByRankRange is RankTree's, which hands it on with its ranks cut.   *)
(***************************************************************************)
EXTENDS Integers, Sequences, FiniteSets

CONSTANTS
  Data,       \* data inserted: positive integers, ordered by Compare as integers
  maxLevel    \* height of the header

ASSUME SkipListAssumption == Data \subseteq Nat \ {0} /\ maxLevel \in Nat \ {0}

nil    == -1
header == 0
Nodes  == Data \cup {header}
Levels == 0..(maxLevel - 1)

VARIABLES
  sl,    \* the list: the nodes' levels, the level and the length
  ret    \* what the last call returned

vars == <<sl, ret>>

TypeOK ==
  /\ sl.next \in [Nodes -> [Levels -> Nodes \cup {nil}]]
  /\ sl.span \in [Nodes -> [Levels -> 0..Cardinality(Data)]]
  /\ sl.level \in 1..maxLevel /\ sl.length \in 0..Cardinality(Data)
  /\ ret \in 0..Cardinality(Data)

NewSkipList ==
  [next   |-> [n \in Nodes |-> [i \in Levels |-> nil]],
   span   |-> [n \in Nodes |-> [i \in Levels |-> 0]],
   level  |-> 1,
   length |-> 0]

Init == sl = NewSkipList /\ ret = 0

-----------------------------------------------------------------------------
(* The searches.  A place is a node with its rank.                         *)

\* The last place of level i, from place p on, whose data is below d.
Advance(s, i, p, d) ==
  LET f[q \in [node : Nodes, rank : Nat]] ==
        LET x == s.next[q.node][i] IN
        IF x # nil /\ x < d THEN f[[node |-> x, rank |-> q.rank + s.span[q.node][i]]] ELSE q
  IN  f[p]

\* update and rank: for each level the place after which d belongs.
Path(s, d) ==
  LET path[i \in 0..maxLevel] ==
        IF i >= s.level THEN [node |-> header, rank |-> 0] ELSE Advance(s, i, path[i + 1], d)
  IN  path

Found(s, d) == s.next[Path(s, d)[0].node][0] = d

GetRank(s, d) == IF Found(s, d) THEN Path(s, d)[0].rank + 1 ELSE -1

Reaches(to, r) == to <= r

\* getNodeByRank: down the levels, at each as far as the rank allows.
getNodeByRank(s, r) ==
  LET far(i, p) ==
        LET f[q \in [node : Nodes, rank : Nat]] ==
              LET to == q.rank + s.span[q.node][i] IN
              IF s.next[q.node][i] # nil /\ Reaches(to, r)
                THEN f[[node |-> s.next[q.node][i], rank |-> to]] ELSE q
        IN  f[p]
      down[i \in 0..s.level] ==
        IF i = s.level THEN [node |-> header, rank |-> 0] ELSE far(i, down[i + 1])
      stops == {i \in 0..(s.level - 1) : down[i].rank = r}
  IN  IF stops = {} THEN nil ELSE down[CHOOSE i \in stops : \A j \in stops : j <= i].node

\* From the node of rank min on, up to rank max.
SearchByRankRange(s, min, max) ==
  LET f[n \in Nodes \cup {nil}, r \in Int] ==
        IF n = nil \/ r > max THEN <<>> ELSE <<n>> \o f[s.next[n][0], r + 1]
  IN  f[getNodeByRank(s, min), min]

AtLeast(min) == IF min < 1 THEN 1 ELSE min

QueryByRankRange(s, min, max) ==
  LET hi == IF max < 0 \/ max > s.length THEN s.length ELSE max
  IN  IF AtLeast(min) > hi THEN <<>> ELSE SearchByRankRange(s, AtLeast(min), hi)

-----------------------------------------------------------------------------
(* The list with one node more or less.                                    *)

\* A level used for the first time spans the list.
NewSpan(s, i) == s.length

\* A level the new node does not reach passes over it.
Covered(s, n, i) == s.span[n][i] + 1

Inserted(s, d, level) ==
  LET path == Path(s, d)
      at(i) == path[i].node
      dist(i) == path[0].rank - path[i].rank
      span(i) == IF i >= s.level THEN NewSpan(s, i) ELSE s.span[at(i)][i]
      top == IF level > s.level THEN level ELSE s.level
  IN  [next   |-> [n \in Nodes |-> [i \in Levels |->
                    CASE i < level /\ n = at(i) -> d
                      [] i < level /\ n = d     -> s.next[at(i)][i]
                      [] OTHER                  -> s.next[n][i]]],
       span   |-> [n \in Nodes |-> [i \in Levels |->
                    CASE i < level /\ n = at(i)               -> dist(i) + 1
                      [] i < level /\ n = d                   -> span(i) - dist(i)
                      [] i >= level /\ i < top /\ n = at(i)   -> Covered(s, n, i)
                      [] OTHER                                -> s.span[n][i]]],
       level  |-> top,
       length |-> s.length + 1]

\* The level falls to the highest one in use.
Lowered(next, level) ==
  LET f[l \in 1..maxLevel] == IF l > 1 /\ next[header][l - 1] = nil THEN f[l - 1] ELSE l
  IN  f[level]

\* The span of the place before the removed node x.
Closed(s, n, i, x) ==
  IF s.next[n][i] = x THEN s.span[n][i] + s.span[x][i] - 1 ELSE s.span[n][i] - 1

Deleted(s, x) ==
  LET path == Path(s, x)
      before(n, i) == i < s.level /\ n = path[i].node
      next == [n \in Nodes |-> [i \in Levels |->
                 CASE n = x                               -> nil
                   [] before(n, i) /\ s.next[n][i] = x    -> s.next[x][i]
                   [] OTHER                               -> s.next[n][i]]]
  IN  [next   |-> next,
       span   |-> [n \in Nodes |-> [i \in Levels |->
                    CASE n = x -> 0
                      [] before(n, i) -> Closed(s, n, i, x)
                      [] OTHER        -> s.span[n][i]]],
       level  |-> Lowered(next, s.level),
       length |-> s.length - 1]

\* Mutant of Renamed: the new datum is not stored.
RenamedMut(s, x, d) == s

\* x.Data = d: the node x is now named d.
Renamed(s, x, d) ==
  [s EXCEPT !.next = [n \in Nodes |-> [i \in Levels |->
                        LET to == s.next[IF n = d THEN x ELSE n][i] IN
                        IF n = x THEN nil ELSE IF to = x THEN d ELSE to]],
            !.span = [n \in Nodes |-> [i \in Levels |->
                        IF n = x THEN 0 ELSE s.span[IF n = d THEN x ELSE n][i]]]]

-----------------------------------------------------------------------------
(* The operations.  randomLevel may return any level.                      *)

\* With d instead of old, the node would stand where it stands.
SamePlace(s, old, d) ==
  LET prev == Path(s, old)[0].node
      x    == s.next[prev][0]
  IN  /\ prev = header \/ prev < d
      /\ s.next[x][0] = nil \/ s.next[x][0] > d

Insert(d) ==
  /\ ~Found(sl, d)
  /\ ret' = Path(sl, d)[0].rank + 1
  /\ \E level \in 1..maxLevel : sl' = Inserted(sl, d, level)

Remove(d) ==
  /\ sl' = IF Found(sl, d) THEN Deleted(sl, d) ELSE sl
  /\ ret' = IF Found(sl, d) THEN 1 ELSE 0

Update(old, d) ==
  /\ Found(sl, old) /\ ~Found(sl, d)
  /\ IF SamePlace(sl, old, d)
       THEN ret' = 0 /\ sl' = Renamed(sl, old, d)
       ELSE LET s == Deleted(sl, old) IN
            /\ ret' = Path(s, d)[0].rank + 1
            /\ \E level \in 1..maxLevel : sl' = Inserted(s, d, level)

Clear == sl' = NewSkipList /\ ret' = 0

Next ==
  \/ \E d \in Data : Insert(d) \/ Remove(d)
  \/ \E old, d \in Data : Update(old, d)
  \/ Clear

Spec == Init /\ [][Next]_vars

-----------------------------------------------------------------------------
\* The data on level i of a list, by following the links.
OnLevel(s, i) ==
  LET f[n \in Nodes] == IF s.next[n][i] = nil THEN {} ELSE {s.next[n][i]} \cup f[s.next[n][i]]
  IN  f[header]

Elems(s) == OnLevel(s, 0)

\* Reference: the rank of a datum is the number of data up to it.
RankOf(S, d) == Cardinality({e \in S : e <= d})

\* Every level links, in order, a part of the level below, no level above the list's is in
\* use and the top one is, and every span is the difference of the ranks it connects
\* (skiplist.go 51-129, 144-187): nothing drifts over any history.
SpansExact ==
  LET S == Elems(sl) IN
  /\ sl.length = Cardinality(S)
  /\ sl.level > 1 => sl.next[header][sl.level - 1] # nil
  /\ \A i \in Levels : i >= sl.level => sl.next[header][i] = nil
  /\ \A i \in 1..(maxLevel - 1) : OnLevel(sl, i) \subseteq OnLevel(sl, i - 1)
  /\ \A i \in 0..(sl.level - 1) : \A n \in OnLevel(sl, i) \cup {header} :
       LET x == sl.next[n][i] IN
       /\ x # nil => x > n
       /\ sl.span[n][i] = (IF x = nil THEN sl.length ELSE RankOf(S, x)) - RankOf(S, n)

\* Over any history the list stays exact, GetRank answers as the sorted set does, and a
\* range query returns the data of exactly the ranks asked for that exist, in order and
\* never the header, for every range: a negative maximum stands for the last rank
\* (skiplist.go 190-244, rank.go 50-63).
RanksRight ==
  LET S == Elems(sl)
      asked(min, max) == {d \in S : RankOf(S, d) >= min /\ (max < 0 \/ RankOf(S, d) <= max)}
  IN  /\ SpansExact
      /\ \A d \in Data : GetRank(sl, d) = IF d \in S THEN RankOf(S, d) ELSE -1
      /\ \A min, max \in (-1)..(Cardinality(Data) + 1) :
           LET q == QueryByRankRange(sl, min, max) IN
           /\ {q[k] : k \in 1..Len(q)} = asked(min, max)
           /\ \A k \in 1..(Len(q) - 1) : q[k] < q[k + 1]

\* Update replaces the old datum by the new one and returns 0 exactly when the rank stays,
\* otherwise the new rank (skiplist.go 142: 返回rank, rank=0表示rank位置不变, rank>0表示data的rank改变).
UpdateTellsRank ==
  [][\A old, d \in Data :
       Update(old, d) =>
         LET was == Elems(sl)
             is  == Elems(sl')
         IN  /\ is = (was \ {old}) \cup {d}
             /\ ret' = IF RankOf(was, old) = RankOf(is, d) THEN 0 ELSE RankOf(is, d)]_vars

\* The list ranks as the sorted set of its data does, whatever was done before: in every
\* state for queries, and in every Update for the rank it returns (skiplist.go 51-244,
\* rank.go 50-63).
RanksAsSorted == []RanksRight /\ UpdateTellsRank

=============================================================================

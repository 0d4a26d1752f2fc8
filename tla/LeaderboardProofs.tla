------------------------- MODULE LeaderboardProofs -------------------------
(***************************************************************************)
(* Proofs about Ranking and Leaderboard, for any number of miners, shares  *)
(* and rounds, any length of the week and any limits of the queries.       *)
(***************************************************************************)
EXTENDS Leaderboard, FiniteSetTheorems, TLAPS

-----------------------------------------------------------------------------
(* Maxima of finite sets *)

Below == {p \in Nat \X Nat : p[1] < p[2]}

\* Every nonempty set of numbers has a least one: what stands for induction here.
LEMMA LeastNat ==
    ASSUME NEW T \in SUBSET Nat, T # {}
    PROVE  \E n \in T : \A m \in T : n <= m
<1>1. IsWellFoundedOn(Below, Nat)
  BY NatLessThanWellFounded DEF OpToRel, Below
<1>2. PICK n \in T : \A m \in T : <<m, n>> \notin Below
  BY <1>1, WFMin
<1>3. \A m \in T : ~(m < n)
  BY <1>2 DEF Below
<1> QED BY <1>3

\* The numbers of elements with which a set of naturals may lack a greatest one.
LackingMax ==
    {n \in Nat : \E T \in SUBSET Nat :
        /\ T # {} /\ IsFiniteSet(T) /\ Cardinality(T) = n
        /\ ~\E m \in T : \A x \in T : x <= m}

\* A finite set of numbers that is not empty has a greatest element.
LEMMA GreatestExists ==
    ASSUME NEW T \in SUBSET Nat, T # {}, IsFiniteSet(T)
    PROVE  \E m \in T : \A x \in T : x <= m
<1> SUFFICES ASSUME LackingMax # {} PROVE FALSE
  <2>1. Cardinality(T) \in Nat
    BY FS_CardinalityType
  <2> QED BY <2>1 DEF LackingMax
<1>1. PICK n \in LackingMax : \A k \in LackingMax : n <= k
  BY LeastNat DEF LackingMax
<1>2. PICK S \in SUBSET Nat :
        /\ S # {} /\ IsFiniteSet(S) /\ Cardinality(S) = n
        /\ ~\E m \in S : \A x \in S : x <= m
  BY DEF LackingMax
<1>3. PICK s \in S : TRUE
  BY <1>2
<1>4. IsFiniteSet(S \ {s}) /\ Cardinality(S \ {s}) = n - 1 /\ Cardinality(S \ {s}) \in Nat
  BY <1>2, <1>3, FS_RemoveElement, FS_CardinalityType
<1>5. CASE S = {s}
  BY <1>2, <1>5
<1>6. CASE S # {s}
  <2>1. S \ {s} \in SUBSET Nat /\ S \ {s} # {}
    BY <1>3, <1>6
  <2>2. n - 1 \notin LackingMax
    BY <1>1, <1>4 DEF LackingMax
  <2>3. PICK m \in S \ {s} : \A x \in S \ {s} : x <= m
    BY <1>4, <2>1, <2>2 DEF LackingMax
  <2>4. \A x \in S : x <= (IF m < s THEN s ELSE m)
    BY <1>2, <2>3
  <2> QED BY <1>2, <2>3, <2>4
<1> QED BY <1>5, <1>6

\* The maximum of such a set is one of its elements and bounds the others.
LEMMA MaxOfFinite ==
    ASSUME NEW T \in SUBSET Nat, T # {}, IsFiniteSet(T)
    PROVE  Max(T) \in T /\ \A x \in T : x <= Max(T)
<1>1. \E m \in T : \A x \in T : m >= x
  BY GreatestExists
<1> QED BY <1>1 DEF Max

\* The minimum of numbers is one of them and bounds the others.
LEMMA MinOfNats ==
    ASSUME NEW T \in SUBSET Nat, T # {}
    PROVE  Min(T) \in T /\ \A x \in T : Min(T) <= x
<1>1. \E m \in T : \A x \in T : m <= x
  BY LeastNat
<1> QED BY <1>1 DEF Min

\* The maximum of two numbers.
LEMMA MaxOfTwo ==
    ASSUME NEW a \in Int, NEW b \in Int
    PROVE  Max({a, b}) = IF a < b THEN b ELSE a
<1>1. \E m \in {a, b} : \A x \in {a, b} : m >= x
  OBVIOUS
<1> DEFINE m == Max({a, b})
<1>2. m \in {a, b} /\ \A x \in {a, b} : m >= x
  BY <1>1 DEF Max
<1> QED BY <1>2

\* What a function makes of a finite set is finite.
LEMMA FiniteImage ==
    ASSUME NEW S, IsFiniteSet(S), NEW f, f \in [S -> {f[x] : x \in S}]
    PROVE  IsFiniteSet({f[x] : x \in S}) /\ Cardinality({f[x] : x \in S}) <= Cardinality(S)
<1>1. f \in Surjection(S, {f[x] : x \in S})
  BY DEF Surjection
<1> QED BY <1>1, FS_Surjection

\* As many values as arguments, when different arguments have different values.
LEMMA FiniteCopy ==
    ASSUME NEW S, IsFiniteSet(S), NEW f, f \in [S -> {f[x] : x \in S}],
           \A x, y \in S : f[x] = f[y] => x = y
    PROVE  IsFiniteSet({f[x] : x \in S}) /\ Cardinality({f[x] : x \in S}) = Cardinality(S)
<1>1. f \in Surjection(S, {f[x] : x \in S})
  BY DEF Surjection
<1>2. f \in Injection(S, {f[x] : x \in S})
  BY DEF Injection, IsInjective
<1>3. IsFiniteSet({f[x] : x \in S})
  BY <1>1, FS_Surjection
<1>4. Cardinality({f[x] : x \in S}) = Cardinality(S)
  BY <1>1, <1>2, FS_Surjection
<1> QED BY <1>3, <1>4

-----------------------------------------------------------------------------
(* Ranks, for any set of entries with a natural number as best *)

Entries(S) == IsFiniteSet(S) /\ \A e \in S : e.best \in Nat

\* A rank is one more than the number of entries with a greater best share.
LEMMA RankType ==
    ASSUME NEW S, Entries(S), NEW e
    PROVE  /\ IsFiniteSet({f \in S : f.best > e.best})
           /\ Cardinality({f \in S : f.best > e.best}) \in Nat
           /\ RankIn(e, S) = 1 + Cardinality({f \in S : f.best > e.best})
           /\ RankIn(e, S) \in Nat \ {0}
<1>1. IsFiniteSet({f \in S : f.best > e.best})
  BY FS_Subset DEF Entries
<1> QED BY <1>1, FS_CardinalityType DEF RankIn

\* Who is better is not ranked lower.
LEMMA RankOrder ==
    ASSUME NEW S, Entries(S), NEW e, NEW f,
           e.best \in Nat, f.best \in Nat, f.best <= e.best
    PROVE  RankIn(e, S) <= RankIn(f, S)
<1>1. {g \in S : g.best > e.best} \in SUBSET {g \in S : g.best > f.best}
  BY DEF Entries
<1>2. Cardinality({g \in S : g.best > e.best}) <= Cardinality({g \in S : g.best > f.best})
  BY <1>1, RankType, FS_Subset
<1>3. /\ RankIn(e, S) = 1 + Cardinality({g \in S : g.best > e.best})
      /\ Cardinality({g \in S : g.best > e.best}) \in Nat
  BY RankType
<1>4. /\ RankIn(f, S) = 1 + Cardinality({g \in S : g.best > f.best})
      /\ Cardinality({g \in S : g.best > f.best}) \in Nat
  BY RankType
<1> QED BY <1>2, <1>3, <1>4

\* The first n entries: how many they are, and that none outside has a greater best.
LEMMA FirstsType ==
    ASSUME NEW S, Entries(S), NEW n \in Nat, NEW top \in Firsts(S, n)
    PROVE  /\ top \subseteq S /\ IsFiniteSet(top)
           /\ Cardinality(top) \in Nat /\ Cardinality(S) \in Nat
           /\ Cardinality(top) = IF Cardinality(S) < n THEN Cardinality(S) ELSE n
           /\ Cardinality(S) <= n => top = S
           /\ \A e \in top, f \in S \ top : e.best >= f.best
<1>1. top \in SUBSET S /\ IsFiniteSet(S)
  BY DEF Firsts, Entries
<1>2. IsFiniteSet(top) /\ Cardinality(top) \in Nat /\ Cardinality(S) \in Nat
  BY <1>1, FS_Subset, FS_CardinalityType
<1>3. Cardinality(top) = IF Cardinality(S) < n THEN Cardinality(S) ELSE n
  BY DEF Firsts
<1>4. Cardinality(S) <= n => top = S
  BY <1>1, <1>2, <1>3, FS_Subset
<1>5. \A e \in top, f \in S \ top : e.best >= f.best
  BY DEF Firsts
<1> QED BY <1>1, <1>2, <1>3, <1>4, <1>5

\* Whoever is among the first n is ranked n-th or better.
LEMMA FirstsAreRanked ==
    ASSUME NEW S, Entries(S), NEW n \in Nat, NEW top \in Firsts(S, n), NEW e \in top
    PROVE  RankIn(e, S) <= n
<1> DEFINE better == {f \in S : f.best > e.best}
<1>1. better \in SUBSET (top \ {e})
  <2> SUFFICES ASSUME NEW f \in better PROVE f \in top \ {e}
    OBVIOUS
  <2>1. e \in S /\ e.best \in Nat /\ f.best \in Nat /\ f.best > e.best
    BY FirstsType DEF Entries
  <2>2. f # e
    BY <2>1
  <2>3. f \in top
    BY <2>1, FirstsType
  <2> QED BY <2>2, <2>3
<1>2. IsFiniteSet(top \ {e}) /\ Cardinality(top \ {e}) = Cardinality(top) - 1
  BY FirstsType, FS_RemoveElement
<1>3. Cardinality(better) <= Cardinality(top) - 1
  BY <1>1, <1>2, FS_Subset
<1>4. Cardinality(top) <= n
  BY FirstsType
<1> HIDE DEF better
<1>5. RankIn(e, S) = 1 + Cardinality(better) /\ Cardinality(better) \in Nat
  BY RankType DEF better
<1> QED BY <1>3, <1>4, <1>5, FirstsType

\* There are n entries of rank n or better, when there are n at all.
LEMMA EnoughAreRanked ==
    ASSUME NEW S, Entries(S), NEW n \in Nat, n <= Cardinality(S)
    PROVE  /\ IsFiniteSet({e \in S : RankIn(e, S) <= n})
           /\ n <= Cardinality({e \in S : RankIn(e, S) <= n})
<1> DEFINE ranked == {e \in S : RankIn(e, S) <= n}
           others == S \ ranked
           bests == {e.best : e \in others}
<1>1. IsFiniteSet(ranked) /\ Cardinality(ranked) \in Nat /\ IsFiniteSet(others)
  BY FS_Subset, FS_CardinalityType DEF Entries
<1>2. CASE others = {}
  <2>1. ranked = S
    BY <1>2
  <2> QED BY <1>1, <2>1
<1>3. CASE others # {}
  <2>1. bests \in SUBSET Nat /\ bests # {}
    BY <1>3 DEF Entries
  <2>2. IsFiniteSet(bests)
    <3> DEFINE f == [e \in others |-> e.best]
    <3>1. f \in [others -> {f[e] : e \in others}]
      OBVIOUS
    <3>2. bests = {f[e] : e \in others}
      OBVIOUS
    <3> HIDE DEF f, others, bests
    <3> QED BY <1>1, <3>1, <3>2, FiniteImage
  <2>3. PICK e \in others : e.best = Max(bests)
    BY <2>1, <2>2, MaxOfFinite
  <2>4. \A f \in others : f.best <= e.best
    BY <2>1, <2>2, <2>3, MaxOfFinite
  <2>5. {f \in S : f.best > e.best} \in SUBSET ranked
    BY <2>4 DEF Entries
  <2>6. Cardinality({f \in S : f.best > e.best}) <= Cardinality(ranked)
    BY <1>1, <2>5, FS_Subset
  <2>7. ~(RankIn(e, S) <= n)
    BY <2>3
  <2>8. RankIn(e, S) = 1 + Cardinality({f \in S : f.best > e.best}) /\ RankIn(e, S) \in Nat
    BY RankType
  <2>9. Cardinality({f \in S : f.best > e.best}) \in Nat
    BY RankType
  <2>10. n <= Cardinality(ranked)
    BY <1>1, <2>6, <2>7, <2>8, <2>9
  <2> QED BY <1>1, <2>10
<1> QED BY <1>1, <1>2, <1>3

-----------------------------------------------------------------------------
(* Sets of rows *)

Rows == [address : Addresses, round : Nat, diff : Difficulties, at : Nat]

\* Whether the table keeps fractions or rounds them, no difficulty in it is zero.
LEMMA DifficultiesType == Difficulties \subseteq Nat \ {0}
<1> SUFFICES ASSUME NEW d \in Submitted PROVE Stored(d) \in Nat \ {0}
  BY DEF Difficulties
<1>1. d \in Nat /\ d >= 100
  BY MinersAssumption
<1>2. (2 * d + 100) \div 200 \in Nat \ {0}
  BY <1>1
<1> QED BY <1>1, <1>2 DEF Stored

\* The best of a miner's rows is the difficulty of one of them and bounds the others.
LEMMA BestOfType ==
    ASSUME NEW rows \in SUBSET Rows, rows # {}, IsFiniteSet(rows)
    PROVE  /\ BestOf(rows) \in Difficulties /\ BestOf(rows) \in Nat \ {0}
           /\ \E s \in rows : s.diff = BestOf(rows)
           /\ \A s \in rows : s.diff <= BestOf(rows)
<1> DEFINE f == [s \in rows |-> s.diff]
           diffs == {s.diff : s \in rows}
<1>1. diffs = {f[s] : s \in rows} /\ f \in [rows -> {f[s] : s \in rows}]
  OBVIOUS
<1>2. diffs \in SUBSET Nat /\ diffs # {} /\ diffs \subseteq Difficulties
  BY DifficultiesType DEF Rows
<1>3. IsFiniteSet(diffs)
  <2> HIDE DEF f, diffs
  <2> QED BY <1>1, FiniteImage
<1>4. BestOf(rows) \in diffs /\ \A x \in diffs : x <= BestOf(rows)
  BY <1>2, <1>3, MaxOfFinite DEF BestOf
<1> QED BY <1>2, <1>4, DifficultiesType

\* The last time of a miner's rows is that of one of them and bounds the others.
LEMMA LastSeenType ==
    ASSUME NEW rows \in SUBSET Rows, rows # {}, IsFiniteSet(rows)
    PROVE  /\ LastSeen(rows) \in Nat
           /\ \E s \in rows : s.at = LastSeen(rows)
           /\ \A s \in rows : s.at <= LastSeen(rows)
<1> DEFINE f == [s \in rows |-> s.at]
           times == {s.at : s \in rows}
<1>1. times = {f[s] : s \in rows} /\ f \in [rows -> {f[s] : s \in rows}]
  OBVIOUS
<1>2. times \in SUBSET Nat /\ times # {}
  BY DEF Rows
<1>3. IsFiniteSet(times)
  <2> HIDE DEF f, times
  <2> QED BY <1>1, FiniteImage
<1>4. LastSeen(rows) \in times /\ \A x \in times : x <= LastSeen(rows)
  BY <1>2, <1>3, MaxOfFinite DEF LastSeen
<1> QED BY <1>2, <1>4

\* The maximum is what is found to be it.
LEMMA BestOfIs ==
    ASSUME NEW rows \in SUBSET Rows, IsFiniteSet(rows), NEW d \in Nat,
           \E s \in rows : s.diff = d, \A s \in rows : s.diff <= d
    PROVE  BestOf(rows) = d
<1>1. BestOf(rows) \in Nat /\ BestOf(rows) <= d /\ d <= BestOf(rows)
  BY BestOfType
<1> QED BY <1>1

\* A time that a row has and that bounds the rows is the last one.
LEMMA LastSeenIs ==
    ASSUME NEW rows \in SUBSET Rows, IsFiniteSet(rows), NEW t \in Nat,
           \E s \in rows : s.at = t, \A s \in rows : s.at <= t
    PROVE  LastSeen(rows) = t
<1>1. LastSeen(rows) \in Nat /\ LastSeen(rows) <= t /\ t <= LastSeen(rows)
  BY LastSeenType
<1> QED BY <1>1

\* A miner's last share is in his session, so he has a best one.
LEMMA SessionType ==
    ASSUME NEW mine \in SUBSET Rows, IsFiniteSet(mine), mine # {}
    PROVE  /\ Session(mine) \in SUBSET Rows /\ Session(mine) \subseteq mine
           /\ Session(mine) # {} /\ IsFiniteSet(Session(mine))
<1>1. Session(mine) \subseteq mine
  BY DEF Session
<1>2. PICK s \in mine : \A t \in mine : t.at <= s.at
  BY LastSeenType
<1>3. s \in Session(mine)
  BY <1>2 DEF Session, SessionStarts, Rows
<1> QED BY <1>1, <1>3, FS_Subset

\* A session that starts within the last week starts after a silence of more than one:
\* there is no share of the last week before it.
LEMMA RecentIsInSession ==
    ASSUME NEW mine \in SUBSET Rows, NEW s \in mine, NEW t \in Nat, t - Week < s.at,
           \A r \in mine : r.at <= t
    PROVE  s \in Session(mine)
<1> SUFFICES ASSUME NEW r \in SessionStarts(mine), r.at > s.at PROVE FALSE
  BY DEF Session, SessionStarts, Rows
<1>1. r \in mine /\ r.at - s.at > Week
  BY DEF SessionStarts
<1> QED BY <1>1, WindowAssumption DEF Rows

-----------------------------------------------------------------------------
(* The standings *)

\* The row of the ranking for one miner.
EntryOf(a, rows, t) ==
    [address |-> a, best |-> BestOf(Session(Of(rows, a))), lastSeen |-> LastSeen(Of(Recent(rows, t), a))]

Named(rows) == {s.address : s \in rows}

\* Finitely many rows name finitely many addresses.
LEMMA NamedType ==
    ASSUME NEW rows \in SUBSET Rows, IsFiniteSet(rows)
    PROVE  IsFiniteSet(Named(rows)) /\ Named(rows) \subseteq Addresses
<1> DEFINE f == [s \in rows |-> s.address]
<1>1. Named(rows) = {f[s] : s \in rows} /\ f \in [rows -> {f[s] : s \in rows}]
  BY DEF Named
<1>2. IsFiniteSet(Named(rows))
  <2> HIDE DEF f
  <2> QED BY <1>1, FiniteImage
<1> QED BY <1>2 DEF Named, Rows

\* The rows of a week and of an address are finitely many rows of the table.
LEMMA RowsOf ==
    ASSUME NEW rows \in SUBSET Rows, IsFiniteSet(rows), NEW t \in Nat, NEW a
    PROVE  /\ Recent(rows, t) \subseteq rows /\ IsFiniteSet(Recent(rows, t))
           /\ Of(rows, a) \in SUBSET Rows /\ IsFiniteSet(Of(rows, a))
           /\ Of(Recent(rows, t), a) \in SUBSET Rows /\ IsFiniteSet(Of(Recent(rows, t), a))
           /\ Of(Recent(rows, t), a) \subseteq Of(rows, a)
           /\ a \in Named(Recent(rows, t)) <=> Of(Recent(rows, t), a) # {}
<1>1. Recent(rows, t) \in SUBSET rows /\ Of(rows, a) \in SUBSET rows
      /\ Of(Recent(rows, t), a) \in SUBSET rows /\ Of(Recent(rows, t), a) \subseteq Of(rows, a)
  BY DEF Recent, Of
<1>2. a \in Named(Recent(rows, t)) <=> Of(Recent(rows, t), a) # {}
  BY DEF Named, Of
<1> QED BY <1>1, <1>2, FS_Subset

\* The standings hold one entry with a positive best for each address of the week.
LEMMA StandingsType ==
    ASSUME NEW table \in SUBSET Rows, IsFiniteSet(table), NEW round, NEW t \in Nat
    PROVE  LET rows == RoundRows(table, round)
               S == Standings(table, round, t)
           IN  /\ rows \in SUBSET Rows /\ IsFiniteSet(rows)
               /\ S = {EntryOf(a, rows, t) : a \in Named(Recent(rows, t))}
               /\ Entries(S)
               /\ \A e \in S : e.address \in Addresses /\ e.best \in Nat \ {0}
               /\ \A e, f \in S : e.address = f.address => e = f
               /\ Cardinality(S) = Cardinality(Named(Recent(rows, t)))
<1> DEFINE rows == RoundRows(table, round)
           S == Standings(table, round, t)
           names == Named(Recent(rows, t))
           f == [a \in names |-> EntryOf(a, rows, t)]
<1>1. rows \in SUBSET Rows /\ IsFiniteSet(rows)
  BY FS_Subset DEF RoundRows
<1>2. S = {EntryOf(a, rows, t) : a \in names}
  BY DEF Standings, EntryOf, Named
<1>3. IsFiniteSet(names) /\ names \subseteq Addresses
  <2>1. Recent(rows, t) \in SUBSET Rows /\ IsFiniteSet(Recent(rows, t))
    BY <1>1, RowsOf
  <2> QED BY <2>1, NamedType
<1>4. S = {f[a] : a \in names} /\ f \in [names -> {f[a] : a \in names}]
  BY <1>2
<1>5. \A a, b \in names : f[a] = f[b] => a = b
  BY DEF EntryOf
<1>6. IsFiniteSet(S) /\ Cardinality(S) = Cardinality(names)
  <2> HIDE DEF f, S, names
  <2> QED BY <1>3, <1>4, <1>5, FiniteCopy
<1>7. ASSUME NEW a \in names
      PROVE  BestOf(Session(Of(rows, a))) \in Nat \ {0}
  <2>1. Of(rows, a) \in SUBSET Rows /\ IsFiniteSet(Of(rows, a)) /\ Of(rows, a) # {}
    BY <1>1, RowsOf
  <2> QED BY <2>1, SessionType, BestOfType
<1>8. \A e \in S : e.address \in Addresses /\ e.best \in Nat \ {0}
  BY <1>2, <1>3, <1>7 DEF EntryOf
<1>9. \A e, g \in S : e.address = g.address => e = g
  BY <1>2 DEF EntryOf
<1> QED BY <1>1, <1>2, <1>6, <1>8, <1>9 DEF Entries

\* Writing the ranks beside the entries neither merges nor loses one.
LEMMA RankedCount ==
    ASSUME NEW S, \A e, f \in S : e.address = f.address => e = f,
           NEW top \in SUBSET S, IsFiniteSet(top)
    PROVE  IsFiniteSet(Ranked(top, S)) /\ Cardinality(Ranked(top, S)) = Cardinality(top)
<1> DEFINE g == [e \in top |-> [address |-> e.address, best |-> e.best, rank |-> RankIn(e, S)]]
<1>1. Ranked(top, S) = {g[e] : e \in top} /\ g \in [top -> {g[e] : e \in top}]
  BY DEF Ranked
<1>2. \A e, f \in top : g[e] = g[f] => e = f
  OBVIOUS
<1> HIDE DEF g
<1> QED BY <1>1, <1>2, FiniteCopy

-----------------------------------------------------------------------------
(* The service and the pages *)

\* Of n entries shown, those of rank k or better are k, or all there are.
LEMMA PaidRowsCount ==
    ASSUME NEW S, Entries(S), \A e, f \in S : e.address = f.address => e = f,
           NEW k \in Nat, NEW n \in Nat, k <= n,
           NEW top \in Firsts(S, k), NEW page \in Firsts(S, n)
    PROVE  /\ IsFiniteSet({e \in page : RankIn(e, S) <= k})
           /\ Cardinality({e \in page : RankIn(e, S) <= k}) \in Nat
           /\ Cardinality(top) <= Cardinality({e \in page : RankIn(e, S) <= k})
           /\ Cardinality(top) < k =>
                  Cardinality({e \in page : RankIn(e, S) <= k}) = Cardinality(top)
<1> DEFINE paid == {e \in page : RankIn(e, S) <= k}
           ranked == {e \in S : RankIn(e, S) <= k}
<1>1. /\ page \subseteq S /\ IsFiniteSet(page) /\ Cardinality(page) \in Nat
      /\ Cardinality(page) = IF Cardinality(S) < n THEN Cardinality(S) ELSE n
      /\ \A e \in page, f \in S \ page : e.best >= f.best
      /\ Cardinality(S) <= n => page = S
  BY FirstsType
<1>2. /\ top \subseteq S /\ IsFiniteSet(top) /\ Cardinality(top) \in Nat /\ Cardinality(S) \in Nat
      /\ Cardinality(top) = IF Cardinality(S) < k THEN Cardinality(S) ELSE k
      /\ Cardinality(S) <= k => top = S
  BY FirstsType
<1>3. IsFiniteSet(paid) /\ Cardinality(paid) \in Nat
  BY <1>1, FS_Subset, FS_CardinalityType
<1>4. top \subseteq ranked
  BY <1>2, FirstsAreRanked
<1>5. CASE ranked \subseteq page
  <2>1. top \in SUBSET paid
    BY <1>4, <1>5
  <2>2. Cardinality(top) <= Cardinality(paid)
    BY <1>3, <2>1, FS_Subset
  <2>3. ASSUME Cardinality(top) < k
        PROVE  Cardinality(paid) = Cardinality(top)
    <3>1. top = S
      BY <1>2, <2>3
    <3>2. paid = S
      BY <1>1, <2>1, <3>1
    <3> QED BY <3>1, <3>2
  <2> QED BY <1>3, <2>2, <2>3
<1>6. CASE ~(ranked \subseteq page)
  <2>1. PICK f \in S : RankIn(f, S) <= k /\ f \notin page
    BY <1>6
  <2>2. ASSUME NEW e \in page PROVE RankIn(e, S) <= k
    <3>1. RankIn(e, S) <= RankIn(f, S)
      BY <1>1, <2>1, RankOrder DEF Entries
    <3>2. RankIn(e, S) \in Nat /\ RankIn(f, S) \in Nat
      BY RankType
    <3> QED BY <2>1, <3>1, <3>2
  <2>3. paid = page
    BY <2>2
  <2>4. ~(Cardinality(S) <= n)
    BY <1>1, <2>1
  <2>5. Cardinality(page) = n /\ Cardinality(top) = k
    BY <1>1, <1>2, <2>4
  <2> QED BY <1>3, <2>3, <2>5
<1> QED BY <1>5, <1>6

\* For every table of rows: what PaidAreShown says.
LEMMA PaidOfTableAreShown ==
    ASSUME shares \in SUBSET Rows, IsFiniteSet(shares), now \in Nat
    PROVE  PaidAreShown
<1> DEFINE S == Standings(shares, open, now)
<1>1. /\ Entries(S) /\ \A e \in S : e.best \in Nat
      /\ \A e, f \in S : e.address = f.address => e = f
  BY StandingsType DEF Entries
<1> HIDE DEF S
<1> SUFFICES ASSUME NEW T \in Firsts(S, Slots)
    PROVE  LET top == Ranked(T, S)
           IN  /\ \A E \in Firsts(S, PageRows) :
                    LET entries == Ranked(E, S)
                    IN  /\ \A e \in top \ PaidRows(entries) :
                              Cardinality({f \in S : f.best >= e.best}) > PageRows
                        /\ UnpaidRows(entries) \cap top = {}
                        /\ OpenSlots(entries) = Slots - Cardinality(top)
                        /\ \A e \in PaidRows(entries) \ top :
                              \A f \in top : e.best <= f.best /\ e.rank >= f.rank
               /\ \A H \in Firsts(S, Slots) : SlotsFilled(Ranked(H, S)) = Cardinality(top)
  BY DEF PaidAreShown, GetTop21, GetLeaderboard, S
<1> DEFINE top == Ranked(T, S)
<1>2. Slots \in Nat /\ PageRows \in Nat /\ Slots <= PageRows
  BY RowsAssumption
<1>3. /\ T \subseteq S /\ IsFiniteSet(T) /\ Cardinality(T) \in Nat /\ Cardinality(S) \in Nat
      /\ Cardinality(T) = IF Cardinality(S) < Slots THEN Cardinality(S) ELSE Slots
      /\ \A e \in T, f \in S \ T : e.best >= f.best
  BY <1>1, <1>2, FirstsType
<1>4. Cardinality(top) = Cardinality(T)
  BY <1>1, <1>3, RankedCount
<1>5. \A e \in T : RankIn(e, S) <= Slots
  BY <1>1, <1>2, FirstsAreRanked
<1>6. \A r \in top : r.rank <= Slots
  BY <1>5 DEF Ranked
<1>7. ASSUME NEW H \in Firsts(S, Slots) PROVE SlotsFilled(Ranked(H, S)) = Cardinality(top)
  <2>1. /\ H \subseteq S /\ IsFiniteSet(H)
        /\ Cardinality(H) = IF Cardinality(S) < Slots THEN Cardinality(S) ELSE Slots
    BY <1>1, <1>2, FirstsType
  <2>2. Cardinality(Ranked(H, S)) = Cardinality(H)
    BY <1>1, <2>1, RankedCount
  <2> QED BY <1>3, <1>4, <2>1, <2>2 DEF SlotsFilled
<1>8. ASSUME NEW E \in Firsts(S, PageRows)
      PROVE  LET entries == Ranked(E, S)
             IN  /\ \A e \in top \ PaidRows(entries) :
                       Cardinality({f \in S : f.best >= e.best}) > PageRows
                 /\ UnpaidRows(entries) \cap top = {}
                 /\ OpenSlots(entries) = Slots - Cardinality(top)
                 /\ \A e \in PaidRows(entries) \ top :
                       \A f \in top : e.best <= f.best /\ e.rank >= f.rank
  <2> DEFINE entries == Ranked(E, S)
             paid == {e \in E : RankIn(e, S) <= Slots}
  <2>1. /\ E \subseteq S /\ IsFiniteSet(E) /\ Cardinality(E) \in Nat
        /\ Cardinality(E) = IF Cardinality(S) < PageRows THEN Cardinality(S) ELSE PageRows
        /\ \A e \in E, f \in S \ E : e.best >= f.best
        /\ Cardinality(S) <= PageRows => E = S
    BY <1>1, <1>2, FirstsType
  <2>2. PaidRows(entries) = Ranked(paid, S)
    BY DEF PaidRows, Ranked
  <2>3. ASSUME NEW r \in top \ PaidRows(entries)
        PROVE  Cardinality({f \in S : f.best >= r.best}) > PageRows
    <3>1. PICK e \in T : r = [address |-> e.address, best |-> e.best, rank |-> RankIn(e, S)]
      BY DEF Ranked
    <3>2. e \in S /\ e \notin E
      BY <1>3, <1>6, <3>1 DEF PaidRows, Ranked
    <3>3. E \cup {e} \in SUBSET {f \in S : f.best >= r.best}
      BY <1>1, <2>1, <3>1, <3>2
    <3>4. Cardinality(E \cup {e}) = Cardinality(E) + 1
      BY <2>1, <3>2, FS_AddElement
    <3>5. IsFiniteSet({f \in S : f.best >= r.best})
      BY <1>1, FS_Subset DEF Entries
    <3>6. Cardinality(E \cup {e}) <= Cardinality({f \in S : f.best >= r.best})
      BY <3>3, <3>5, FS_Subset
    <3>7. Cardinality({f \in S : f.best >= r.best}) \in Nat
      BY <3>5, FS_CardinalityType
    <3>8. Cardinality(E) = PageRows
      BY <1>2, <1>3, <2>1, <3>2
    <3> QED BY <1>2, <3>4, <3>6, <3>7, <3>8
  <2>4. UnpaidRows(entries) \cap top = {}
    <3> SUFFICES ASSUME NEW r \in top, r.rank > Slots PROVE FALSE
      BY DEF UnpaidRows
    <3>1. PICK e \in T : r.rank = RankIn(e, S)
      BY DEF Ranked
    <3>2. RankIn(e, S) \in Nat
      BY <1>1, RankType
    <3> QED BY <1>2, <1>5, <3>1, <3>2
  <2>5. OpenSlots(entries) = Slots - Cardinality(top)
    <3>1. Cardinality(PaidRows(entries)) = Cardinality(paid)
      BY <1>1, <1>2, <1>3, <2>1, <2>2, FS_Subset, RankedCount
    <3>2. /\ Cardinality(paid) \in Nat /\ Cardinality(T) <= Cardinality(paid)
          /\ Cardinality(T) < Slots => Cardinality(paid) = Cardinality(T)
      <4>1. Entries(S) /\ \A e, f \in S : e.address = f.address => e = f
        BY <1>1
      <4> HIDE <1>1
      <4>2. Cardinality(paid) \in Nat
        BY <1>2, <4>1, PaidRowsCount
      <4>3. Cardinality(T) <= Cardinality(paid)
        BY <1>2, <4>1, PaidRowsCount
      <4>4. Cardinality(T) < Slots => Cardinality(paid) = Cardinality(T)
        BY <1>2, <4>1, PaidRowsCount
      <4> QED BY <4>2, <4>3, <4>4
    <3>3. OpenSlots(entries) = IF 0 < Slots - Cardinality(paid) THEN Slots - Cardinality(paid) ELSE 0
      BY <1>2, <3>1, <3>2, MaxOfTwo DEF OpenSlots
    <3> QED BY <1>2, <1>3, <1>4, <3>2, <3>3
  <2>6. ASSUME NEW r \in PaidRows(entries) \ top, NEW q \in top
        PROVE  r.best <= q.best /\ r.rank >= q.rank
    <3>1. PICK e \in E : r = [address |-> e.address, best |-> e.best, rank |-> RankIn(e, S)]
      BY DEF PaidRows, Ranked
    <3>2. PICK f \in T : q = [address |-> f.address, best |-> f.best, rank |-> RankIn(f, S)]
      BY DEF Ranked
    <3>3. e \in S \ T /\ f \in S
      BY <1>3, <2>1, <3>1 DEF Ranked
    <3>4. e.best <= f.best /\ e.best \in Nat /\ f.best \in Nat
      BY <1>1, <1>3, <3>3
    <3>5. RankIn(f, S) <= RankIn(e, S) /\ RankIn(f, S) \in Nat /\ RankIn(e, S) \in Nat
      BY <1>1, <3>4, RankOrder, RankType
    <3> QED BY <3>1, <3>2, <3>4, <3>5
  <2> QED BY <2>3, <2>4, <2>5, <2>6
<1> QED BY <1>7, <1>8

-----------------------------------------------------------------------------
(* The threshold of the statistics page *)

\* The list of the last seven days names the same miners as the ranking does, with no
\* better shares.
LEMMA BestPerAddressType ==
    ASSUME NEW table \in SUBSET Rows, IsFiniteSet(table), NEW round, NEW t \in Nat,
           \A s \in table : s.at <= t
    PROVE  LET B == BestPerAddress(table, round, t)
               S == Standings(table, round, t)
           IN  /\ Entries(B) /\ Cardinality(B) = Cardinality(S)
               /\ \A b, c \in B : b.address = c.address => b = c
               /\ \A b \in B : b.best \in Difficulties
               /\ \A b \in B : \E e \in S : e.address = b.address /\ b.best <= e.best
               /\ \A e \in S : \E b \in B : e.address = b.address /\ b.best <= e.best
<1> DEFINE rows == RoundRows(table, round)
           recent == Recent(rows, t)
           names == Named(recent)
           B == BestPerAddress(table, round, t)
           S == Standings(table, round, t)
           f == [a \in names |-> [address |-> a, best |-> BestOf(Of(recent, a))]]
<1>1. /\ rows \in SUBSET Rows /\ IsFiniteSet(rows)
      /\ S = {EntryOf(a, rows, t) : a \in names}
      /\ Cardinality(S) = Cardinality(names)
  BY StandingsType
<1>2. B = {f[a] : a \in names} /\ f \in [names -> {f[a] : a \in names}]
  BY DEF BestPerAddress, Named
<1>3. recent \in SUBSET Rows /\ IsFiniteSet(recent)
  BY <1>1, RowsOf
<1>4. IsFiniteSet(B) /\ Cardinality(B) = Cardinality(S)
  <2>1. IsFiniteSet(names)
    BY <1>3, NamedType
  <2>2. \A a, b \in names : f[a] = f[b] => a = b
    OBVIOUS
  <2> HIDE DEF f, B, S, names
  <2> QED BY <1>1, <1>2, <2>1, <2>2, FiniteCopy
<1>5. ASSUME NEW a \in names
      PROVE  /\ BestOf(Of(recent, a)) \in Nat /\ BestOf(Of(recent, a)) \in Difficulties
             /\ BestOf(Of(recent, a)) <= BestOf(Session(Of(rows, a)))
  <2>1. /\ Of(rows, a) \in SUBSET Rows /\ IsFiniteSet(Of(rows, a))
        /\ Of(recent, a) \in SUBSET Rows /\ IsFiniteSet(Of(recent, a))
        /\ Of(recent, a) \subseteq Of(rows, a) /\ Of(recent, a) # {}
    BY <1>1, RowsOf
  <2>2. Session(Of(rows, a)) \in SUBSET Rows /\ IsFiniteSet(Session(Of(rows, a)))
        /\ Session(Of(rows, a)) # {}
    BY <2>1, SessionType
  <2>3. PICK s \in Of(recent, a) : s.diff = BestOf(Of(recent, a))
    BY <2>1, BestOfType
  <2>4. s \in Of(rows, a) /\ t - Week < s.at
    BY <1>1, <2>1, WindowAssumption DEF Of, Recent, Rows
  <2>5. \A r \in Of(rows, a) : r.at <= t
    BY DEF Of, RoundRows
  <2>6. s \in Session(Of(rows, a))
    BY <2>1, <2>4, <2>5, RecentIsInSession
  <2>7. BestOf(Of(recent, a)) \in Nat /\ BestOf(Of(recent, a)) \in Difficulties
    BY <2>1, BestOfType
  <2>8. s.diff <= BestOf(Session(Of(rows, a)))
    BY <2>2, <2>6, BestOfType
  <2> QED BY <2>3, <2>7, <2>8
<1>6. Entries(B)
  BY <1>2, <1>4, <1>5 DEF Entries
<1>7. /\ \A b, c \in B : b.address = c.address => b = c
      /\ \A b \in B : b.best \in Difficulties
  BY <1>2, <1>5
<1>8. ASSUME NEW a \in names
      PROVE  /\ f[a] \in B /\ EntryOf(a, rows, t) \in S
             /\ f[a].address = a /\ EntryOf(a, rows, t).address = a
             /\ f[a].best <= EntryOf(a, rows, t).best
  BY <1>1, <1>2, <1>5 DEF EntryOf
<1>9. \A b \in B : \E e \in S : e.address = b.address /\ b.best <= e.best
  <2> SUFFICES ASSUME NEW a \in names PROVE \E e \in S : e.address = f[a].address /\ f[a].best <= e.best
    BY <1>2
  <2> HIDE DEF f, B, S, rows
  <2> QED BY <1>8
<1>10. \A e \in S : \E b \in B : e.address = b.address /\ b.best <= e.best
  <2> SUFFICES ASSUME NEW a \in names
               PROVE  \E b \in B : EntryOf(a, rows, t).address = b.address /\ b.best <= EntryOf(a, rows, t).best
    BY <1>1
  <2> HIDE DEF f, B, S, rows
  <2> QED BY <1>8
<1> QED BY <1>4, <1>6, <1>7, <1>9, <1>10

\* ROUND exceeds what it rounds by no more than a half, and a whole number not at all.
LEMMA RoundingUp ==
    ASSUME NEW d \in Nat
    PROVE  /\ RoundToWhole(d) \in Nat /\ 100 * RoundToWhole(d) <= d + 50
           /\ d % 100 = 0 => 100 * RoundToWhole(d) = d
<1>1. /\ d \div 100 \in Nat /\ d % 100 \in 0 .. 99 /\ d = 100 * (d \div 100) + (d % 100)
  OBVIOUS
<1> QED BY <1>1 DEF RoundToWhole

\* A number is printed as itself, or by at most half a percent too great.
LEMMA PrintedUp ==
    ASSUME NEW n \in Nat, NEW t \in FormatBestShare(n)
    PROVE  t \in Int /\ (t < 1000 => t <= n) /\ 200 * t <= 201 * n
<1>1. CASE n < 1000
  <2>1. t = n
    BY <1>1 DEF FormatBestShare
  <2> QED BY <2>1
<1>2. CASE ~(n < 1000)
  <2>1. PICK s \in Steps : /\ 100 * s <= n
                           /\ t \in (n - s) .. (n + s) /\ 2 * t \in (2 * n - s) .. (2 * n + s)
    BY <1>2 DEF FormatBestShare
  <2>2. s \in Nat
    BY StepsAssumption
  <2> QED BY <1>2, <2>1, <2>2
<1> QED BY <1>1, <1>2

\* In a table of whole numbers every difficulty is one.
LEMMA WholeDifficulties ==
    ASSUME ~KeepsFractions, NEW d \in Difficulties
    PROVE  d % 100 = 0
<1>1. PICK x \in Submitted : d = Stored(x)
  BY DEF Difficulties
<1>2. x \in Nat
  BY MinersAssumption
<1> DEFINE n == (2 * x + 100) \div 200
<1>3. n \in Nat /\ d = 100 * n
  BY <1>1, <1>2 DEF Stored
<1> HIDE DEF n
<1> QED BY <1>3

\* Of a full list nobody is below the least of the first on the list of the last seven
\* days: otherwise each of those, of whom there are as many, had a better entry in the
\* full list than he.
LEMMA LeastIsBelow ==
    ASSUME shares \in SUBSET Rows, IsFiniteSet(shares), now \in Nat,
           \A s \in shares : s.at <= now,
           NEW T \in Firsts(Standings(shares, open, now), Slots), Cardinality(T) = Slots,
           NEW e \in T
    PROVE  LET B == BestPerAddress(shares, open, now)
               first == {b \in B : RankIn(b, B) <= Slots}
               least == Min({b.best : b \in first})
           IN  first # {} => least \in Difficulties /\ e.best \in Nat /\ least <= e.best
<1> DEFINE S == Standings(shares, open, now)
           B == BestPerAddress(shares, open, now)
           first == {b \in B : RankIn(b, B) <= Slots}
           least == Min({b.best : b \in first})
<1>1. /\ Entries(S) /\ \A f, g \in S : f.address = g.address => f = g
  BY StandingsType
<1>2. /\ Entries(B) /\ Cardinality(B) = Cardinality(S)
      /\ \A b, c \in B : b.address = c.address => b = c
      /\ \A b \in B : b.best \in Difficulties
      /\ \A b \in B : \E f \in S : f.address = b.address /\ b.best <= f.best
  BY BestPerAddressType
<1>3. Slots \in Nat
  BY RowsAssumption
<1> HIDE DEF S, B
<1>4. /\ T \subseteq S /\ IsFiniteSet(T) /\ Cardinality(T) \in Nat /\ Cardinality(S) \in Nat
      /\ Cardinality(T) = IF Cardinality(S) < Slots THEN Cardinality(S) ELSE Slots
      /\ \A g \in T, f \in S \ T : g.best >= f.best
  BY <1>1, <1>3, FirstsType DEF S
<1>5. Slots <= Cardinality(first) /\ IsFiniteSet(first)
  BY <1>2, <1>3, <1>4, EnoughAreRanked
<1>6. e.best \in Nat
  BY <1>1, <1>4 DEF Entries
<1> SUFFICES ASSUME first # {} PROVE least \in Difficulties /\ least <= e.best
  BY <1>6 DEF B
<1>7. least \in Difficulties /\ least \in Nat /\ \A b \in first : least <= b.best
  <2>1. {b.best : b \in first} \in SUBSET Nat /\ {b.best : b \in first} # {}
    BY <1>2 DEF Entries
  <2>2. least \in {b.best : b \in first} /\ \A x \in {b.best : b \in first} : least <= x
    BY <2>1, MinOfNats
  <2>3. {b.best : b \in first} \subseteq Difficulties
    BY <1>2
  <2> HIDE DEF least
  <2> QED BY <2>1, <2>2, <2>3
<1> HIDE DEF least
<1> SUFFICES ASSUME ~(least <= e.best) PROVE FALSE
  BY <1>7
<1> DEFINE g == [b \in first |-> CHOOSE f \in S : f.address = b.address /\ b.best <= f.best]
<1>8. ASSUME NEW b \in first
      PROVE  g[b] \in T \ {e} /\ g[b].address = b.address
  <2>1. g[b] \in S /\ g[b].address = b.address /\ b.best <= g[b].best
    BY <1>2
  <2>2. b.best \in Nat /\ g[b].best \in Nat
    BY <1>1, <1>2, <2>1 DEF Entries
  <2>3. e.best < g[b].best
    BY <1>6, <1>7, <2>1, <2>2
  <2> HIDE DEF g
  <2> QED BY <1>4, <1>6, <2>1, <2>2, <2>3
<1>9. IsFiniteSet(T \ {e}) /\ Cardinality(T \ {e}) = Cardinality(T) - 1
  BY <1>4, FS_RemoveElement
<1>10. g \in Injection(first, T \ {e})
  <2>1. g \in [first -> T \ {e}]
    BY <1>8
  <2>2. \A b, c \in first : g[b] = g[c] => b = c
    BY <1>2, <1>8
  <2> QED BY <2>1, <2>2 DEF Injection, IsInjective
<1>11. Cardinality(first) <= Cardinality(T) - 1
  <2> HIDE DEF g, first
  <2> QED BY <1>9, <1>10, FS_Injection
<1>12. Cardinality(first) \in Nat
  BY <1>5, FS_CardinalityType
<1> HIDE DEF first
<1> QED BY <1>3, <1>4, <1>5, <1>11, <1>12

\* For every table of rows: what ThresholdNeverTooHigh says.
LEMMA ThresholdOfTable ==
    ASSUME shares \in SUBSET Rows, IsFiniteSet(shares), now \in Nat,
           \A s \in shares : s.at <= now
    PROVE  ThresholdNeverTooHigh
<1> DEFINE S == Standings(shares, open, now)
           B == BestPerAddress(shares, open, now)
           first == {b \in B : RankIn(b, B) <= Slots}
           least == Min({b.best : b \in first})
           minTop21 == MinTop21(shares, open, now)
<1>1. /\ Entries(S) /\ \A e, f \in S : e.address = f.address => e = f
  BY StandingsType
<1>2. minTop21 = IF first = {} THEN 0 ELSE RoundToWhole(least)
  BY DEF MinTop21
<1>3. Slots \in Nat
  BY RowsAssumption
<1> SUFFICES ASSUME minTop21 # 0, NEW t \in FormatBestShare(minTop21),
                    NEW T \in Firsts(S, Slots), Cardinality(T) = Slots, NEW e \in T
             PROVE  IF t < 1000 THEN 100 * t <= e.best + Rounded
                    ELSE 200 * (100 * t) <= 201 * (e.best + Rounded)
  <2>1. \A T \in Firsts(S, Slots) : Cardinality(Ranked(T, S)) = Cardinality(T)
    BY <1>1, <1>3, FirstsType, RankedCount
  <2>2. \A T \in Firsts(S, Slots) : \A r \in Ranked(T, S) : \E e \in T : r.best = e.best
    BY DEF Ranked
  <2> HIDE DEF S, minTop21
  <2> QED BY <2>1, <2>2 DEF ThresholdNeverTooHigh, MinShareToEnter, GetTop21, S, minTop21
<1>4. first # {} /\ minTop21 = RoundToWhole(least)
  BY <1>2
<1>5. least \in Difficulties /\ e.best \in Nat /\ least <= e.best
  BY <1>4, LeastIsBelow
<1> HIDE DEF S, first, least, minTop21
<1>6. minTop21 \in Nat /\ 100 * minTop21 <= least + Rounded /\ least \in Nat
  <2>1. least \in Nat
    BY <1>5, DifficultiesType
  <2>2. CASE KeepsFractions
    BY <1>4, <2>1, <2>2, RoundingUp DEF Rounded
  <2>3. CASE ~KeepsFractions
    BY <1>4, <1>5, <2>1, <2>3, RoundingUp, WholeDifficulties DEF Rounded
  <2> QED BY <2>1, <2>2, <2>3
<1>7. t \in Int /\ (t < 1000 => t <= minTop21) /\ 200 * t <= 201 * minTop21
  BY <1>6, PrintedUp
<1>8. Rounded \in Nat
  BY DEF Rounded
<1> QED BY <1>5, <1>6, <1>7, <1>8

-----------------------------------------------------------------------------
(* A miner's place, by his own rows alone *)

BestFrom(mine) == IF mine = {} THEN 0 ELSE BestOf(Session(mine))
SeenIn(mine) == IF mine = {} THEN 0 ELSE LastSeen(mine)

OnBoard(mine, t) == mine # {} /\ t - SeenIn(mine) < Week

\* A miner's best is zero exactly when he has no row, and he was not seen after now.
LEMMA MineType ==
    ASSUME NEW mine \in SUBSET Rows, IsFiniteSet(mine), NEW t \in Nat,
           \A s \in mine : s.at <= t
    PROVE  /\ BestFrom(mine) \in Nat /\ SeenIn(mine) \in Nat /\ SeenIn(mine) <= t
           /\ BestFrom(mine) > 0 <=> mine # {}
<1>1. CASE mine = {}
  BY <1>1 DEF BestFrom, SeenIn
<1>2. CASE mine # {}
  <2>1. BestFrom(mine) \in Nat \ {0}
    BY <1>2, SessionType, BestOfType DEF BestFrom
  <2>2. SeenIn(mine) \in Nat /\ SeenIn(mine) <= t
    BY <1>2, LastSeenType DEF SeenIn
  <2> QED BY <1>2, <2>1, <2>2
<1> QED BY <1>1, <1>2

\* The ranking has one entry for a miner who was seen within the week, and none for
\* another.
LEMMA EntriesOfMiner ==
    ASSUME NEW table \in SUBSET Rows, IsFiniteSet(table), NEW round, NEW t \in Nat,
           \A s \in table : s.at <= t, NEW a
    PROVE  LET mine == Of(RoundRows(table, round), a)
           IN  {f \in Standings(table, round, t) : f.address = a} =
                  IF OnBoard(mine, t)
                  THEN {[address |-> a, best |-> BestFrom(mine), lastSeen |-> SeenIn(mine)]}
                  ELSE {}
<1> DEFINE rows == RoundRows(table, round)
           recent == Recent(rows, t)
           mine == Of(rows, a)
           S == Standings(table, round, t)
<1>1. rows \in SUBSET Rows /\ IsFiniteSet(rows) /\ S = {EntryOf(b, rows, t) : b \in Named(recent)}
  BY StandingsType
<1>2. /\ mine \in SUBSET Rows /\ IsFiniteSet(mine)
      /\ Of(recent, a) \in SUBSET Rows /\ IsFiniteSet(Of(recent, a))
      /\ a \in Named(recent) <=> Of(recent, a) # {}
  BY <1>1, RowsOf
<1>3. {f \in S : f.address = a} = IF a \in Named(recent) THEN {EntryOf(a, rows, t)} ELSE {}
  BY <1>1 DEF EntryOf
<1>4. Of(recent, a) = {s \in mine : s.at > t - Week}
  BY DEF Recent, Of
<1>5. CASE mine = {}
  BY <1>2, <1>3, <1>4, <1>5 DEF OnBoard
<1>6. CASE mine # {}
  <2>1. PICK s \in mine : s.at = LastSeen(mine) /\ \A r \in mine : r.at <= s.at
    BY <1>2, <1>6, LastSeenType
  <2>2. SeenIn(mine) = s.at /\ s.at \in Nat
    BY <1>2, <1>6, <2>1 DEF SeenIn, Rows
  <2>3. Of(recent, a) # {} <=> t - s.at < Week
    BY <1>2, <1>4, <2>1, <2>2, WindowAssumption DEF Rows
  <2>4. ASSUME t - s.at < Week PROVE LastSeen(Of(recent, a)) = s.at
    <3>1. s \in Of(recent, a)
      BY <1>4, <2>2, <2>4, WindowAssumption
    <3>2. \A r \in Of(recent, a) : r.at <= s.at
      BY <1>4, <2>1
    <3> QED BY <1>2, <2>2, <3>1, <3>2, LastSeenIs
  <2>5. ASSUME t - s.at < Week
        PROVE  EntryOf(a, rows, t) = [address |-> a, best |-> BestFrom(mine), lastSeen |-> SeenIn(mine)]
    BY <1>6, <2>2, <2>4, <2>5 DEF EntryOf, BestFrom
  <2> QED BY <1>2, <1>3, <1>6, <2>2, <2>3, <2>5 DEF OnBoard
<1> QED BY <1>5, <1>6

\* A share that comes within a week joins the session.
LEMMA ShareJoinsSession ==
    ASSUME NEW mine \in SUBSET Rows, IsFiniteSet(mine), mine # {}, NEW s \in Rows,
           \A r \in mine : r.at <= s.at, s.at - LastSeen(mine) <= Week
    PROVE  Session(mine \cup {s}) = Session(mine) \cup {s}
<1>1. PICK q \in mine : q.at = LastSeen(mine) /\ \A r \in mine : r.at <= q.at
  BY LastSeenType
<1>2. q.at \in Nat /\ s.at \in Nat /\ q.at <= s.at /\ s.at - q.at <= Week /\ \A r \in mine : r.at \in Nat
  BY <1>1 DEF Rows
<1>3. \A r \in mine : r \in SessionStarts(mine \cup {s}) <=> r \in SessionStarts(mine)
  BY <1>2 DEF SessionStarts
<1>4. s \in SessionStarts(mine \cup {s}) => q \in SessionStarts(mine) /\ q.at = s.at
  <2> SUFFICES ASSUME s \in SessionStarts(mine \cup {s})
               PROVE  q \in SessionStarts(mine) /\ q.at = s.at
    OBVIOUS
  <2>1. /\ \E p \in mine : p.at < s.at
        /\ \A p \in mine : p.at < s.at => s.at - p.at > Week
    BY <1>2 DEF SessionStarts
  <2>2. q.at = s.at
    BY <1>2, <2>1, WindowAssumption
  <2> QED BY <2>1, <2>2 DEF SessionStarts
<1>5. SessionStarts(mine \cup {s}) \subseteq mine \cup {s} /\ SessionStarts(mine) \subseteq mine
  BY DEF SessionStarts
<1>6. \A r \in mine : r \in Session(mine \cup {s}) <=> r \in Session(mine)
  BY <1>3, <1>4, <1>5 DEF Session
<1>7. s \in Session(mine \cup {s})
  <2>1. \A r \in SessionStarts(mine \cup {s}) : s.at >= r.at
    BY <1>2, <1>5
  <2> QED BY <2>1 DEF Session
<1> QED BY <1>6, <1>7 DEF Session

\* One that comes after more than a week of silence, or is the first, starts anew.
LEMMA ShareStartsSession ==
    ASSUME NEW mine \in SUBSET Rows, IsFiniteSet(mine), NEW s \in Rows,
           mine # {} => s.at - LastSeen(mine) > Week
    PROVE  Session(mine \cup {s}) = {s}
<1>1. \A r \in mine : r.at \in Nat /\ s.at \in Nat /\ s.at - r.at > Week /\ r.at < s.at
  <2> SUFFICES ASSUME NEW r \in mine PROVE r.at \in Nat /\ s.at \in Nat /\ s.at - r.at > Week
    BY WindowAssumption
  <2>1. r.at <= LastSeen(mine) /\ LastSeen(mine) \in Nat
    BY LastSeenType
  <2> QED BY <2>1, WindowAssumption DEF Rows
<1>2. s.at \in Nat
  BY DEF Rows
<1>3. CASE mine = {}
  BY <1>2, <1>3 DEF Session, SessionStarts
<1>4. CASE mine # {}
  <2>1. s \in SessionStarts(mine \cup {s})
    BY <1>1, <1>2, <1>4 DEF SessionStarts
  <2>2. \A r \in mine : r \notin Session(mine \cup {s}) 
    BY <1>1, <2>1 DEF Session
  <2>3. s \in Session(mine \cup {s})
    BY <1>1, <1>2 DEF Session, SessionStarts
  <2> QED BY <2>2, <2>3 DEF Session
<1> QED BY <1>3, <1>4

\* What a new share makes of a miner's place: LiveBoard's Submit.
LEMMA ShareCounts ==
    ASSUME NEW mine \in SUBSET Rows, IsFiniteSet(mine), NEW s \in Rows,
           \A r \in mine : r.at <= s.at
    PROVE  /\ SeenIn(mine \cup {s}) = s.at
           /\ BestFrom(mine \cup {s}) =
                 IF s.at - SeenIn(mine) <= Week /\ BestFrom(mine) > s.diff
                 THEN BestFrom(mine) ELSE s.diff
<1>1. mine \cup {s} \in SUBSET Rows /\ IsFiniteSet(mine \cup {s}) /\ mine \cup {s} # {}
  BY FS_AddElement
<1>2. s.at \in Nat /\ s.diff \in Nat /\ s.diff > 0
  <2>1. s.at \in Nat /\ s.diff \in Difficulties
    BY DEF Rows
  <2>2. s.diff \in Nat \ {0}
    BY <2>1, DifficultiesType
  <2> QED BY <2>1, <2>2
<1>3. SeenIn(mine \cup {s}) = s.at
  BY <1>1, <1>2, LastSeenIs DEF SeenIn
<1>4. BestFrom(mine \cup {s}) = BestOf(Session(mine \cup {s}))
  BY DEF BestFrom
<1>5. /\ Session(mine \cup {s}) \in SUBSET Rows /\ IsFiniteSet(Session(mine \cup {s}))
  BY <1>1, SessionType
<1>6. CASE mine # {} /\ s.at - LastSeen(mine) <= Week
  <2>1. Session(mine \cup {s}) = Session(mine) \cup {s}
    BY <1>6, ShareJoinsSession
  <2>2. /\ BestFrom(mine) \in Nat /\ \E r \in Session(mine) : r.diff = BestFrom(mine)
        /\ \A r \in Session(mine) : r.diff <= BestFrom(mine)
        /\ \A r \in Session(mine) : r.diff \in Nat
    BY <1>6, SessionType, BestOfType, DifficultiesType DEF BestFrom, Rows
  <2> DEFINE d == IF BestFrom(mine) > s.diff THEN BestFrom(mine) ELSE s.diff
  <2>3. /\ d \in Nat /\ \E r \in Session(mine) \cup {s} : r.diff = d
        /\ \A r \in Session(mine) \cup {s} : r.diff <= d
    BY <1>2, <2>2
  <2>4. BestFrom(mine \cup {s}) = d
    BY <1>4, <1>5, <2>1, <2>3, BestOfIs
  <2> QED BY <1>3, <1>6, <2>4 DEF SeenIn
<1>7. CASE ~(mine # {} /\ s.at - LastSeen(mine) <= Week)
  <2>1. mine # {} => LastSeen(mine) \in Nat
    BY LastSeenType
  <2>2. Session(mine \cup {s}) = {s}
    BY <1>2, <1>7, <2>1, ShareStartsSession, WindowAssumption
  <2>3. BestFrom(mine \cup {s}) = s.diff
    <3>1. \A r \in {s} : r.diff <= s.diff
      BY <1>2
    <3>2. BestOf({s}) = s.diff
      BY <1>2, <1>5, <2>2, <3>1, BestOfIs
    <3> QED BY <1>4, <2>2, <3>2
  <2>4. s.at - SeenIn(mine) <= Week => mine = {} /\ BestFrom(mine) = 0
    BY <1>7 DEF SeenIn, BestFrom
  <2> QED BY <1>2, <1>3, <2>3, <2>4
<1> QED BY <1>6, <1>7

\* What getMinerStats answers of his place, and the card of his page.
LEMMA StatsOfMiner ==
    ASSUME NEW table \in SUBSET Rows, IsFiniteSet(table), NEW round, NEW t \in Nat,
           \A s \in table : s.at <= t, NEW a
    PROVE  LET mine == Of(RoundRows(table, round), a)
               S == Standings(table, round, t)
               entry == [address |-> a, best |-> BestFrom(mine), lastSeen |-> SeenIn(mine)]
           IN  MinerStats(a, table, round, t) =
                  IF OnBoard(mine, t)
                  THEN {[rank |-> RankIn(entry, S), best |-> BestFrom(mine), lastSeen |-> SeenIn(mine)]}
                  ELSE {}
<1> DEFINE mine == Of(RoundRows(table, round), a)
           S == Standings(table, round, t)
           entry == [address |-> a, best |-> BestFrom(mine), lastSeen |-> SeenIn(mine)]
<1>1. {f \in S : f.address = a} = IF OnBoard(mine, t) THEN {entry} ELSE {}
  BY EntriesOfMiner
<1>2. MinerStats(a, table, round, t) =
         {[rank |-> RankIn(e, S), best |-> e.best, lastSeen |-> e.lastSeen] : e \in {f \in S : f.address = a}}
  BY DEF MinerStats
<1>3. entry.best = BestFrom(mine) /\ entry.lastSeen = SeenIn(mine)
  OBVIOUS
<1> HIDE DEF S, entry
<1>4. ASSUME OnBoard(mine, t)
      PROVE  MinerStats(a, table, round, t) =
                {[rank |-> RankIn(entry, S), best |-> BestFrom(mine), lastSeen |-> SeenIn(mine)]}
  <2>1. {f \in S : f.address = a} = {entry}
    BY <1>1, <1>4
  <2> HIDE DEF mine
  <2> QED BY <1>2, <1>3, <2>1
<1>5. ASSUME ~OnBoard(mine, t)
      PROVE  MinerStats(a, table, round, t) = {}
  BY <1>1, <1>2, <1>5
<1> QED BY <1>4, <1>5 DEF entry, S

\* The card of a miner: shown with a best share in the week, its time counted down.
LEMMA CardOfMiner ==
    ASSUME NEW table \in SUBSET Rows, IsFiniteSet(table), NEW round, NEW t \in Nat,
           \A s \in table : s.at <= t, NEW a
    PROVE  LET mine == Of(RoundRows(table, round), a)
           IN  MinerCard(MinerStats(a, table, round, t), t) =
                  IF BestFrom(mine) > 0 /\ t - SeenIn(mine) < Week
                  THEN {[best |-> BestFrom(mine), expiresIn |-> SeenIn(mine) + Week - t]}
                  ELSE {}
<1> DEFINE mine == Of(RoundRows(table, round), a)
<1>1. mine \in SUBSET Rows /\ IsFiniteSet(mine) /\ \A s \in mine : s.at <= t
  BY FS_Subset DEF Of, RoundRows
<1>2. /\ BestFrom(mine) \in Nat /\ SeenIn(mine) \in Nat /\ SeenIn(mine) <= t
      /\ BestFrom(mine) > 0 <=> mine # {}
  BY <1>1, MineType
<1>3. CASE OnBoard(mine, t)
  <2>1. PICK r : MinerStats(a, table, round, t) =
                    {[rank |-> r, best |-> BestFrom(mine), lastSeen |-> SeenIn(mine)]}
    BY <1>3, StatsOfMiner
  <2>2. TimeUntilExpiry(SeenIn(mine), t) = SeenIn(mine) + Week - t
    <3>1. SeenIn(mine) + Week - t \in Int /\ 0 < SeenIn(mine) + Week - t
      BY <1>2, <1>3, WindowAssumption DEF OnBoard
    <3> QED BY <3>1, MaxOfTwo DEF TimeUntilExpiry
  <2>3. MinerCard(MinerStats(a, table, round, t), t) =
           {[best |-> BestFrom(mine), expiresIn |-> TimeUntilExpiry(SeenIn(mine), t)]}
    BY <2>1 DEF MinerCard
  <2> QED BY <1>2, <1>3, <2>2, <2>3 DEF OnBoard
<1>4. CASE ~OnBoard(mine, t)
  <2>1. MinerStats(a, table, round, t) = {}
    BY <1>4, StatsOfMiner
  <2> QED BY <1>2, <1>4, <2>1 DEF OnBoard, MinerCard
<1> QED BY <1>3, <1>4

-----------------------------------------------------------------------------
(* The table as time passes *)

\* The shares table holds rows of rounds that were opened, at times that have come.
TableInv ==
    /\ now \in Nat /\ open \in Nat \ {0}
    /\ shares \in SUBSET Rows /\ IsFiniteSet(shares)
    /\ \A s \in shares : s.at <= now /\ s.round <= open

\* The empty table satisfies the invariant.
LEMMA InitTableInv == Init => TableInv
  BY FS_EmptySet DEF Init, TableInv

\* A share that is inserted is a row of the table and keeps the invariant.
LEMMA InsertStep ==
    ASSUME TableInv, NEW a \in Addresses, NEW d \in Difficulties,
           NEW round \in {open, open - 1} \ {0}, Insert(a, d, round)
    PROVE  /\ [address |-> a, round |-> round, diff |-> d, at |-> now] \in Rows
           /\ TableInv'
<1> DEFINE row == [address |-> a, round |-> round, diff |-> d, at |-> now]
<1>1. row \in Rows /\ round <= open
  BY DEF TableInv, Rows
<1>2. shares' = shares \cup {row} /\ now' = now /\ open' = open
  BY DEF Insert
<1>3. IsFiniteSet(shares')
  BY <1>2, FS_AddElement DEF TableInv
<1> QED BY <1>1, <1>2, <1>3 DEF TableInv

\* Every step keeps the invariant of the table.
LEMMA NextTableInv == TableInv /\ [Next]_vars => TableInv'
<1> SUFFICES ASSUME TableInv, [Next]_vars PROVE TableInv'
  OBVIOUS
<1>1. ASSUME NEW a \in Addresses, NEW d \in Difficulties,
             NEW round \in {open, open - 1} \ {0}, Insert(a, d, round)
      PROVE  TableInv'
  BY <1>1, InsertStep
<1>2. CASE NewRound
  <2>1. \A s \in shares : s.round \in Nat
    BY DEF TableInv, Rows
  <2> QED BY <1>2, <2>1 DEF TableInv, NewRound
<1>3. CASE Pass
  <2>1. \A s \in shares : s.at \in Nat
    BY DEF TableInv, Rows
  <2> QED BY <1>3, <2>1 DEF TableInv, Pass
<1>4. CASE UNCHANGED vars
  BY <1>4 DEF TableInv, vars
<1> QED BY <1>1, <1>2, <1>3, <1>4 DEF Next

\* The invariant of the table holds in every state.
LEMMA TableInvariant == Spec => []TableInv
  BY InitTableInv, NextTableInv, PTL DEF Spec

\* Whoever the service pays is above the line of the leaderboard page (PaidAreShown).
THEOREM PaidMinersAreShown == Spec => []PaidAreShown
<1>1. TableInv => PaidAreShown
  BY PaidOfTableAreShown DEF TableInv
<1> QED BY <1>1, TableInvariant, PTL

\* The threshold of the statistics page keeps nobody out but by what it is rounded by
\* (ThresholdNeverTooHigh): half a difficulty if the table keeps fractions, and the two
\* decimals of its printing.
THEOREM ThresholdIsNeverTooHigh == Spec => []ThresholdNeverTooHigh
<1>1. TableInv => ThresholdNeverTooHigh
  BY ThresholdOfTable DEF TableInv
<1> QED BY <1>1, TableInvariant, PTL

-----------------------------------------------------------------------------
(* The refinement of LiveBoard *)

\* Best, Seen and the card of LivePromise in terms of a miner's own rows, in any state.
LEMMA PlaceOf ==
    ASSUME NEW a
    PROVE  /\ Best(a) = BestFrom(Mine(a)) /\ Seen(a) = SeenIn(Mine(a))
           /\ Mine(a) = Of(RoundRows(shares, open), a)
           /\ Stats(a) = MinerStats(a, shares, open, now)
  BY DEF Best, Seen, BestFrom, SeenIn, Mine, Stats

\* The board is what LiveBoard tells.
LEMMA BoardIsTold ==
    TableInv => [a \in Addresses |-> MinerCard(Stats(a), now)]
                   = LivePromise!Told([a \in Addresses |-> Best(a)], [a \in Addresses |-> Seen(a)], now)
<1> SUFFICES ASSUME TableInv, NEW a \in Addresses
             PROVE  MinerCard(Stats(a), now) =
                       IF Best(a) > 0 /\ now - Seen(a) < Week
                       THEN {[best |-> Best(a), expiresIn |-> Seen(a) + Week - now]}
                       ELSE {}
  BY DEF LivePromise!Told
<1>1. LET mine == Of(RoundRows(shares, open), a)
      IN  MinerCard(MinerStats(a, shares, open, now), now) =
             IF BestFrom(mine) > 0 /\ now - SeenIn(mine) < Week
             THEN {[best |-> BestFrom(mine), expiresIn |-> SeenIn(mine) + Week - now]}
             ELSE {}
  BY CardOfMiner DEF TableInv
<1> QED BY <1>1, PlaceOf

\* An empty table starts LiveBoard.
LEMMA LiveInit == Init => LivePromise!Init
<1> SUFFICES ASSUME Init PROVE LivePromise!Init
  OBVIOUS
<1>1. \A a \in Addresses : Mine(a) = {}
  BY DEF Init, Mine, Of, RoundRows
<1>2. \A a \in Addresses : Best(a) = 0 /\ Seen(a) = 0
  BY <1>1 DEF Best, Seen
<1>3. TableInv
  BY InitTableInv
<1> QED BY <1>2, <1>3, BoardIsTold DEF LivePromise!Init, Init

\* The board after a step is what LiveBoard tells then.
LEMMA BoardIsToldNext ==
    TableInv' => ([a \in Addresses |-> MinerCard(Stats(a), now)]
                   = LivePromise!Told([a \in Addresses |-> Best(a)], [a \in Addresses |-> Seen(a)], now))'
  BY BoardIsTold, PTL

\* An insert into the open round is a Submit of LiveBoard; a late one leaves the board alone.
LEMMA LiveInsert ==
    ASSUME TableInv, NEW a \in Addresses, NEW d \in Difficulties,
           NEW round \in {open, open - 1} \ {0}, Insert(a, d, round)
    PROVE  [LivePromise!Next]_(LivePromise!liveboard)
<1> DEFINE row == [address |-> a, round |-> round, diff |-> d, at |-> now]
<1>1. /\ row \in Rows /\ TableInv'
      /\ shares' = shares \cup {row} /\ now' = now /\ open' = open
      /\ last' = IF round = open THEN d ELSE last
  BY InsertStep DEF Insert
<1>2. CASE round = open
  <2>1. \A b \in Addresses : Mine(b)' = IF b = a THEN Mine(b) \cup {row} ELSE Mine(b)
    BY <1>1, <1>2 DEF Mine, Of, RoundRows
  <2>2. Mine(a) \in SUBSET Rows /\ IsFiniteSet(Mine(a)) /\ \A s \in Mine(a) : s.at <= now
    BY FS_Subset DEF TableInv, Mine, Of, RoundRows
  <2>3. /\ Seen(a)' = now
        /\ Best(a)' = IF now - Seen(a) <= Week /\ Best(a) > d THEN Best(a) ELSE d
    <3>1. /\ SeenIn(Mine(a) \cup {row}) = now
          /\ BestFrom(Mine(a) \cup {row}) =
                IF now - SeenIn(Mine(a)) <= Week /\ BestFrom(Mine(a)) > d
                THEN BestFrom(Mine(a)) ELSE d
      BY <1>1, <2>2, ShareCounts
    <3>2. Mine(a)' = Mine(a) \cup {row}
      BY <2>1
    <3>3. Seen(a)' = SeenIn(Mine(a)') /\ Best(a)' = BestFrom(Mine(a)')
      BY DEF Best, Seen, BestFrom, SeenIn
    <3> QED BY <3>1, <3>2, <3>3, PlaceOf
  <2>4. \A b \in Addresses : b # a => Seen(b)' = Seen(b) /\ Best(b)' = Best(b)
    BY <2>1 DEF Seen, Best
  <2>5. LivePromise!Submit(a, d)
    BY <1>1, <1>2, <2>3, <2>4 DEF LivePromise!Submit
  <2> QED BY <1>1, <2>5, BoardIsToldNext DEF LivePromise!Next
<1>3. CASE round # open
  <2>1. \A b \in Addresses : Mine(b)' = Mine(b)
    BY <1>1, <1>3 DEF Mine, Of, RoundRows
  <2>2. \A b \in Addresses : Seen(b)' = Seen(b) /\ Best(b)' = Best(b)
    BY <2>1 DEF Seen, Best
  <2>3. LivePromise!Told([b \in Addresses |-> Best(b)], [b \in Addresses |-> Seen(b)], now)'
          = LivePromise!Told([b \in Addresses |-> Best(b)], [b \in Addresses |-> Seen(b)], now)
    BY <1>1, <2>2 DEF LivePromise!Told
  <2> QED BY <1>1, <1>3, <2>2, <2>3, BoardIsTold, BoardIsToldNext DEF LivePromise!liveboard
<1> QED BY <1>2, <1>3

\* A new round is the WinBlock of LiveBoard.
LEMMA LiveNewRound ==
    ASSUME TableInv, NewRound
    PROVE  [LivePromise!Next]_(LivePromise!liveboard)
<1>1. TableInv'
  BY NextTableInv DEF Next
<1>2. \A s \in shares : s.round # open + 1
  BY DEF TableInv, Rows
<1>3. \A b \in Addresses : Mine(b)' = {}
  BY <1>2 DEF Mine, Of, RoundRows, NewRound
<1>4. \A b \in Addresses : Best(b)' = 0 /\ Seen(b)' = 0
  BY <1>3 DEF Best, Seen
<1>5. LivePromise!WinBlock
  BY <1>4 DEF LivePromise!WinBlock, NewRound
<1> QED BY <1>1, <1>5, BoardIsToldNext DEF LivePromise!Next

\* Time that passes is the Pass of LiveBoard.
LEMMA LivePass ==
    ASSUME TableInv, Pass
    PROVE  [LivePromise!Next]_(LivePromise!liveboard)
<1>1. TableInv'
  BY NextTableInv DEF Next
<1>2. \A b \in Addresses : Mine(b)' = Mine(b)
  BY DEF Mine, Pass
<1>3. \A b \in Addresses : Seen(b)' = Seen(b) /\ Best(b)' = Best(b)
  BY <1>2 DEF Seen, Best
<1>4. CASE now < MaxTime
  <2>1. LivePromise!Pass
    BY <1>3, <1>4 DEF LivePromise!Pass, Pass
  <2> QED BY <1>1, <2>1, BoardIsToldNext DEF LivePromise!Next
<1>5. CASE ~(now < MaxTime)
  <2>1. UNCHANGED <<now, open, shares, last>>
    BY <1>5 DEF Pass
  <2>2. \A b \in Addresses : Stats(b)' = Stats(b)
    BY <2>1 DEF Stats
  <2> QED BY <1>3, <2>1, <2>2 DEF LivePromise!liveboard
<1> QED BY <1>4, <1>5

\* What a miner's page says of his place follows the pool's promise at every step
\* (ImplementsLiveBoard): the sessions found anew from the gaps between rows come to the
\* same as a best share that is kept, restarted after a week of silence, and wiped.
THEOREM LeaderboardImplementsLiveBoard == Spec => ImplementsLiveBoard
<1>1. TableInv /\ [Next]_vars => [LivePromise!Next]_(LivePromise!liveboard)
  <2> SUFFICES ASSUME TableInv, [Next]_vars
               PROVE  [LivePromise!Next]_(LivePromise!liveboard)
    OBVIOUS
  <2>1. CASE UNCHANGED vars
    <3>1. UNCHANGED <<now, open, shares, last>>
      BY <2>1 DEF vars
    <3>2. \A b \in Addresses : Mine(b)' = Mine(b) /\ Stats(b)' = Stats(b)
      BY <3>1 DEF Mine, Stats
    <3>3. \A b \in Addresses : Best(b)' = Best(b) /\ Seen(b)' = Seen(b)
      BY <3>2 DEF Best, Seen
    <3> QED BY <3>1, <3>2, <3>3 DEF LivePromise!liveboard
  <2> QED BY <2>1, LiveInsert, LiveNewRound, LivePass DEF Next
<1> QED BY <1>1, LiveInit, TableInvariant, PTL DEF Spec, ImplementsLiveBoard, LivePromise!Spec

-----------------------------------------------------------------------------
(* A slot holds *)

\* A rank is no worse than another, in other standings, when everybody better was
\* better than the other before.
LEMMA RankNotWorse ==
    ASSUME NEW S, Entries(S), NEW S2, Entries(S2), NEW e, NEW e2,
           \A f, g \in S2 : f.address = g.address => f = g,
           \A f \in S2 : f.best > e2.best => \E g \in S : g.address = f.address /\ g.best > e.best
    PROVE  RankIn(e2, S2) <= RankIn(e, S)
<1> DEFINE better == {g \in S : g.best > e.best}
           better2 == {f \in S2 : f.best > e2.best}
           h == [f \in better2 |-> CHOOSE g \in better : g.address = f.address]
<1>1. \A f \in better2 : h[f] \in better /\ h[f].address = f.address
  OBVIOUS
<1>2. h \in Injection(better2, better)
  <2>1. h \in [better2 -> better]
    BY <1>1
  <2>2. \A f, g \in better2 : h[f] = h[g] => f = g
    <3> SUFFICES ASSUME NEW f \in better2, NEW g \in better2, h[f] = h[g] PROVE f = g
      OBVIOUS
    <3>1. f.address = g.address
      BY <1>1
    <3> HIDE DEF h
    <3> QED BY <3>1
  <2> QED BY <2>1, <2>2 DEF Injection, IsInjective
<1>3. /\ IsFiniteSet(better) /\ Cardinality(better) \in Nat
      /\ RankIn(e, S) = 1 + Cardinality(better)
  BY RankType
<1>4. Cardinality(better2) \in Nat /\ RankIn(e2, S2) = 1 + Cardinality(better2)
  BY RankType
<1>5. Cardinality(better2) <= Cardinality(better)
  <2> HIDE DEF h, better, better2
  <2> QED BY <1>2, <1>3, FS_Injection
<1> QED BY <1>3, <1>4, <1>5

\* A miner's row of the standings, if he has one.
Place(a, table, round, t) ==
    LET mine == Of(RoundRows(table, round), a)
    IN  [address |-> a, best |-> BestFrom(mine), lastSeen |-> SeenIn(mine)]

\* The standings are the places of the addresses that are on the board.
LEMMA PlaceInStandings ==
    ASSUME NEW table \in SUBSET Rows, IsFiniteSet(table), NEW round, NEW t \in Nat,
           \A s \in table : s.at <= t
    PROVE  LET S == Standings(table, round, t)
           IN  /\ \A f \in S : /\ f.address \in Addresses
                               /\ OnBoard(Of(RoundRows(table, round), f.address), t)
                               /\ f = Place(f.address, table, round, t)
               /\ \A a : OnBoard(Of(RoundRows(table, round), a), t) => Place(a, table, round, t) \in S
<1> DEFINE S == Standings(table, round, t)
<1>1. \A a : {f \in S : f.address = a} =
                  IF OnBoard(Of(RoundRows(table, round), a), t) THEN {Place(a, table, round, t)} ELSE {}
  BY EntriesOfMiner DEF Place
<1>2. \A f \in S : f.address \in Addresses
  BY StandingsType
<1> HIDE DEF S
<1>3. ASSUME NEW f \in S
      PROVE  /\ OnBoard(Of(RoundRows(table, round), f.address), t)
             /\ f = Place(f.address, table, round, t)
  <2>1. f \in {g \in S : g.address = f.address}
    OBVIOUS
  <2> QED BY <1>1, <2>1
<1>4. ASSUME NEW a, OnBoard(Of(RoundRows(table, round), a), t)
      PROVE  Place(a, table, round, t) \in S
  BY <1>1, <1>4
<1> QED BY <1>2, <1>3, <1>4 DEF S

\* getMinerStats' answer now, and after the step.
LEMMA StatsNow ==
    ASSUME TableInv, NEW a
    PROVE  Stats(a) = IF OnBoard(Mine(a), now)
                      THEN {[rank |-> RankIn(Place(a, shares, open, now), Standings(shares, open, now)),
                             best |-> BestFrom(Mine(a)), lastSeen |-> SeenIn(Mine(a))]}
                      ELSE {}
  BY StatsOfMiner DEF TableInv, Stats, Mine, Place

\* A miner's statistics after a step, from the table after it.
LEMMA StatsNext ==
    ASSUME TableInv', NEW a
    PROVE  Stats(a)' = IF OnBoard(Mine(a)', now')
                       THEN {[rank |-> RankIn(Place(a, shares', open', now'), Standings(shares', open', now')),
                              best |-> BestFrom(Mine(a)'), lastSeen |-> SeenIn(Mine(a)')]}
                       ELSE {}
  BY StatsOfMiner DEF TableInv, Stats, Mine, Place

\* Somebody was better than a miner is, or got better than he is, for each one who is.
LEMMA HeldRank ==
    ASSUME TableInv, TableInv', NEW a \in Addresses, NEW old \in Stats(a),
           OnBoard(Mine(a)', now'), BestFrom(Mine(a)') >= BestFrom(Mine(a))
    PROVE  \E new \in Stats(a)' :
              \/ new.rank <= old.rank
              \/ \E b \in Addresses : \E better \in Stats(b)' :
                    /\ better.best > new.best
                    /\ \A before \in Stats(b) : better.best > before.best
<1> DEFINE S == Standings(shares, open, now)
           S2 == Standings(shares', open', now')
           e == Place(a, shares, open, now)
           e2 == Place(a, shares', open', now')
           new == [rank |-> RankIn(e2, S2), best |-> BestFrom(Mine(a)'), lastSeen |-> SeenIn(Mine(a)')]
<1>1. /\ Entries(S) /\ Entries(S2)
      /\ \A f, g \in S2 : f.address = g.address => f = g
  BY StandingsType DEF TableInv
<1>2. /\ \A f \in S2 : f.address \in Addresses /\ OnBoard(Mine(f.address)', now')
                       /\ f = Place(f.address, shares', open', now')
      /\ \A b : OnBoard(Mine(b), now) => Place(b, shares, open, now) \in S
  BY PlaceInStandings DEF TableInv, Mine
<1>3. /\ \A b : Place(b, shares, open, now).best = BestFrom(Mine(b))
      /\ \A b : Place(b, shares', open', now').best = BestFrom(Mine(b)')
      /\ \A b : Place(b, shares, open, now).address = b
  BY DEF Place, Mine
<1>4. \A b : BestFrom(Mine(b)) \in Nat /\ BestFrom(Mine(b)') \in Nat
  <2>1. ASSUME NEW b PROVE BestFrom(Mine(b)) \in Nat
    <3>1. Mine(b) \in SUBSET Rows /\ IsFiniteSet(Mine(b)) /\ \A s \in Mine(b) : s.at <= now
      BY FS_Subset DEF TableInv, Mine, Of, RoundRows
    <3> QED BY <3>1, MineType DEF TableInv
  <2>2. ASSUME NEW b PROVE BestFrom(Mine(b)') \in Nat
    <3>1. Mine(b)' \in SUBSET Rows /\ IsFiniteSet(Mine(b)') /\ \A s \in Mine(b)' : s.at <= now'
      BY FS_Subset DEF TableInv, Mine, Of, RoundRows
    <3> QED BY <3>1, MineType DEF TableInv
  <2> QED BY <2>1, <2>2
<1>5. new \in Stats(a)'
  BY StatsNext
<1>6. old.rank = RankIn(e, S)
  BY StatsNow
<1> HIDE DEF S, S2, e, e2
<1> SUFFICES ASSUME \A b \in Addresses : \A better \in Stats(b)' :
                       better.best > new.best => \E before \in Stats(b) : ~(better.best > before.best)
             PROVE  new.rank <= old.rank
  BY <1>5
<1>7. ASSUME NEW f \in S2, f.best > e2.best
      PROVE  \E g \in S : g.address = f.address /\ g.best > e.best
  <2> DEFINE b == f.address
             g == Place(b, shares, open, now)
  <2>1. /\ b \in Addresses /\ OnBoard(Mine(b)', now') /\ f.best = BestFrom(Mine(b)')
        /\ e2.best = BestFrom(Mine(a)') /\ e.best = BestFrom(Mine(a))
    BY <1>2, <1>3 DEF e, e2
  <2>2. PICK better \in Stats(b)' : better.best = f.best
    <3>1. \E r : Stats(b)' = {[rank |-> r, best |-> BestFrom(Mine(b)'), lastSeen |-> SeenIn(Mine(b)')]}
      BY <2>1, StatsNext
    <3> QED BY <2>1, <3>1
  <2>3. PICK before \in Stats(b) : ~(better.best > before.best)
    BY <1>7, <2>1, <2>2
  <2>4. OnBoard(Mine(b), now) /\ before.best = BestFrom(Mine(b))
    BY <2>3, StatsNow
  <2>5. g \in S /\ g.address = b /\ g.best = BestFrom(Mine(b))
    BY <1>2, <1>3, <2>4
  <2>6. BestFrom(Mine(b)) > BestFrom(Mine(a))
    BY <1>4, <1>7, <2>1, <2>2, <2>3, <2>4
  <2> HIDE DEF g
  <2> QED BY <2>1, <2>5, <2>6
<1>8. RankIn(e2, S2) <= RankIn(e, S)
  BY <1>1, <1>7, RankNotWorse
<1> QED BY <1>6, <1>8

\* A rank gets worse only when somebody's best share rises above the miner's own, and is
\* lost only with the round or after a week of silence (SlotHolds).
THEOREM ASlotHolds == Spec => SlotHolds
<1> DEFINE Holds(a, old) ==
               \/ Stats(a)' = {} /\ now' - old.lastSeen >= Week
               \/ \E new \in Stats(a)' :
                     \/ new.rank <= old.rank
                     \/ \E b \in Addresses : \E better \in Stats(b)' :
                           /\ better.best > new.best
                           /\ \A before \in Stats(b) : better.best > before.best
<1>1. ASSUME TableInv, [Next]_vars, open' = open, NEW a \in Addresses, NEW old \in Stats(a)
      PROVE  Holds(a, old)
  <2>1. TableInv'
    BY <1>1, NextTableInv
  <2>2. /\ OnBoard(Mine(a), now) /\ old.lastSeen = SeenIn(Mine(a))
    BY <1>1, StatsNow
  <2>3. /\ Mine(a) \in SUBSET Rows /\ IsFiniteSet(Mine(a)) /\ \A s \in Mine(a) : s.at <= now
        /\ now \in Nat
    BY <1>1, FS_Subset DEF TableInv, Mine, Of, RoundRows
  <2>4. BestFrom(Mine(a)) \in Nat /\ SeenIn(Mine(a)) \in Nat /\ SeenIn(Mine(a)) <= now
    BY <2>3, MineType
  <2>5. ASSUME Mine(a)' = Mine(a)
        PROVE  Holds(a, old)
    <3>1. CASE OnBoard(Mine(a)', now')
      BY <1>1, <2>1, <2>4, <2>5, <3>1, HeldRank
    <3>2. CASE ~OnBoard(Mine(a)', now')
      <4>1. Stats(a)' = {}
        BY <2>1, <3>2, StatsNext
      <4>2. now' - SeenIn(Mine(a)) >= Week
        BY <2>1, <2>2, <2>4, <2>5, <3>2, WindowAssumption DEF OnBoard, TableInv
      <4> QED BY <2>2, <4>1, <4>2
    <3> QED BY <3>1, <3>2
  <2>6. ASSUME NEW c \in Addresses, NEW d \in Difficulties,
               NEW round \in {open, open - 1} \ {0}, Insert(c, d, round)
        PROVE  Holds(a, old)
    <3> DEFINE row == [address |-> c, round |-> round, diff |-> d, at |-> now]
    <3>1. row \in Rows /\ shares' = shares \cup {row} /\ now' = now /\ open' = open
      BY <1>1, <2>6, InsertStep DEF Insert
    <3>2. CASE c = a /\ round = open
      <4>1. Mine(a)' = Mine(a) \cup {row}
        BY <3>1, <3>2 DEF Mine, Of, RoundRows
      <4>2. /\ SeenIn(Mine(a) \cup {row}) = now
            /\ BestFrom(Mine(a) \cup {row}) =
                  IF now - SeenIn(Mine(a)) <= Week /\ BestFrom(Mine(a)) > d
                  THEN BestFrom(Mine(a)) ELSE d
        BY <2>3, <3>1, ShareCounts
      <4>3. now - SeenIn(Mine(a)) < Week /\ d \in Nat
        BY <2>2, DifficultiesType DEF OnBoard
      <4>4. BestFrom(Mine(a)') >= BestFrom(Mine(a))
        BY <2>3, <2>4, <4>1, <4>2, <4>3, WindowAssumption
      <4>5. OnBoard(Mine(a)', now')
        BY <2>3, <3>1, <4>1, <4>2, WindowAssumption DEF OnBoard
      <4> QED BY <1>1, <2>1, <4>4, <4>5, HeldRank
    <3>3. CASE ~(c = a /\ round = open)
      <4>1. Mine(a)' = Mine(a)
        BY <3>1, <3>3 DEF Mine, Of, RoundRows
      <4> QED BY <2>5, <4>1
    <3> QED BY <3>2, <3>3
  <2>7. CASE NewRound
    BY <1>1, <2>7 DEF NewRound, TableInv
  <2>8. CASE Pass
    BY <2>5, <2>8 DEF Pass, Mine
  <2>9. CASE UNCHANGED vars
    BY <2>5, <2>9 DEF vars, Mine
  <2> QED BY <1>1, <2>6, <2>7, <2>8, <2>9 DEF Next
<1>2. TableInv /\ [Next]_vars => [open' = open =>
         LET was == [a \in Addresses |-> Stats(a)]
             is == [a \in Addresses |-> Stats(a)']
         IN  \A a \in Addresses : \A old \in was[a] :
                \/ is[a] = {} /\ now' - old.lastSeen >= Week
                \/ \E new \in is[a] :
                      \/ new.rank <= old.rank
                      \/ \E b \in Addresses : \E better \in is[b] :
                            /\ better.best > new.best
                            /\ \A before \in was[b] : better.best > before.best]_vars
  BY <1>1
<1> QED BY <1>2, TableInvariant, PTL DEF Spec, SlotHolds

=============================================================================

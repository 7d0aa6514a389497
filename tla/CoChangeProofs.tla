--------------------------- MODULE CoChangeProofs ---------------------------
(***************************************************************************)
(* What is proved of CoChange for every repository, every set of files and *)
(* every bound: the invariant IInv, and from it that the aggregates miss   *)
(* no commit and count none twice.  The facts underneath are about         *)
(* ancestry (Anc) and about accumulate, which adds up over disjoint logs.  *)
(***************************************************************************)
EXTENDS CoChange, FiniteSetTheorems, WellFoundedInduction, TLAPS

(***************************************************************************)
(* Greatest elements.                                                      *)
(***************************************************************************)
\* A finite set of numbers with a member has a greatest one.
LEMMA Greatest ==
    ASSUME NEW S \in SUBSET Nat, IsFiniteSet(S), S # {}
    PROVE  \E x \in S : \A y \in S : x >= y
<1> DEFINE Up(x) == {y \in S : y >= x}
           T == {Up(x) : x \in S}
<1>1. IsWellFoundedOn(StrictSubsetOrdering(S), FiniteSubsetsOf(S)) BY FS_StrictSubsetOrderingWellFounded
<1>2. \A x \in S : IsFiniteSet(Up(x)) /\ Up(x) \in SUBSET S BY FS_Subset
<1>3. T \subseteq FiniteSubsetsOf(S) /\ T # {} BY <1>2 DEF FiniteSubsetsOf
<1>4. PICK u \in T : \A v \in T : ~(<<v, u>> \in StrictSubsetOrdering(S)) BY <1>1, <1>3, WFMin
<1>5. PICK x \in S : u = Up(x) BY <1>4
<1>6. ASSUME NEW y \in S PROVE x >= y
  <2>1. SUFFICES ASSUME y > x PROVE FALSE BY DEF Up
  <2>2. Up(y) \in T OBVIOUS
  <2>3. x \in Up(x) /\ x \notin Up(y) BY <2>1
  <2>4. ASSUME NEW z \in Up(y) PROVE z \in Up(x)
    <3>1. z \in Nat /\ y \in Nat /\ x \in Nat /\ z >= y BY <2>4
    <3>2. z >= x BY <2>1, <3>1
    <3> QED BY <2>4, <3>2
  <2> HIDE DEF Up
  <2>5. Up(y) \subseteq u /\ Up(y) # u BY <1>5, <2>3, <2>4
  <2>6. Up(y) \in SUBSET S /\ u \in SUBSET S BY <1>2, <1>5
  <2>7. <<Up(y), u>> \in StrictSubsetOrdering(S) BY <2>5, <2>6 DEF StrictSubsetOrdering
  <2> QED BY <1>4, <2>2, <2>7
<1> QED BY <1>6

LEMMA MaxIsGreatest ==
    ASSUME NEW S \in SUBSET Nat, IsFiniteSet(S), S # {}
    PROVE  Max(S) \in S /\ \A y \in S : Max(S) >= y
BY Greatest DEF Max

\* Adding numbers to a set in two steps gives the greatest of all.
LEMMA MaxInTwo ==
    ASSUME NEW X \in SUBSET Nat, IsFiniteSet(X), NEW Y \in SUBSET Nat, IsFiniteSet(Y), NEW n \in Nat
    PROVE  Max({Max({n} \cup X)} \cup Y) = Max({n} \cup (X \cup Y))
<1> DEFINE A == {n} \cup X
           m == Max(A)
           B == {m} \cup Y
           C == {n} \cup (X \cup Y)
<1>1. IsFiniteSet({n}) BY FS_Singleton
<1>2. IsFiniteSet(A) /\ A \in SUBSET Nat /\ A # {} BY <1>1, FS_Union
<1>3. m \in A /\ \A y \in A : m >= y BY <1>2, MaxIsGreatest
<1>4. IsFiniteSet({m}) BY FS_Singleton
<1>5. IsFiniteSet(B) /\ B \in SUBSET Nat /\ B # {} BY <1>2, <1>3, <1>4, FS_Union
<1>6. Max(B) \in B /\ \A y \in B : Max(B) >= y BY <1>5, MaxIsGreatest
<1>7. IsFiniteSet(X \cup Y) BY FS_Union
<1>8. IsFiniteSet(C) /\ C \in SUBSET Nat /\ C # {} BY <1>1, <1>7, FS_Union
<1>9. Max(C) \in C /\ \A y \in C : Max(C) >= y BY <1>8, MaxIsGreatest
<1>10. Max(B) \in C BY <1>3, <1>6
<1>11. m >= Max(C) \/ Max(C) \in Y BY <1>3, <1>9
<1>12. m \in Nat /\ Max(B) \in Nat /\ Max(C) \in Nat BY <1>2, <1>3, <1>5, <1>6, <1>8, <1>9
<1> HIDE DEF m, A, B, C
<1>13. Max(B) >= Max(C) BY <1>6, <1>11, <1>12 DEF B
<1>14. Max(C) >= Max(B) BY <1>9, <1>10
<1>15. Max(B) = Max(C) BY <1>12, <1>13, <1>14
<1> QED BY <1>15 DEF B, C, m, A

\* A greater number or set has a greater maximum.
LEMMA MaxGrows ==
    ASSUME NEW X \in SUBSET Nat, IsFiniteSet(X), NEW Y \in SUBSET Nat, IsFiniteSet(Y), X # {}, X \subseteq Y
    PROVE  Max(Y) >= Max(X)
BY MaxIsGreatest
(***************************************************************************)
(* accumulate.                                                             *)
(***************************************************************************)
Aggregate == [last_sha : Nat, file_changes : [Files -> Nat], pairs : [Pair -> [count : Nat, last_ts : Nat]]]
IsLog(log) == DOMAIN log \subseteq Nat /\ IsFiniteSet(DOMAIN log)
Small(log) == {c \in DOMAIN log : Cardinality(log[c]) <= MaxFiles}
OfFile(log, f) == {c \in Small(log) : f \in log[c]}
OfPair(log, p) == {c \in Small(log) : p \subseteq log[c]}

LEMMA LogSets ==
    ASSUME NEW log, IsLog(log), NEW x
    PROVE  /\ IsFiniteSet(OfFile(log, x)) /\ Cardinality(OfFile(log, x)) \in Nat
           /\ IsFiniteSet(OfPair(log, x)) /\ Cardinality(OfPair(log, x)) \in Nat
           /\ OfPair(log, x) \in SUBSET Nat
<1>1. OfFile(log, x) \subseteq DOMAIN log /\ OfPair(log, x) \subseteq DOMAIN log BY DEF OfFile, OfPair, Small
<1>2. IsFiniteSet(OfFile(log, x)) /\ IsFiniteSet(OfPair(log, x)) BY <1>1, FS_Subset DEF IsLog
<1> QED BY <1>1, <1>2, FS_CardinalityType DEF IsLog

\* Field by field.
LEMMA AccumulateFields ==
    ASSUME NEW state \in Aggregate, NEW log
    PROVE  /\ accumulate(state, log).last_sha = state.last_sha
           /\ accumulate(state, log).file_changes =
                [f \in Files |-> state.file_changes[f] + Cardinality(OfFile(log, f))]
           /\ accumulate(state, log).pairs =
                [p \in Pair |-> [count |-> state.pairs[p].count + Cardinality(OfPair(log, p)),
                                 last_ts |-> Max({state.pairs[p].last_ts} \cup OfPair(log, p))]]
           /\ accumulate(state, log) =
                [last_sha |-> state.last_sha, file_changes |-> accumulate(state, log).file_changes,
                 pairs |-> accumulate(state, log).pairs]
BY DEF accumulate, OfFile, OfPair, Small

LEMMA NewStateIsAggregate ==
    /\ NewState \in Aggregate
    /\ NewState.file_changes = [f \in Files |-> 0]
    /\ NewState.pairs = [p \in Pair |-> [count |-> 0, last_ts |-> 0]]
BY DEF NewState, Aggregate

LEMMA AccumulateType ==
    ASSUME NEW state \in Aggregate, NEW log, IsLog(log)
    PROVE  accumulate(state, log) \in Aggregate
<1> DEFINE r == accumulate(state, log)
<1>1. ASSUME NEW p \in Pair
      PROVE  /\ state.pairs[p].count + Cardinality(OfPair(log, p)) \in Nat
             /\ Max({state.pairs[p].last_ts} \cup OfPair(log, p)) \in Nat
  <2>1. state.pairs[p].count \in Nat /\ state.pairs[p].last_ts \in Nat BY DEF Aggregate
  <2>2. IsFiniteSet({state.pairs[p].last_ts}) BY FS_Singleton
  <2> DEFINE S == {state.pairs[p].last_ts} \cup OfPair(log, p)
  <2>3. IsFiniteSet(S) /\ S \in SUBSET Nat /\ S # {} BY <2>1, <2>2, LogSets, FS_Union
  <2>4. Max(S) \in Nat BY <2>3, MaxIsGreatest
  <2> QED BY <2>1, <2>4, LogSets
<1>2. \A f \in Files : state.file_changes[f] + Cardinality(OfFile(log, f)) \in Nat
  BY LogSets DEF Aggregate
<1>3. r.file_changes \in [Files -> Nat]
  <2>1. r.file_changes = [f \in Files |-> state.file_changes[f] + Cardinality(OfFile(log, f))] BY AccumulateFields
  <2> QED BY <1>2, <2>1
<1>4. r.pairs \in [Pair -> [count : Nat, last_ts : Nat]]
  <2>1. r.pairs = [p \in Pair |-> [count |-> state.pairs[p].count + Cardinality(OfPair(log, p)),
                                   last_ts |-> Max({state.pairs[p].last_ts} \cup OfPair(log, p))]]
    BY AccumulateFields
  <2> QED BY <1>1, <2>1
<1>5. state.last_sha \in Nat BY DEF Aggregate
<1>6. r = [last_sha |-> state.last_sha, file_changes |-> r.file_changes, pairs |-> r.pairs] BY AccumulateFields
<1> HIDE DEF r
<1>7. r \in Aggregate BY <1>3, <1>4, <1>5, <1>6 DEF Aggregate
<1> QED BY <1>7 DEF r

\* What Covers and Exact compare with.
LEMMA DueFields ==
    ASSUME NEW log, IsLog(log)
    PROVE  /\ accumulate(NewState, log).file_changes = [f \in Files |-> Cardinality(OfFile(log, f))]
           /\ accumulate(NewState, log).pairs =
                [p \in Pair |-> [count |-> Cardinality(OfPair(log, p)), last_ts |-> Max({0} \cup OfPair(log, p))]]
<1>1. \A f \in Files : NewState.file_changes[f] + Cardinality(OfFile(log, f)) = Cardinality(OfFile(log, f))
  BY LogSets, NewStateIsAggregate
<1>2. \A p \in Pair : /\ NewState.pairs[p].count + Cardinality(OfPair(log, p)) = Cardinality(OfPair(log, p))
                      /\ NewState.pairs[p].last_ts = 0
  BY LogSets, NewStateIsAggregate
<1>3. accumulate(NewState, log).file_changes =
        [f \in Files |-> NewState.file_changes[f] + Cardinality(OfFile(log, f))]
  BY NewStateIsAggregate, AccumulateFields
<1>4. accumulate(NewState, log).pairs =
        [p \in Pair |-> [count |-> NewState.pairs[p].count + Cardinality(OfPair(log, p)),
                         last_ts |-> Max({NewState.pairs[p].last_ts} \cup OfPair(log, p))]]
  BY NewStateIsAggregate, AccumulateFields
<1>5. accumulate(NewState, log).file_changes = [f \in Files |-> Cardinality(OfFile(log, f))] BY <1>1, <1>3
<1>6. accumulate(NewState, log).pairs =
        [p \in Pair |-> [count |-> Cardinality(OfPair(log, p)), last_ts |-> Max({0} \cup OfPair(log, p))]]
  BY <1>2, <1>4
<1> QED BY <1>5, <1>6
LEMMA AccumulateAt ==
    ASSUME NEW state \in Aggregate, NEW log
    PROVE  /\ \A f \in Files :
                accumulate(state, log).file_changes[f] = state.file_changes[f] + Cardinality(OfFile(log, f))
           /\ \A p \in Pair :
                /\ accumulate(state, log).pairs[p].count = state.pairs[p].count + Cardinality(OfPair(log, p))
                /\ accumulate(state, log).pairs[p].last_ts = Max({state.pairs[p].last_ts} \cup OfPair(log, p))
<1>1. accumulate(state, log).file_changes =
        [f \in Files |-> state.file_changes[f] + Cardinality(OfFile(log, f))]
  BY AccumulateFields
<1>2. accumulate(state, log).pairs =
        [p \in Pair |-> [count |-> state.pairs[p].count + Cardinality(OfPair(log, p)),
                         last_ts |-> Max({state.pairs[p].last_ts} \cup OfPair(log, p))]]
  BY AccumulateFields
<1> QED BY <1>1, <1>2

LEMMA DueAt ==
    ASSUME NEW log, IsLog(log)
    PROVE  /\ \A f \in Files : accumulate(NewState, log).file_changes[f] = Cardinality(OfFile(log, f))
           /\ \A p \in Pair : /\ accumulate(NewState, log).pairs[p].count = Cardinality(OfPair(log, p))
                             /\ accumulate(NewState, log).pairs[p].last_ts = Max({0} \cup OfPair(log, p))
<1>1. accumulate(NewState, log).file_changes = [f \in Files |-> Cardinality(OfFile(log, f))] BY DueFields
<1>2. accumulate(NewState, log).pairs =
        [p \in Pair |-> [count |-> Cardinality(OfPair(log, p)), last_ts |-> Max({0} \cup OfPair(log, p))]]
  BY DueFields
<1> QED BY <1>1, <1>2

\* Two logs of the same repository; log is both of them, or part of it.
Within(log, one, two) ==
    /\ DOMAIN log \subseteq DOMAIN one \cup DOMAIN two
    /\ \A c \in DOMAIN log : (c \in DOMAIN one => log[c] = one[c]) /\ (c \in DOMAIN two => log[c] = two[c])
Splits(log, one, two) ==
    /\ Within(log, one, two)
    /\ DOMAIN one \subseteq DOMAIN log /\ DOMAIN two \subseteq DOMAIN log
    /\ DOMAIN one \cap DOMAIN two = {}

LEMMA WithinSets ==
    ASSUME NEW log, NEW one, NEW two, Within(log, one, two), NEW x
    PROVE  /\ OfFile(log, x) \subseteq OfFile(one, x) \cup OfFile(two, x)
           /\ OfPair(log, x) \subseteq OfPair(one, x) \cup OfPair(two, x)
<1>1. ASSUME NEW c \in DOMAIN log
      PROVE  (c \in DOMAIN one /\ log[c] = one[c]) \/ (c \in DOMAIN two /\ log[c] = two[c])
  BY DEF Within
<1>2. ASSUME NEW c \in OfFile(log, x) PROVE c \in OfFile(one, x) \cup OfFile(two, x)
  BY <1>1, <1>2 DEF OfFile, Small
<1>3. ASSUME NEW c \in OfPair(log, x) PROVE c \in OfPair(one, x) \cup OfPair(two, x)
  BY <1>1, <1>3 DEF OfPair, Small
<1> QED BY <1>2, <1>3

LEMMA SplitSets ==
    ASSUME NEW log, NEW one, NEW two, Splits(log, one, two), NEW x
    PROVE  /\ OfFile(log, x) = OfFile(one, x) \cup OfFile(two, x)
           /\ OfFile(one, x) \cap OfFile(two, x) = {}
           /\ OfPair(log, x) = OfPair(one, x) \cup OfPair(two, x)
           /\ OfPair(one, x) \cap OfPair(two, x) = {}
<1>1. Within(log, one, two) BY DEF Splits
<1>2. \A c \in DOMAIN one : c \in DOMAIN log /\ log[c] = one[c] BY DEF Splits, Within
<1>3. \A c \in DOMAIN two : c \in DOMAIN log /\ log[c] = two[c] BY DEF Splits, Within
<1>4. OfFile(one, x) \subseteq OfFile(log, x) /\ OfPair(one, x) \subseteq OfPair(log, x)
  BY <1>2 DEF OfFile, OfPair, Small
<1>5. OfFile(two, x) \subseteq OfFile(log, x) /\ OfPair(two, x) \subseteq OfPair(log, x)
  BY <1>3 DEF OfFile, OfPair, Small
<1>6. OfFile(one, x) \cap OfFile(two, x) = {} /\ OfPair(one, x) \cap OfPair(two, x) = {}
  BY DEF OfFile, OfPair, Small, Splits
<1> QED BY <1>1, <1>4, <1>5, <1>6, WithinSets

\* Sizes add up, or are no more than the sum.
LEMMA CardJoin ==
    ASSUME NEW X, NEW Y, NEW Z, IsFiniteSet(X), IsFiniteSet(Y)
    PROVE  /\ Z \subseteq X \cup Y => IsFiniteSet(Z) /\ Cardinality(Z) <= Cardinality(X) + Cardinality(Y)
           /\ Z = X \cup Y /\ X \cap Y = {} => Cardinality(Z) = Cardinality(X) + Cardinality(Y)
<1>1. /\ IsFiniteSet(X \cup Y)
      /\ Cardinality(X \cup Y) = Cardinality(X) + Cardinality(Y) - Cardinality(X \cap Y)
  BY FS_Union
<1>2. IsFiniteSet(X \cap Y) BY FS_Subset
<1>3. Cardinality(X) \in Nat /\ Cardinality(Y) \in Nat /\ Cardinality(X \cap Y) \in Nat
  BY <1>2, FS_CardinalityType
<1>4. X \cap Y = {} => Cardinality(X \cap Y) = 0 BY FS_EmptySet
<1>5. Z \subseteq X \cup Y => IsFiniteSet(Z) /\ Cardinality(Z) <= Cardinality(X \cup Y) BY <1>1, FS_Subset
<1>6. IsFiniteSet(Z) => Cardinality(Z) \in Nat BY FS_CardinalityType
<1>7. ASSUME Z \subseteq X \cup Y PROVE IsFiniteSet(Z) /\ Cardinality(Z) <= Cardinality(X) + Cardinality(Y)
  <2>1. Cardinality(X \cup Y) <= Cardinality(X) + Cardinality(Y) /\ Cardinality(X \cup Y) \in Int BY <1>1, <1>3
  <2>2. IsFiniteSet(Z) /\ Cardinality(Z) <= Cardinality(X \cup Y) /\ Cardinality(Z) \in Nat BY <1>5, <1>6, <1>7
  <2> QED BY <1>3, <2>1, <2>2
<1>8. ASSUME Z = X \cup Y, X \cap Y = {} PROVE Cardinality(Z) = Cardinality(X) + Cardinality(Y)
  <2>1. Cardinality(X \cap Y) = 0 BY <1>4, <1>8
  <2>2. Cardinality(X \cup Y) = Cardinality(X) + Cardinality(Y) BY <1>1, <1>3, <2>1
  <2> QED BY <1>8, <2>2
<1> QED BY <1>7, <1>8

\* Aggregates that are exact for one log, with a second one accumulated, are
\* exact for both: a pass extends what an earlier one left.
LEMMA ExactJoin ==
    ASSUME NEW state \in Aggregate, NEW log, NEW one, NEW two, IsLog(log), IsLog(one), IsLog(two),
           Splits(log, one, two), Exact(state, one)
    PROVE  Exact(accumulate(state, two), log)
<1> DEFINE r == accumulate(state, two)
           due == accumulate(NewState, log)
<1>1. state.file_changes = [f \in Files |-> Cardinality(OfFile(one, f))] BY DueFields DEF Exact
<1>2. state.pairs =
        [p \in Pair |-> [count |-> Cardinality(OfPair(one, p)), last_ts |-> Max({0} \cup OfPair(one, p))]]
  BY DueFields DEF Exact
<1>3. r.file_changes = due.file_changes
  <2>1. r.file_changes = [f \in Files |-> state.file_changes[f] + Cardinality(OfFile(two, f))] BY AccumulateFields
  <2>2. due.file_changes = [f \in Files |-> Cardinality(OfFile(log, f))] BY DueFields
  <2>3. ASSUME NEW f \in Files
        PROVE  state.file_changes[f] + Cardinality(OfFile(two, f)) = Cardinality(OfFile(log, f))
    <3>1. IsFiniteSet(OfFile(one, f)) /\ IsFiniteSet(OfFile(two, f)) BY LogSets
    <3>2. OfFile(log, f) = OfFile(one, f) \cup OfFile(two, f) /\ OfFile(one, f) \cap OfFile(two, f) = {} BY SplitSets
    <3>3. Cardinality(OfFile(log, f)) = Cardinality(OfFile(one, f)) + Cardinality(OfFile(two, f))
      BY <3>1, <3>2, CardJoin
    <3> QED BY <1>1, <3>3
  <2> QED BY <2>1, <2>2, <2>3
<1>4. r.pairs = due.pairs
  <2>1. r.pairs = [p \in Pair |-> [count |-> state.pairs[p].count + Cardinality(OfPair(two, p)),
                                   last_ts |-> Max({state.pairs[p].last_ts} \cup OfPair(two, p))]]
    BY AccumulateFields
  <2>2. due.pairs = [p \in Pair |-> [count |-> Cardinality(OfPair(log, p)), last_ts |-> Max({0} \cup OfPair(log, p))]]
    BY DueFields
  <2>3. ASSUME NEW p \in Pair
        PROVE  /\ state.pairs[p].count + Cardinality(OfPair(two, p)) = Cardinality(OfPair(log, p))
               /\ Max({state.pairs[p].last_ts} \cup OfPair(two, p)) = Max({0} \cup OfPair(log, p))
    <3>1. /\ IsFiniteSet(OfPair(one, p)) /\ IsFiniteSet(OfPair(two, p))
          /\ OfPair(one, p) \in SUBSET Nat /\ OfPair(two, p) \in SUBSET Nat
      BY LogSets
    <3>2. OfPair(log, p) = OfPair(one, p) \cup OfPair(two, p) /\ OfPair(one, p) \cap OfPair(two, p) = {} BY SplitSets
    <3>3. Cardinality(OfPair(log, p)) = Cardinality(OfPair(one, p)) + Cardinality(OfPair(two, p))
      BY <3>1, <3>2, CardJoin
    <3>4. Max({Max({0} \cup OfPair(one, p))} \cup OfPair(two, p)) = Max({0} \cup (OfPair(one, p) \cup OfPair(two, p)))
      BY <3>1, MaxInTwo
    <3>5. state.pairs[p].count = Cardinality(OfPair(one, p)) /\ state.pairs[p].last_ts = Max({0} \cup OfPair(one, p))
      BY <1>2
    <3> QED BY <3>2, <3>3, <3>4, <3>5
  <2> QED BY <2>1, <2>2, <2>3
<1> QED BY <1>3, <1>4 DEF Exact

\* Aggregates that cover one log cover, with a second accumulated, all that
\* is within the two.
LEMMA CoversJoin ==
    ASSUME NEW state \in Aggregate, NEW log, NEW one, NEW two, IsLog(log), IsLog(one), IsLog(two),
           Within(log, one, two), Covers(state, one)
    PROVE  Covers(accumulate(state, two), log)
<1> DEFINE r == accumulate(state, two)
           due == accumulate(NewState, log)
           was == accumulate(NewState, one)
<1>1. ASSUME NEW f \in Files PROVE r.file_changes[f] >= due.file_changes[f]
  <2>1. r.file_changes[f] = state.file_changes[f] + Cardinality(OfFile(two, f)) BY AccumulateAt
  <2>2. due.file_changes[f] = Cardinality(OfFile(log, f)) BY DueAt
  <2>3. was.file_changes[f] = Cardinality(OfFile(one, f)) BY DueAt
  <2>4. state.file_changes[f] >= was.file_changes[f] BY DEF Covers
  <2>5. Cardinality(OfFile(log, f)) <= Cardinality(OfFile(one, f)) + Cardinality(OfFile(two, f))
    BY LogSets, WithinSets, CardJoin
  <2>6. state.file_changes[f] \in Nat BY DEF Aggregate
  <2>7. /\ Cardinality(OfFile(log, f)) \in Nat /\ Cardinality(OfFile(one, f)) \in Nat
        /\ Cardinality(OfFile(two, f)) \in Nat
    BY LogSets
  <2> QED BY <2>1, <2>2, <2>3, <2>4, <2>5, <2>6, <2>7
<1>2. ASSUME NEW p \in Pair
      PROVE  r.pairs[p].count >= due.pairs[p].count /\ r.pairs[p].last_ts >= due.pairs[p].last_ts
  <2>1. /\ r.pairs[p].count = state.pairs[p].count + Cardinality(OfPair(two, p))
        /\ r.pairs[p].last_ts = Max({state.pairs[p].last_ts} \cup OfPair(two, p))
    BY AccumulateAt
  <2>2. /\ due.pairs[p].count = Cardinality(OfPair(log, p))
        /\ due.pairs[p].last_ts = Max({0} \cup OfPair(log, p))
    BY DueAt
  <2>3. /\ was.pairs[p].count = Cardinality(OfPair(one, p))
        /\ was.pairs[p].last_ts = Max({0} \cup OfPair(one, p))
    BY DueAt
  <2>4. state.pairs[p].count >= was.pairs[p].count /\ state.pairs[p].last_ts >= was.pairs[p].last_ts BY DEF Covers
  <2>5. Cardinality(OfPair(log, p)) <= Cardinality(OfPair(one, p)) + Cardinality(OfPair(two, p))
    BY LogSets, WithinSets, CardJoin
  <2>6. state.pairs[p].count \in Nat /\ state.pairs[p].last_ts \in Nat BY DEF Aggregate
  <2>7. /\ Cardinality(OfPair(log, p)) \in Nat /\ Cardinality(OfPair(one, p)) \in Nat
        /\ Cardinality(OfPair(two, p)) \in Nat
    BY LogSets
  <2>8. r.pairs[p].count >= due.pairs[p].count BY <2>1, <2>2, <2>3, <2>4, <2>5, <2>6, <2>7
  <2>9. Max({state.pairs[p].last_ts} \cup OfPair(two, p)) >= Max({0} \cup OfPair(log, p))
    <3> DEFINE n == state.pairs[p].last_ts
               A == {n} \cup OfPair(two, p)
               B == {0} \cup OfPair(log, p)
               C == {0} \cup OfPair(one, p)
    <3>0. /\ IsFiniteSet(OfPair(one, p)) /\ OfPair(one, p) \in SUBSET Nat
          /\ IsFiniteSet(OfPair(two, p)) /\ OfPair(two, p) \in SUBSET Nat
          /\ IsFiniteSet(OfPair(log, p)) /\ OfPair(log, p) \in SUBSET Nat
      BY LogSets
    <3>1. IsFiniteSet({n}) /\ IsFiniteSet({0}) BY FS_Singleton
    <3>2. IsFiniteSet(A) /\ A \in SUBSET Nat /\ A # {} BY <2>6, <3>0, <3>1, FS_Union
    <3>3. IsFiniteSet(B) /\ B \in SUBSET Nat /\ B # {}
      <4>1. IsFiniteSet(B) BY <3>0, <3>1, FS_Union
      <4>2. B \in SUBSET Nat /\ B # {} BY <3>0
      <4> QED BY <4>1, <4>2
    <3>4. IsFiniteSet(C) /\ C \in SUBSET Nat /\ C # {}
      <4>1. IsFiniteSet(C) BY <3>0, <3>1, FS_Union
      <4>2. C \in SUBSET Nat /\ C # {} BY <3>0
      <4> QED BY <4>1, <4>2
    <3>5. Max(A) \in A /\ \A y \in A : Max(A) >= y BY <3>2, MaxIsGreatest
    <3>6. Max(B) \in B BY <3>3, MaxIsGreatest
    <3>7. Max(C) \in C /\ \A y \in C : Max(C) >= y BY <3>4, MaxIsGreatest
    <3>8. n >= Max(C) BY <2>3, <2>4
    <3>9. Max(B) \in C \/ Max(B) \in A BY <3>6, WithinSets
    <3>10. n \in A /\ n \in Nat BY <2>6
    <3>11. Max(A) \in Nat /\ Max(B) \in Nat /\ Max(C) \in Nat BY <3>2, <3>3, <3>4, <3>5, <3>6, <3>7
    <3> HIDE DEF n, A, B, C
    <3>12. Max(A) >= Max(B) BY <3>5, <3>7, <3>8, <3>9, <3>10, <3>11
    <3> QED BY <3>12 DEF n, A, B
  <2> QED BY <2>1, <2>2, <2>8, <2>9
<1> QED BY <1>1, <1>2 DEF Covers

LEMMA NoLog ==
    ASSUME NEW log, DOMAIN log = {}
    PROVE  IsLog(log) /\ Exact(NewState, log) /\ Covers(NewState, log)
<1>1. IsLog(log) BY FS_EmptySet DEF IsLog
<1>2. \A x : OfFile(log, x) = {} /\ OfPair(log, x) = {} BY DEF OfFile, OfPair, Small
<1>3. Cardinality({}) = 0 BY FS_EmptySet
<1>4. Max({0} \cup {}) = 0
  <2>1. IsFiniteSet({0}) BY FS_Singleton
  <2>2. Max({0}) \in {0} BY <2>1, MaxIsGreatest
  <2>3. {0} \cup {} = {0} OBVIOUS
  <2> QED BY <2>2, <2>3
<1>5. accumulate(NewState, log).file_changes = [f \in Files |-> 0]
  <2>1. accumulate(NewState, log).file_changes = [f \in Files |-> Cardinality(OfFile(log, f))] BY <1>1, DueFields
  <2> QED BY <1>2, <1>3, <2>1
<1>6. accumulate(NewState, log).pairs = [p \in Pair |-> [count |-> 0, last_ts |-> 0]]
  <2>1. accumulate(NewState, log).pairs =
          [p \in Pair |-> [count |-> Cardinality(OfPair(log, p)), last_ts |-> Max({0} \cup OfPair(log, p))]]
    BY <1>1, DueFields
  <2> QED BY <1>2, <1>3, <1>4, <2>1
<1> QED BY <1>1, <1>5, <1>6, NewStateIsAggregate DEF Exact, Covers
(***************************************************************************)
(* Ancestry and the log.                                                   *)
(***************************************************************************)
LEMMA Numbered ==
    ASSUME RepositoryOK
    PROVE  /\ Commits \subseteq Nat \ {0} /\ IsFiniteSet(Commits)
           /\ Cardinality(Commits) \in Nat
           /\ \A c \in Commits : 1 .. c \subseteq Commits
           /\ head \in Nat /\ \A c \in {0} \cup Commits : c \in Nat
<1>1. Cardinality(Commits) \in Nat BY BoundsAssumption DEF RepositoryOK
<1>2. Commits = 1 .. Cardinality(Commits) BY DEF RepositoryOK
<1>3. IsFiniteSet(1 .. Cardinality(Commits)) BY <1>1, FS_Interval
<1> DEFINE n == Cardinality(Commits)
<1> HIDE DEF n
<1>4. n \in Nat /\ Commits = 1 .. n BY <1>1, <1>2 DEF n
<1>5. \A c \in Commits : c \in Nat \ {0} /\ 1 .. c \subseteq Commits BY <1>4
<1>6. head \in {0} \cup Commits BY DEF RepositoryOK
<1>7. IsFiniteSet(Commits) BY <1>2, <1>3
<1> QED BY <1>1, <1>5, <1>6, <1>7

LEMMA AncSelf ==
    ASSUME NEW c \in Nat \ {0}
    PROVE  c \in Anc(c)
BY DEF Anc

LEMMA AncType ==
    ASSUME RepositoryOK, NEW c \in {0} \cup Commits
    PROVE  Anc(c) \subseteq Commits /\ Anc(c) \subseteq 1 .. c
<1>1. Anc(c) \subseteq 1 .. c BY DEF Anc
<1>2. c = 0 => 1 .. c = {} OBVIOUS
<1>3. c # 0 => 1 .. c \subseteq Commits BY Numbered
<1> QED BY <1>1, <1>2, <1>3

\* The history of a commit has the history of all its commits.
LEMMA AncClosed ==
    ASSUME RepositoryOK, NEW c \in {0} \cup Commits, NEW d \in Anc(c)
    PROVE  Anc(d) \subseteq Anc(c)
<1> DEFINE closed(x) == {S \in SUBSET (1 .. x) : x \in S /\ \A y \in S : parents[y] \subseteq S}
<1>1. \A x : Anc(x) = {y \in 1 .. x : \A S \in closed(x) : y \in S} BY DEF Anc
<1>2. c \in Nat /\ d \in Commits /\ d \in 1 .. c BY AncType, Numbered
<1>3. 1 .. d \subseteq 1 .. c /\ d \in 1 .. d BY <1>2
<1> SUFFICES ASSUME NEW e \in Anc(d) PROVE e \in Anc(c) OBVIOUS
<1>4. e \in 1 .. d /\ \A S \in closed(d) : e \in S BY <1>1
<1>5. ASSUME NEW S \in closed(c) PROVE e \in S
  <2>1. d \in S BY <1>1
  <2>2. S \subseteq 1 .. c /\ \A y \in S : parents[y] \subseteq S OBVIOUS
  <2>3. ASSUME NEW y \in S \cap 1 .. d PROVE parents[y] \subseteq S \cap 1 .. d
    <3>1. y \in Commits BY <1>2, Numbered
    <3>2. parents[y] \subseteq 1 .. (y - 1) BY <3>1 DEF RepositoryOK
    <3>3. 1 .. (y - 1) \subseteq 1 .. d BY <1>2
    <3> QED BY <2>2, <3>2, <3>3
  <2>4. S \cap 1 .. d \in closed(d) BY <1>3, <2>1, <2>3
  <2> QED BY <1>4, <2>4
<1> QED BY <1>1, <1>3, <1>4, <1>5

\* A new commit changes no history that was there.
LEMMA AncKept ==
    ASSUME NEW c \in Nat, \A d \in 1 .. c : parents'[d] = parents[d]
    PROVE  Anc(c)' = Anc(c)
<1> DEFINE closed == {S \in SUBSET (1 .. c) : c \in S /\ \A d \in S : parents[d] \subseteq S}
           after == {S \in SUBSET (1 .. c) : c \in S /\ \A d \in S : parents'[d] \subseteq S}
<1>1. closed = after OBVIOUS
<1>2. Anc(c) = {d \in 1 .. c : \A S \in closed : d \in S} BY DEF Anc
<1>3. Anc(c)' = {d \in 1 .. c : \A S \in after : d \in S} BY DEF Anc
<1> QED BY <1>1, <1>2, <1>3

Read(R) == {d \in R : Cardinality(parents[d]) < 2 /\ CommitFiles(d) # {}}

LEMMA ReadLogs ==
    ASSUME RepositoryOK, NEW R \in SUBSET Commits
    PROVE  /\ DOMAIN read_commit_files(R) = Read(R) /\ Read(R) \subseteq R
           /\ \A c \in Read(R) : read_commit_files(R)[c] = CommitFiles(c)
           /\ IsLog(read_commit_files(R))
<1>1. DOMAIN read_commit_files(R) = Read(R) BY DEF read_commit_files, Read
<1>2. Read(R) \subseteq R BY DEF Read
<1>3. IsFiniteSet(Read(R)) /\ Read(R) \subseteq Nat BY <1>2, Numbered, FS_Subset
<1>4. \A c \in Read(R) : read_commit_files(R)[c] = CommitFiles(c) BY DEF read_commit_files, Read
<1> QED BY <1>1, <1>2, <1>3, <1>4 DEF IsLog

\* Logs of ranges that cover a third, or split it.
LEMMA RangesWithin ==
    ASSUME RepositoryOK, NEW R \in SUBSET Commits, NEW R1 \in SUBSET Commits, NEW R2 \in SUBSET Commits,
           R \subseteq R1 \cup R2
    PROVE  Within(read_commit_files(R), read_commit_files(R1), read_commit_files(R2))
<1>1. Read(R) \subseteq Read(R1) \cup Read(R2) BY DEF Read
<1>2. ASSUME NEW X \in SUBSET Commits
      PROVE  /\ DOMAIN read_commit_files(X) = Read(X)
             /\ \A c \in Read(X) : read_commit_files(X)[c] = CommitFiles(c)
  BY ReadLogs
<1> QED BY <1>1, <1>2 DEF Within

LEMMA RangesSplit ==
    ASSUME RepositoryOK, NEW R \in SUBSET Commits, NEW R1 \in SUBSET Commits, NEW R2 \in SUBSET Commits,
           R = R1 \cup R2, R1 \cap R2 = {}
    PROVE  Splits(read_commit_files(R), read_commit_files(R1), read_commit_files(R2))
<1>1. Within(read_commit_files(R), read_commit_files(R1), read_commit_files(R2)) BY RangesWithin
<1>2. ASSUME NEW X \in SUBSET Commits PROVE DOMAIN read_commit_files(X) = Read(X) BY ReadLogs
<1>3. Read(R1) \subseteq Read(R) /\ Read(R2) \subseteq Read(R) /\ Read(R1) \cap Read(R2) = {} BY DEF Read
<1> QED BY <1>1, <1>2, <1>3 DEF Splits

LEMMA StateIsAggregate ==
    ASSUME RepositoryOK
    PROVE  State \subseteq Aggregate
BY Numbered DEF State, Aggregate

LEMMA BoundTypes ==
    /\ MaxFiles \in Nat /\ MinCochange \in Nat /\ MinCoupling \in Nat /\ MaxCommits \in Nat
    /\ MaxMoves \in Nat /\ MaxAge \in Nat /\ MaxMines \in Nat /\ MaxFaults \in Nat
BY BoundsAssumption
(***************************************************************************)
(* Steps that leave the recorded history alone, or add to it.              *)
(***************************************************************************)
Kept ==
    /\ Commits \subseteq DOMAIN parents'
    /\ \A c \in Commits : parents'[c] = parents[c] /\ touched'[c] = touched[c]

LEMMA DueKept ==
    ASSUME RepositoryOK, Kept, NEW sha \in Commits, NEW past
    PROVE  Anc(sha)' = Anc(sha) /\ Due(sha, past)' = Due(sha, past)
<1>1. sha \in Nat /\ 1 .. sha \subseteq Commits BY Numbered
<1>2. \A d \in 1 .. sha : parents'[d] = parents[d] BY <1>1 DEF Kept
<1>3. Anc(sha)' = Anc(sha) BY <1>1, <1>2, AncKept
<1>4. Anc(sha) \subseteq Commits BY AncType
<1> DEFINE R == Anc(sha) \ past
<1>5. ASSUME NEW d \in R
      PROVE  parents'[d] = parents[d] /\ touched'[d] = touched[d]
  BY <1>4 DEF Kept
<1>6. {d \in R : Cardinality(parents'[d]) < 2 /\ touched'[d] \cap Files # {}}
        = {d \in R : Cardinality(parents[d]) < 2 /\ touched[d] \cap Files # {}}
  BY <1>5
<1>7. [c \in {d \in R : Cardinality(parents'[d]) < 2 /\ touched'[d] \cap Files # {}} |-> touched'[c] \cap Files]
        = [c \in {d \in R : Cardinality(parents[d]) < 2 /\ touched[d] \cap Files # {}} |-> touched[c] \cap Files]
  BY <1>5, <1>6
<1>8. Due(sha, past) =
        [c \in {d \in R : Cardinality(parents[d]) < 2 /\ touched[d] \cap Files # {}} |-> touched[c] \cap Files]
  BY DEF Due, read_commit_files, CommitFiles
<1>9. Due(sha, past)' =
        [c \in {d \in Anc(sha)' \ past : Cardinality(parents'[d]) < 2 /\ touched'[d] \cap Files # {}}
            |-> touched'[c] \cap Files]
  BY DEF Due, read_commit_files, CommitFiles
<1> QED BY <1>3, <1>7, <1>8, <1>9

LEMMA AggregatesKept ==
    ASSUME RepositoryOK, Kept, NEW state, NEW past, NEW odd, Aggregates(state, past, odd)
    PROVE  Aggregates(state, past, odd)'
<1>1. state.last_sha \in Commits BY DEF Aggregates
<1>2. Anc(state.last_sha)' = Anc(state.last_sha) /\ Due(state.last_sha, past)' = Due(state.last_sha, past)
  BY <1>1, DueKept
<1>3. state.last_sha \in Commits' BY <1>1 DEF Kept, Commits
<1> QED BY <1>2, <1>3 DEF Aggregates

LEMMA SidecarKept ==
    ASSUME RepositoryOK, Kept, sidecar # NoState => Aggregates(sidecar, forgotten, excused),
           UNCHANGED <<sidecar, forgotten, excused>>
    PROVE  (sidecar # NoState => Aggregates(sidecar, forgotten, excused))'
<1>1. PICK s, p, o : s = sidecar /\ p = forgotten /\ o = excused OBVIOUS
<1> SUFFICES ASSUME s # NoState PROVE Aggregates(sidecar, forgotten, excused)'
  BY <1>1
<1>2. Aggregates(s, p, o) BY <1>1
<1>3. Aggregates(s, p, o)' BY <1>2, AggregatesKept
<1>4. sidecar' = s /\ forgotten' = p /\ excused' = o BY <1>1
<1> QED BY <1>3, <1>4 DEF Aggregates, Due, Anc, read_commit_files, CommitFiles, Commits

LEMMA PassKept ==
    ASSUME RepositoryOK, Kept, PassInv, pass.at \in {"rewrite", "save"},
           pass'.state = pass.state, pass'.forgotten = pass.forgotten, pass'.excused = pass.excused
    PROVE  Aggregates(pass.state, pass.forgotten, pass.excused)'
<1>1. PICK s, p, o : s = pass.state /\ p = pass.forgotten /\ o = pass.excused OBVIOUS
<1>2. Aggregates(s, p, o) BY <1>1 DEF PassInv
<1>3. Aggregates(s, p, o)' BY <1>2, AggregatesKept
<1>4. pass'.state = s /\ pass'.forgotten = p /\ pass'.excused = o BY <1>1
<1> QED BY <1>3, <1>4 DEF Aggregates, Due, Anc, read_commit_files, CommitFiles, Commits

LEMMA UnchangedKept ==
    ASSUME UNCHANGED <<parents, touched>>
    PROVE  Kept
BY DEF Kept, Commits

\* The parts of the type that a step of the pass leaves alone.
LEMMA RepositorySame ==
    ASSUME RepositoryOK, UNCHANGED repository
    PROVE  RepositoryOK' /\ Kept /\ Commits' = Commits /\ State' = State
BY DEF RepositoryOK, repository, Kept, Commits, State

THEOREM InitIInv == Init => IInv
<1> SUFFICES ASSUME Init PROVE IInv OBVIOUS
<1>1. Commits = {} BY DEF Init, Commits
<1>2. Cardinality(Commits) = 0 BY <1>1, FS_EmptySet
<1>3. 1 .. 0 = {} OBVIOUS
<1>4. RepositoryOK BY <1>1, <1>2, <1>3, BoundTypes DEF Init, RepositoryOK
<1>5. PassOK BY DEF Init, PassOK
<1>6. TypeOK BY <1>4, <1>5, BoundTypes DEF Init, TypeOK
<1>7. PassInv BY DEF Init, PassInv, Idle
<1>8. sidecar = NoState BY DEF Init
<1> QED BY <1>6, <1>7, <1>8 DEF IInv
(***************************************************************************)
(* The developer's steps.                                                  *)
(***************************************************************************)
\* A pass that has not read its log yet says nothing of the history.
LEMMA WaitingPass ==
    ASSUME PassInv, pass.at \in {"idle", "log"}, UNCHANGED <<pass, sidecar, excused>>
    PROVE  PassInv'
BY DEF PassInv

LEMMA ExtendIInv ==
    ASSUME IInv, pass.at \in {"idle", "log"}, NEW ps \in SUBSET Commits, NEW fs \in Changes \cup {{}}, Extend(ps, fs)
    PROVE  IInv'
<1> USE DEF IInv, TypeOK
<1> DEFINE n == Cardinality(Commits)
<1>1. /\ n \in Nat /\ n + 1 <= MaxCommits
      /\ Commits = 1 .. n /\ IsFiniteSet(Commits) /\ Commits \subseteq Nat \ {0}
      /\ parents' = [c \in Commits \cup {n + 1} |-> IF c = n + 1 THEN ps ELSE parents[c]]
      /\ touched' = [c \in Commits \cup {n + 1} |-> IF c = n + 1 THEN fs ELSE touched[c]]
      /\ objects' = objects \cup {n + 1} /\ head' = n + 1 /\ old' = old
  BY Numbered DEF Extend, Next1, RepositoryOK
<1>2. Cardinality(Commits \cup {n + 1}) = n + 1
  <2>1. n + 1 \notin 1 .. n BY <1>1
  <2>2. n + 1 \notin Commits BY <1>1, <2>1
  <2> QED BY <1>1, <2>2, FS_AddElement
<1> HIDE DEF n
<1>3. Commits' = Commits \cup {n + 1} BY <1>1 DEF Commits
<1>4. Commits' = 1 .. (n + 1)
  <2>1. (1 .. n) \cup {n + 1} = 1 .. (n + 1) BY <1>1
  <2> QED BY <1>1, <1>3, <2>1
<1>5. Kept BY <1>1, <1>3 DEF Kept, Commits
<1>6. RepositoryOK'
  <2>1. Cardinality(Commits') = n + 1 BY <1>2, <1>3
  <2>2. Cardinality(Commits') \in 0 .. MaxCommits /\ Commits' = 1 .. Cardinality(Commits')
    BY <1>1, <1>4, <2>1, BoundTypes
  <2>3. parents' \in [Commits' -> SUBSET Commits'] BY <1>1, <1>3 DEF RepositoryOK
  <2>4. touched' \in [Commits' -> Changes \cup {{}}] BY <1>1, <1>3 DEF RepositoryOK
  <2>5. ASSUME NEW c \in Commits' PROVE parents'[c] \subseteq 1 .. (c - 1)
    <3>1. CASE c = n + 1
      <4>1. (n + 1) - 1 = n BY <1>1
      <4>2. parents'[c] = ps BY <1>1, <3>1
      <4> QED BY <1>1, <3>1, <4>1, <4>2
    <3>2. CASE c # n + 1
      <4>1. c \in Commits BY <1>3, <3>2
      <4>2. parents'[c] = parents[c] BY <1>1, <3>2, <4>1
      <4> QED BY <4>1, <4>2 DEF RepositoryOK
    <3> QED BY <3>1, <3>2
  <2>6. objects' \subseteq Commits' /\ head' \in {0} \cup Commits' /\ old' \in Nat BY <1>1, <1>3 DEF RepositoryOK
  <2> QED BY <2>2, <2>3, <2>4, <2>5, <2>6 DEF RepositoryOK
<1>7. State \subseteq State' BY <1>3 DEF State
<1>8. pass' = pass /\ sidecar' = sidecar /\ forgotten' = forgotten /\ excused' = excused /\ graph' = graph
      /\ moves' = moves /\ mines' = mines /\ faults' = faults
  BY DEF Extend
<1>9. PassOK' BY <1>3, <1>7, <1>8 DEF PassOK
<1>10. TypeOK' BY <1>3, <1>6, <1>7, <1>8, <1>9
<1>11. PassInv' BY <1>8, WaitingPass
<1>12. (sidecar # NoState => Aggregates(sidecar, forgotten, excused))' BY <1>5, <1>8, SidecarKept
<1> QED BY <1>10, <1>11, <1>12

LEMMA CommitIInv ==
    ASSUME IInv, pass.at \in {"idle", "log"}, NEW fs \in Changes, Commit(fs)
    PROVE  IInv'
<1>1. (IF head = 0 THEN {} ELSE {head}) \in SUBSET Commits BY DEF IInv, TypeOK, RepositoryOK
<1> QED BY <1>1, ExtendIInv DEF Commit

LEMMA MergeIInv ==
    ASSUME IInv, pass.at \in {"idle", "log"}, NEW c \in Commits, Merge(c)
    PROVE  IInv'
<1>1. {head, c} \in SUBSET Commits BY DEF IInv, TypeOK, RepositoryOK, Merge
<1> QED BY <1>1, ExtendIInv DEF Merge

LEMMA CheckoutIInv ==
    ASSUME IInv, pass.at \in {"idle", "log"}, NEW c \in Commits, Checkout(c)
    PROVE  IInv'
<1> USE DEF IInv, TypeOK
<1>1. UNCHANGED <<parents, touched, objects, old, graph, pass, sidecar, forgotten, excused, mines, faults>> BY DEF Checkout
<1>2. Kept BY <1>1, UnchangedKept
<1>3. Commits' = Commits /\ State' = State BY <1>1 DEF Commits, State
<1>4. RepositoryOK' BY <1>1, <1>3 DEF Checkout, RepositoryOK
<1>5. PassOK' BY <1>1, <1>3 DEF PassOK
<1>6. moves' \in 0 .. MaxMoves
  <2>1. moves < MaxMoves /\ moves' = moves + 1 BY DEF Checkout
  <2> QED BY <2>1, BoundTypes
<1>7. TypeOK' BY <1>1, <1>3, <1>4, <1>5, <1>6
<1>8. PassInv' BY <1>1, WaitingPass
<1>9. (sidecar # NoState => Aggregates(sidecar, forgotten, excused))' BY <1>1, <1>2, SidecarKept
<1> QED BY <1>7, <1>8, <1>9

LEMMA PruneIInv ==
    ASSUME IInv, pass.at \in {"idle", "log"}, Prune
    PROVE  IInv'
<1> USE DEF IInv, TypeOK
<1>1. UNCHANGED <<parents, touched, head, old, graph, pass, sidecar, forgotten, excused, moves, mines, faults>> BY DEF Prune
<1>2. Kept BY <1>1, UnchangedKept
<1>3. Commits' = Commits /\ State' = State BY <1>1 DEF Commits, State
<1>4. objects' \subseteq Commits
  <2>1. head \in {0} \cup Commits BY DEF RepositoryOK
  <2> QED BY <2>1, AncType DEF Prune
<1>5. RepositoryOK' BY <1>1, <1>3, <1>4 DEF RepositoryOK
<1>6. PassOK' BY <1>1, <1>3 DEF PassOK
<1>7. TypeOK' BY <1>1, <1>3, <1>5, <1>6
<1>8. PassInv' BY <1>1, WaitingPass
<1>9. (sidecar # NoState => Aggregates(sidecar, forgotten, excused))' BY <1>1, <1>2, SidecarKept
<1> QED BY <1>7, <1>8, <1>9

LEMMA AgeIInv ==
    ASSUME IInv, pass.at \in {"idle", "log"}, Age
    PROVE  IInv'
<1> USE DEF IInv, TypeOK
<1>1. UNCHANGED <<parents, touched, objects, head, graph, pass, sidecar, forgotten, excused, moves, mines, faults>> BY DEF Age
<1>2. Kept BY <1>1, UnchangedKept
<1>3. Commits' = Commits /\ State' = State BY <1>1 DEF Commits, State
<1>4. RepositoryOK'
  <2>1. old' \in Nat BY DEF Age, RepositoryOK
  <2> QED BY <1>1, <1>3, <2>1 DEF RepositoryOK
<1>5. PassOK' BY <1>1, <1>3 DEF PassOK
<1>6. TypeOK' BY <1>1, <1>3, <1>4, <1>5
<1>7. PassInv' BY <1>1, WaitingPass
<1>8. (sidecar # NoState => Aggregates(sidecar, forgotten, excused))' BY <1>1, <1>2, SidecarKept
<1> QED BY <1>6, <1>7, <1>8

LEMMA DeveloperIInv ==
    ASSUME IInv, Developer
    PROVE  IInv'
<1>1. CASE \E fs \in Changes : Commit(fs) BY <1>1, CommitIInv DEF Developer
<1>2. CASE \E c \in Commits : Merge(c) BY <1>2, MergeIInv DEF Developer
<1>3. CASE \E c \in Commits : Checkout(c) BY <1>3, CheckoutIInv DEF Developer
<1>4. CASE Prune BY <1>4, PruneIInv DEF Developer
<1>5. CASE Age BY <1>5, AgeIInv DEF Developer
<1> QED BY <1>1, <1>2, <1>3, <1>4, <1>5 DEF Developer
(***************************************************************************)
(* The steps of a pass.                                                    *)
(***************************************************************************)
LEMMA PassForms ==
    ASSUME PassOK
    PROVE  /\ pass.at \in {"idle", "head", "log", "rewrite", "save"}
           /\ pass.at = "idle" => pass = Idle
           /\ pass.at = "head" => pass \in [at : {"head"}, full : BOOLEAN]
           /\ pass.at = "log" =>
                pass \in [at : {"log"}, full : BOOLEAN, head : Commits, state : State, excused : SUBSET Odd]
           /\ pass.at \in {"rewrite", "save"} =>
                pass \in [at : {"rewrite", "save"}, forgotten : SUBSET Commits, excused : SUBSET Odd, state : State]
BY DEF PassOK, Idle

LEMMA IndexIInv ==
    ASSUME IInv, NEW full \in BOOLEAN, NEW fs \in Trees, Index(full, fs)
    PROVE  IInv'
<1> USE DEF IInv, TypeOK
<1>1. UNCHANGED <<repository, sidecar, faults, forgotten, excused, skipped>> BY DEF Index
<1>2. RepositoryOK' /\ Kept /\ Commits' = Commits /\ State' = State BY <1>1, RepositorySame
<1>3. pass' = [at |-> "head", full |-> full] BY DEF Index
<1>4. PassOK' BY <1>3 DEF PassOK
<1>5. graph' \subseteq Files BY BoundsAssumption DEF Index
<1>6. mines' \in 0 .. MaxMines
  <2>1. mines < MaxMines /\ mines' = mines + 1 BY DEF Index
  <2> QED BY <2>1, BoundTypes
<1>7. moves' = moves BY <1>1 DEF repository
<1>8. TypeOK' BY <1>1, <1>2, <1>4, <1>5, <1>6, <1>7
<1>9. PassInv' BY <1>3 DEF PassInv
<1>10. (sidecar # NoState => Aggregates(sidecar, forgotten, excused))' BY <1>1, <1>2, SidecarKept
<1> QED BY <1>8, <1>9, <1>10

LEMMA ReadHeadIInv ==
    ASSUME IInv, ReadHead
    PROVE  IInv'
<1> USE DEF IInv, TypeOK
<1> DEFINE usable == ~pass.full /\ sidecar # NoState /\ git_known(sidecar.last_sha)
<1>1. UNCHANGED <<repository, graph, edges, sidecar, mines, faults, forgotten, excused, skipped>> BY DEF ReadHead
<1>2. RepositoryOK' /\ Kept /\ Commits' = Commits /\ State' = State BY <1>1, RepositorySame
<1>3. pass' = IF head = 0 THEN Idle
              ELSE [at |-> "log", full |-> ~usable, head |-> head,
                    state |-> IF usable THEN sidecar ELSE NewState, excused |-> IF usable THEN excused ELSE {}]
  BY DEF ReadHead
<1>4. NewState \in State BY DEF NewState, State
<1>5. usable => sidecar # NoState /\ sidecar \in State OBVIOUS
<1> HIDE DEF usable
<1>6. PassOK' /\ PassInv'
  <2>1. CASE head = 0
    <3>1. pass' = Idle BY <1>3, <2>1
    <3> QED BY <3>1 DEF PassOK, PassInv, Idle
  <2>2. CASE head # 0
    <3>1. head \in Commits BY <2>2 DEF RepositoryOK
    <3>2. CASE usable
      <4>1. pass' = [at |-> "log", full |-> FALSE, head |-> head, state |-> sidecar, excused |-> excused]
        BY <1>3, <2>2, <3>2
      <4>2. PassOK' BY <1>2, <1>5, <3>1, <3>2, <4>1 DEF PassOK
      <4>3. PassInv' BY <1>1, <1>5, <3>2, <4>1 DEF PassInv
      <4> QED BY <4>2, <4>3
    <3>3. CASE ~usable
      <4>1. pass' = [at |-> "log", full |-> TRUE, head |-> head, state |-> NewState, excused |-> {}]
        BY <1>3, <2>2, <3>3
      <4>2. PassOK' BY <1>2, <1>4, <3>1, <4>1 DEF PassOK
      <4>3. PassInv' BY <4>1 DEF PassInv
      <4> QED BY <4>2, <4>3
    <3> QED BY <3>2, <3>3
  <2> QED BY <2>1, <2>2
<1>7. moves' = moves BY <1>1 DEF repository
<1>8. TypeOK' BY <1>1, <1>2, <1>6, <1>7
<1>9. (sidecar # NoState => Aggregates(sidecar, forgotten, excused))' BY <1>1, <1>2, SidecarKept
<1> QED BY <1>6, <1>8, <1>9

\* The log a full pass reads, and what it leaves out for good.
LEMMA FullLog ==
    ASSUME RepositoryOK, NEW H \in Commits, H \in Anc(head)
    PROVE  LET range == {c \in Anc(head) : c > old}
               past == Anc(H) \cap 1 .. old
           IN /\ Covers(accumulate(NewState, read_commit_files(range)), Due(H, past))
              /\ H = head => Exact(accumulate(NewState, read_commit_files(range)), Due(H, past))
<1> DEFINE range == {c \in Anc(head) : c > old}
           past == Anc(H) \cap 1 .. old
           none == read_commit_files({})
<1>1. head \in {0} \cup Commits /\ old \in Nat BY DEF RepositoryOK
<1>2. Anc(head) \subseteq Commits /\ Anc(H) \subseteq Commits /\ Anc(H) \subseteq Anc(head) BY <1>1, AncType, AncClosed
<1>3. Commits \subseteq Nat \ {0} BY Numbered
<1>4. Anc(H) \ past = {c \in Anc(H) : c > old}
  <2>1. ASSUME NEW c \in Anc(H) PROVE c \in 1 .. old <=> ~(c > old)
    <3>1. c \in Nat /\ c # 0 BY <1>2, <1>3
    <3> QED BY <1>1, <3>1
  <2> QED BY <2>1
<1>5. range \in SUBSET Commits /\ Anc(H) \ past \in SUBSET Commits /\ Anc(H) \ past \subseteq range BY <1>2, <1>4
<1>6. H = head => Anc(H) \ past = range BY <1>4
<1>7. Due(H, past) = read_commit_files(Anc(H) \ past) BY DEF Due
<1> DEFINE R == Anc(H) \ past
<1>8. IsLog(read_commit_files(R)) /\ IsLog(read_commit_files(range)) BY <1>5, ReadLogs
<1>9. DOMAIN none = {} BY DEF read_commit_files
<1>10. IsLog(none) /\ Exact(NewState, none) /\ Covers(NewState, none) BY <1>9, NoLog
<1>11. R \in SUBSET Commits /\ range \in SUBSET Commits /\ R \subseteq range BY <1>5
<1> HIDE DEF R, range, past, none
<1>12. Within(read_commit_files(R), none, read_commit_files(range)) BY <1>11, RangesWithin DEF none
<1>13. Covers(accumulate(NewState, read_commit_files(range)), read_commit_files(R))
  BY <1>8, <1>10, <1>12, CoversJoin, NewStateIsAggregate
<1>14. ASSUME H = head PROVE Exact(accumulate(NewState, read_commit_files(range)), read_commit_files(R))
  <2>1. R = range BY <1>6, <1>14 DEF R
  <2>2. Splits(read_commit_files(R), none, read_commit_files(range)) BY <1>11, <2>1, RangesSplit DEF none
  <2> QED BY <1>8, <1>10, <2>2, ExactJoin, NewStateIsAggregate
<1> QED BY <1>7, <1>13, <1>14 DEF R, range, past

\* The log a pass reads that extends aggregates up to L.
LEMMA LogSince ==
    ASSUME RepositoryOK, NEW L \in Commits, NEW H \in Commits, NEW past, NEW state \in Aggregate
    PROVE  LET range == Anc(head) \ Anc(L)
           IN /\ H \in Anc(head) /\ Covers(state, Due(L, past)) =>
                   Covers(accumulate(state, read_commit_files(range)), Due(H, past))
              /\ H = head /\ L \in Anc(head) /\ past \subseteq Anc(L) /\ Exact(state, Due(L, past)) =>
                   /\ past \subseteq Anc(H)
                   /\ Exact(accumulate(state, read_commit_files(range)), Due(H, past))
<1> DEFINE range == Anc(head) \ Anc(L)
           R == Anc(H) \ past
           R1 == Anc(L) \ past
<1>1. head \in {0} \cup Commits BY DEF RepositoryOK
<1>2. Anc(head) \subseteq Commits /\ Anc(H) \subseteq Commits /\ Anc(L) \subseteq Commits BY <1>1, AncType
<1>3. range \in SUBSET Commits /\ R \in SUBSET Commits /\ R1 \in SUBSET Commits BY <1>2
<1>4. Due(H, past) = read_commit_files(R) /\ Due(L, past) = read_commit_files(R1) BY DEF Due
<1>5. H \in Anc(head) => R \subseteq R1 \cup range
  <2>1. H \in Anc(head) => Anc(H) \subseteq Anc(head) BY <1>1, AncClosed
  <2> QED BY <2>1
<1>6. ASSUME H = head, L \in Anc(head), past \subseteq Anc(L)
      PROVE  past \subseteq Anc(H) /\ R = R1 \cup range /\ R1 \cap range = {}
  <2>1. Anc(L) \subseteq Anc(head) BY <1>1, <1>6, AncClosed
  <2> QED BY <1>6, <2>1
<1> HIDE DEF range, R, R1
<1>7. IsLog(read_commit_files(range)) /\ IsLog(read_commit_files(R)) /\ IsLog(read_commit_files(R1)) BY <1>3, ReadLogs
<1>8. ASSUME H \in Anc(head), Covers(state, read_commit_files(R1))
      PROVE  Covers(accumulate(state, read_commit_files(range)), read_commit_files(R))
  <2>1. Within(read_commit_files(R), read_commit_files(R1), read_commit_files(range)) BY <1>3, <1>5, <1>8, RangesWithin
  <2> QED BY <1>7, <1>8, <2>1, CoversJoin
<1>9. ASSUME H = head, L \in Anc(head), past \subseteq Anc(L), Exact(state, read_commit_files(R1))
      PROVE  Exact(accumulate(state, read_commit_files(range)), read_commit_files(R))
  <2>1. Splits(read_commit_files(R), read_commit_files(R1), read_commit_files(range)) BY <1>3, <1>6, <1>9, RangesSplit
  <2> QED BY <1>7, <1>9, <2>1, ExactJoin
<1> QED BY <1>4, <1>6, <1>8, <1>9 DEF range

\* The new sha changes no aggregate.
LEMMA ShaAside ==
    ASSUME NEW state \in Aggregate, NEW sha \in Nat, NEW log
    PROVE  LET s == [state EXCEPT !.last_sha = sha]
           IN /\ s.last_sha = sha /\ s \in Aggregate
              /\ Covers(state, log) => Covers(s, log)
              /\ Exact(state, log) => Exact(s, log)
<1> DEFINE s == [state EXCEPT !.last_sha = sha]
<1>1. s.last_sha = sha /\ s \in Aggregate BY DEF Aggregate
<1>2. s.file_changes = state.file_changes /\ s.pairs = state.pairs BY DEF Aggregate
<1> HIDE DEF s
<1>3. (Covers(state, log) => Covers(s, log)) /\ (Exact(state, log) => Exact(s, log)) BY <1>2 DEF Covers, Exact
<1> QED BY <1>1, <1>3 DEF s
LEMMA ReadLogIInv ==
    ASSUME IInv, NEW fails \in BOOLEAN, ReadLog(fails)
    PROVE  IInv'
<1> USE DEF IInv, TypeOK
<1> DEFINE H == pass.head
           L == pass.state.last_sha
           range == range_args(pass.full, L)
           log == read_commit_files(IF fails THEN {} ELSE range)
           odd == (IF fails THEN {"log"} ELSE {})
                  \cup (IF head # H THEN {"race"} ELSE {})
                  \cup (IF H \notin Anc(head) THEN {"reset"} ELSE {})
                  \cup (IF ~pass.full /\ L \notin Anc(head) THEN {"rewrite"} ELSE {})
           past == IF pass.full THEN Anc(H) \cap 1 .. old ELSE forgotten
           mined == accumulate(pass.state, log)
           new == [mined EXCEPT !.last_sha = H]
<1>1. UNCHANGED <<repository, graph, edges, sidecar, mines, forgotten, excused, skipped>> BY DEF ReadLog
<1>2. RepositoryOK' /\ Kept /\ Commits' = Commits /\ State' = State BY <1>1, RepositorySame
<1>3. pass.at = "log" BY DEF ReadLog
<1>4. pass \in [at : {"log"}, full : BOOLEAN, head : Commits, state : State, excused : SUBSET Odd] BY <1>3, PassForms
<1>5. H \in Commits /\ H \in Nat /\ head \in {0} \cup Commits BY <1>4, Numbered DEF RepositoryOK
<1>6. pass.state \in State /\ pass.state \in Aggregate /\ pass.excused \subseteq Odd /\ pass.full \in BOOLEAN
  BY <1>4, StateIsAggregate
<1>7. pass' = [at |-> "rewrite", forgotten |-> past, excused |-> pass.excused \cup odd, state |-> new]
  BY DEF ReadLog
<1>8. range \in SUBSET Commits BY <1>5, AncType DEF range_args
<1>9. IsLog(log) BY <1>8, ReadLogs
<1>10. odd \subseteq Odd BY DEF Odd
<1>11. past \subseteq Commits BY <1>5, AncType
<1>12. mined \in Aggregate BY <1>6, <1>9, AccumulateType
<1>13. new.last_sha = H /\ new \in Aggregate BY <1>5, <1>12, ShaAside
<1>14. new \in State BY <1>5, <1>13 DEF State, Aggregate
<1>15. ~fails => log = read_commit_files(range) OBVIOUS
<1>16. "log" \notin odd => ~fails BY <1>5
<1>17. "reset" \notin odd => H \in Anc(head) OBVIOUS
<1>18. "race" \notin odd => H = head OBVIOUS
<1>19. "rewrite" \notin odd => pass.full \/ L \in Anc(head) OBVIOUS
<1>20. pass.full => past = Anc(H) \cap 1 .. old /\ range = {c \in Anc(head) : c > old} BY DEF range_args
<1>21. ~pass.full => past = forgotten /\ range = Anc(head) \ Anc(L) BY DEF range_args
<1>22. mined = accumulate(pass.state, log) OBVIOUS
<1>23. L = pass.state.last_sha OBVIOUS
<1> HIDE DEF H, L, range, log, odd, past, mined, new
<1>24. /\ ((pass.excused \cup odd) \cap {"log", "reset"} = {} => Covers(mined, Due(H, past)))
       /\ (pass.excused \cup odd = {} => past \subseteq Anc(H) /\ Exact(mined, Due(H, past)))
  <2>1. CASE pass.full
    <3>1. pass.state = NewState BY <1>3, <2>1 DEF PassInv
    <3>2. ASSUME ~fails, H \in Anc(head)
          PROVE  /\ Covers(mined, Due(H, past))
                 /\ H = head => Exact(mined, Due(H, past))
      <4>1. mined = accumulate(NewState, read_commit_files({c \in Anc(head) : c > old}))
        BY <1>15, <1>20, <1>22, <2>1, <3>1, <3>2
      <4> QED BY <1>5, <1>20, <2>1, <3>2, <4>1, FullLog
    <3>3. past \subseteq Anc(H) BY <1>20, <2>1
    <3> QED BY <1>16, <1>17, <1>18, <3>2, <3>3
  <2>2. CASE ~pass.full
    <3>1. sidecar # NoState /\ pass.state = sidecar /\ pass.excused = excused BY <1>3, <2>2 DEF PassInv
    <3>2. Aggregates(sidecar, forgotten, excused) BY <3>1
    <3>3. L \in Commits BY <1>23, <3>1, <3>2 DEF Aggregates
    <3>4. /\ excused \cap {"log", "reset"} = {} => Covers(pass.state, Due(L, forgotten))
          /\ excused = {} => forgotten \subseteq Anc(L) /\ Exact(pass.state, Due(L, forgotten))
      BY <1>23, <3>1, <3>2 DEF Aggregates
    <3>5. ~fails => mined = accumulate(pass.state, read_commit_files(Anc(head) \ Anc(L)))
      BY <1>15, <1>21, <1>22, <2>2
    <3>6. past = forgotten BY <1>21, <2>2
    <3>7. ASSUME ~fails, H \in Anc(head), Covers(pass.state, Due(L, past)) PROVE Covers(mined, Due(H, past))
      BY <1>5, <1>6, <3>3, <3>5, <3>7, LogSince
    <3>8. ASSUME ~fails, H = head, L \in Anc(head), past \subseteq Anc(L), Exact(pass.state, Due(L, past))
          PROVE  past \subseteq Anc(H) /\ Exact(mined, Due(H, past))
      BY <1>5, <1>6, <3>3, <3>5, <3>8, LogSince
    <3>9. ASSUME (pass.excused \cup odd) \cap {"log", "reset"} = {} PROVE Covers(mined, Due(H, past))
      <4>1. ~fails /\ H \in Anc(head) /\ excused \cap {"log", "reset"} = {} BY <1>16, <1>17, <3>1, <3>9
      <4> QED BY <3>4, <3>6, <3>7, <4>1
    <3>10. ASSUME pass.excused \cup odd = {} PROVE past \subseteq Anc(H) /\ Exact(mined, Due(H, past))
      <4>1. ~fails /\ H = head /\ L \in Anc(head) /\ excused = {} BY <1>16, <1>18, <1>19, <2>2, <3>1, <3>10
      <4> QED BY <3>4, <3>6, <3>8, <4>1
    <3> QED BY <3>9, <3>10
  <2> QED BY <1>6, <2>1, <2>2
<1>25. Aggregates(new, past, pass.excused \cup odd)
  <2>1. /\ Covers(mined, Due(H, past)) => Covers(new, Due(H, past))
        /\ Exact(mined, Due(H, past)) => Exact(new, Due(H, past))
    BY <1>5, <1>12, ShaAside DEF new
  <2>2. new.last_sha = H /\ H \in Commits BY <1>5, <1>13
  <2> QED BY <1>24, <2>1, <2>2 DEF Aggregates
<1>26. PICK s, p, o : s = new /\ p = past /\ o = pass.excused \cup odd OBVIOUS
<1>27. Aggregates(s, p, o)' BY <1>2, <1>25, <1>26, AggregatesKept
<1>28. pass'.at = "rewrite" /\ pass'.state = s /\ pass'.forgotten = p /\ pass'.excused = o BY <1>7, <1>26
<1>29. Aggregates(pass.state, pass.forgotten, pass.excused)'
  BY <1>27, <1>28 DEF Aggregates, Due, Anc, read_commit_files, CommitFiles, Commits
<1>30. PassInv' BY <1>28, <1>29 DEF PassInv
<1>31. PassOK' BY <1>2, <1>6, <1>7, <1>10, <1>11, <1>14 DEF PassOK
<1>32. faults' \in 0 .. MaxFaults
  <2>1. faults' = faults + (IF fails THEN 1 ELSE 0) /\ faults + (IF fails THEN 1 ELSE 0) <= MaxFaults BY DEF ReadLog
  <2> QED BY <2>1, BoundTypes
<1>33. moves' = moves BY <1>1 DEF repository
<1>34. TypeOK' BY <1>1, <1>2, <1>31, <1>32, <1>33
<1>35. (sidecar # NoState => Aggregates(sidecar, forgotten, excused))' BY <1>1, <1>2, SidecarKept
<1> QED BY <1>30, <1>34, <1>35

LEMMA RewriteIInv ==
    ASSUME IInv, rewrite_edges
    PROVE  IInv'
<1> USE DEF IInv, TypeOK
<1>1. UNCHANGED <<repository, graph, sidecar, mines, forgotten, excused>> BY DEF rewrite_edges
<1>2. RepositoryOK' /\ Kept /\ Commits' = Commits /\ State' = State BY <1>1, RepositorySame
<1>3. pass.at = "rewrite" /\ pass' = [pass EXCEPT !.at = "save"] BY DEF rewrite_edges
<1>4. pass \in [at : {"rewrite", "save"}, forgotten : SUBSET Commits, excused : SUBSET Odd, state : State]
  BY <1>3, PassForms
<1>5. /\ pass' \in [at : {"rewrite", "save"}, forgotten : SUBSET Commits, excused : SUBSET Odd, state : State]
      /\ pass'.at = "save" /\ pass'.state = pass.state /\ pass'.forgotten = pass.forgotten
      /\ pass'.excused = pass.excused
  BY <1>3, <1>4
<1>6. PassOK' BY <1>2, <1>5 DEF PassOK
<1>7. Aggregates(pass.state, pass.forgotten, pass.excused)' BY <1>2, <1>3, <1>5, PassKept
<1>8. edges' = coupled(pass'.state, graph') \ skipped' BY <1>1, <1>5 DEF rewrite_edges
<1>9. PassInv' BY <1>5, <1>7, <1>8 DEF PassInv
<1>10. moves' = moves BY <1>1 DEF repository
<1>11. faults' \in 0 .. MaxFaults
  <2>1. faults' = faults + (IF skipped' = {} THEN 0 ELSE 1) /\ faults' <= MaxFaults
    BY DEF rewrite_edges
  <2> QED BY <2>1, BoundTypes
<1>12. TypeOK' BY <1>1, <1>2, <1>6, <1>10, <1>11
<1>13. (sidecar # NoState => Aggregates(sidecar, forgotten, excused))' BY <1>1, <1>2, SidecarKept
<1> QED BY <1>9, <1>12, <1>13

LEMMA SaveIInv ==
    ASSUME IInv, save_state
    PROVE  IInv'
<1> USE DEF IInv, TypeOK
<1>1. UNCHANGED <<repository, graph, edges, mines, faults>> BY DEF save_state
<1>2. RepositoryOK' /\ Kept /\ Commits' = Commits /\ State' = State BY <1>1, RepositorySame
<1>3. pass.at = "save" BY DEF save_state
<1>4. pass \in [at : {"rewrite", "save"}, forgotten : SUBSET Commits, excused : SUBSET Odd, state : State]
  BY <1>3, PassForms
<1>5. pass' = Idle /\ sidecar' = pass.state /\ forgotten' = pass.forgotten /\ excused' = pass.excused BY DEF save_state
<1>6. PassOK' /\ PassInv' BY <1>5 DEF PassOK, PassInv, Idle
<1>7. moves' = moves BY <1>1 DEF repository
<1>8. TypeOK' BY <1>1, <1>2, <1>4, <1>5, <1>6, <1>7
<1>9. PICK s, p, o : s = pass.state /\ p = pass.forgotten /\ o = pass.excused OBVIOUS
<1>10. Aggregates(s, p, o) BY <1>3, <1>9 DEF PassInv
<1>11. Aggregates(s, p, o)' BY <1>2, <1>10, AggregatesKept
<1>12. sidecar' = s /\ forgotten' = p /\ excused' = o BY <1>5, <1>9
<1>13. Aggregates(sidecar, forgotten, excused)'
  BY <1>11, <1>12 DEF Aggregates, Due, Anc, read_commit_files, CommitFiles, Commits
<1> QED BY <1>6, <1>8, <1>13

LEMMA AbortIInv ==
    ASSUME IInv, Abort
    PROVE  IInv'
<1> USE DEF IInv, TypeOK
<1>1. UNCHANGED <<repository, graph, sidecar, mines, forgotten, excused>> BY DEF Abort
<1>2. RepositoryOK' /\ Kept /\ Commits' = Commits /\ State' = State BY <1>1, RepositorySame
<1>3. pass' = Idle BY DEF Abort
<1>4. PassOK' /\ PassInv' BY <1>3 DEF PassOK, PassInv, Idle
<1>5. faults' \in 0 .. MaxFaults
  <2>1. faults < MaxFaults /\ faults' = faults + 1 BY DEF Abort
  <2> QED BY <2>1, BoundTypes
<1>6. moves' = moves BY <1>1 DEF repository
<1>7. TypeOK' BY <1>1, <1>2, <1>4, <1>5, <1>6
<1>8. (sidecar # NoState => Aggregates(sidecar, forgotten, excused))' BY <1>1, <1>2, SidecarKept
<1> QED BY <1>4, <1>7, <1>8

LEMMA StutterIInv ==
    ASSUME IInv, UNCHANGED vars
    PROVE  IInv'
<1> USE DEF IInv, TypeOK
<1>1. UNCHANGED <<repository, graph, edges, sidecar, pass, mines, faults, forgotten, excused, skipped>> BY DEF vars, repository
<1>2. RepositoryOK' /\ Kept /\ Commits' = Commits /\ State' = State BY <1>1, RepositorySame
<1>3. PassOK' BY <1>1, <1>2 DEF PassOK
<1>4. moves' = moves BY <1>1 DEF repository
<1>5. TypeOK' BY <1>1, <1>2, <1>3, <1>4
<1>6. pass'.state = pass.state /\ pass'.forgotten = pass.forgotten /\ pass'.excused = pass.excused BY <1>1
<1>7. pass.at \in {"rewrite", "save"} => Aggregates(pass.state, pass.forgotten, pass.excused)' BY <1>2, <1>6, PassKept
<1>8. PassInv' BY <1>1, <1>7 DEF PassInv
<1>9. (sidecar # NoState => Aggregates(sidecar, forgotten, excused))' BY <1>1, <1>2, SidecarKept
<1> QED BY <1>5, <1>8, <1>9

LEMMA MineIInv ==
    ASSUME IInv, Mine
    PROVE  IInv'
<1>1. CASE \E full \in BOOLEAN, fs \in Trees : Index(full, fs) BY <1>1, IndexIInv
<1>2. CASE ReadHead BY <1>2, ReadHeadIInv
<1>3. CASE \E fails \in BOOLEAN : ReadLog(fails) BY <1>3, ReadLogIInv
<1>4. CASE rewrite_edges BY <1>4, RewriteIInv
<1>5. CASE save_state BY <1>5, SaveIInv
<1>6. CASE Abort BY <1>6, AbortIInv
<1> QED BY <1>1, <1>2, <1>3, <1>4, <1>5, <1>6 DEF Mine

(***************************************************************************)
(* The theorems.                                                           *)
(***************************************************************************)
\* MiningInvariant: whatever commits, merges, checkouts, prunes, failures and
\* kills come between its reads, a mining pass keeps IInv: the saved aggregates
\* and those about to be saved are those of the history they say they reach.
THEOREM MiningInvariant == Spec => []IInv
<1>1. Init => IInv BY InitIInv
<1>2. IInv /\ [Next]_vars => IInv' BY DeveloperIInv, MineIInv, StutterIInv DEF Next
<1> QED BY <1>1, <1>2, PTL DEF Spec

\* CoChangeTypes: the repository, the sidecar and the pass keep their types;
\* a commit is later than its parents.
THEOREM CoChangeTypes == Spec => []TypeOK
<1>1. IInv => TypeOK BY DEF IInv
<1> QED BY <1>1, MiningInvariant, PTL

\* NothingIsMissed: mine() leaves no commit out of the aggregates it saves that
\* the last full mining had in its window, unless git log failed or HEAD was
\* reset between the two reads.
THEOREM NothingIsMissed == Spec => []NothingMissed
<1>1. IInv => NothingMissed BY DEF IInv, Aggregates, NothingMissed
<1> QED BY <1>1, MiningInvariant, PTL

\* CommitsCountOnce: extended pass by pass, the aggregates are those of one
\* pass over the whole history.
THEOREM CommitsCountOnce == Spec => []CountedOnce
<1>1. IInv => CountedOnce BY DEF IInv, Aggregates, CountedOnce
<1> QED BY <1>1, MiningInvariant, PTL

\* EdgesFollowAggregates: when save_state replaces the sidecar, the edges that
\* rewrite_edges left are those of the aggregates saved, but for the ones whose
\* insert failed in this pass: no edge is wrong or left over, and none that an
\* earlier pass skipped stays away.
THEOREM EdgesFollowAggregates == Spec => EdgesOfAggregates
<1>1. IInv /\ [Next]_vars => [sidecar' # sidecar => edges' = coupled(sidecar', graph') \ skipped]_vars
  <2> SUFFICES ASSUME IInv, Next, sidecar' # sidecar PROVE edges' = coupled(sidecar', graph') \ skipped BY DEF vars
  <2>1. CASE Developer BY <2>1 DEF Developer, Commit, Merge, Extend, Checkout, Prune, Age
  <2>2. CASE Mine
    <3>1. save_state BY <2>2 DEF Mine, Index, ReadHead, ReadLog, rewrite_edges, Abort
    <3>2. pass.at = "save" /\ sidecar' = pass.state /\ edges' = edges /\ graph' = graph BY <3>1 DEF save_state
    <3>3. edges = coupled(pass.state, graph) \ skipped BY <3>2 DEF IInv, PassInv
    <3> QED BY <3>2, <3>3
  <2> QED BY <2>1, <2>2 DEF Next
<1> QED BY <1>1, MiningInvariant, PTL DEF Spec, EdgesOfAggregates
=============================================================================

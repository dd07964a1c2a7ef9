---------------------------- MODULE Collect_proof ----------------------------
(***************************************************************************)
(* Proofs about Collect and Selection, for every page size, filter and     *)
(* number of items: the queries list every PR the filters select, the PR   *)
(* gauges are exact but for what changed during the scan, an issue is      *)
(* counted again once per created item at most, a dashboard that stayed    *)
(* open is found, and its sections are counted, whatever it says.          *)
(***************************************************************************)
EXTENDS Collect, FiniteSetTheorems, TLAPS

-----------------------------------------------------------------------------
(* Selection *)

\* The login that the client derives is the one REST gives, for App bots too.
LEMMA LoginSurvivesGraphQL ==
  ASSUME NEW user \in Names
  PROVE  AuthorLogin(GraphQLAuthor(user)) = user
<1> DEFINE a == GraphQLAuthor(user)
<1>1. /\ a.login = [user EXCEPT !.suffix = ""]
      /\ a.type = IF user = Nobody THEN "none" ELSE IF user.suffix = "[bot]" THEN "Bot" ELSE "User"
  BY DEF GraphQLAuthor
<1>2. user.suffix \in {"", "[bot]"} /\ [[user EXCEPT !.suffix = ""] EXCEPT !.suffix = user.suffix] = user
  BY DEF Names
<1> QED BY <1>1, <1>2 DEF AuthorLogin, Names

\* A page says of a PR what its state is.
LEMMA StateSurvivesGraphQL ==
  ASSUME NEW n \in Number, NEW s \in {"open", "draft", "closed", "merged"}
  PROVE  /\ NormaliseState(Node(n, s)) = s
         /\ Node(n, s).state = GraphQLState(s)
         /\ Node(n, s).labels = world.about[n].labels
         /\ Node(n, s).author = GraphQLAuthor(world.about[n].user)
         /\ Node(n, s).head = world.about[n].head
<1> DEFINE p == Node(n, s)
<1>1. /\ p.state = IF s \in {"open", "draft"} THEN "OPEN" ELSE IF s = "closed" THEN "CLOSED" ELSE "MERGED"
      /\ (p.draft <=> s = "draft")
      /\ p.labels = world.about[n].labels
      /\ p.author = GraphQLAuthor(world.about[n].user)
      /\ p.head = world.about[n].head
  BY DEF Node
<1> HIDE DEF p
<1>2. NormaliseState(p) = s
  <2>1. CASE s = "open"
    BY <1>1, <2>1 DEF NormaliseState
  <2>2. CASE s = "draft"
    BY <1>1, <2>2 DEF NormaliseState
  <2>3. CASE s = "closed"
    BY <1>1, <2>3 DEF NormaliseState
  <2>4. CASE s = "merged"
    BY <1>1, <2>4 DEF NormaliseState
  <2> QED BY <2>1, <2>2, <2>3, <2>4
<1>3. p.state = GraphQLState(s)
  BY <1>1 DEF GraphQLState
<1> QED BY <1>1, <1>2, <1>3 DEF p

\* The labels a page brings are some of the PR's, and all of them if they fit.
LEMMA LabelsFetched ==
  ASSUME NEW labels \in Seq(Names)
  PROVE  /\ FetchedLabels(labels) \subseteq ToSet(labels)
         /\ Len(labels) <= LabelLimit => FetchedLabels(labels) = ToSet(labels)
<1> USE ParameterAssumption DEF ParameterAssumption
<1> DEFINE k == IF Len(labels) < LabelLimit THEN Len(labels) ELSE LabelLimit
           f == SubSeq(labels, 1, k)
<1>1. Len(labels) \in Nat /\ k \in 0 .. Len(labels) /\ DOMAIN labels = 1 .. Len(labels)
  OBVIOUS
<1>2. DOMAIN f = 1 .. k /\ \A i \in 1 .. k : f[i] = labels[i]
  BY <1>1
<1>3. FetchedLabels(labels) = {f[i] : i \in DOMAIN f} /\ ToSet(labels) = {labels[i] : i \in DOMAIN labels}
  BY DEF FetchedLabels, ToSet
<1>4. Len(labels) <= LabelLimit => k = Len(labels)
  <2>1. LabelLimit \in Nat
    OBVIOUS
  <2>2. \A i, j \in Nat : i <= j /\ ~(i < j) => i = j
    OBVIOUS
  <2> QED BY <1>1, <2>1, <2>2
<1> HIDE DEF f, k
<1>5. FetchedLabels(labels) \subseteq ToSet(labels)
  BY <1>1, <1>2, <1>3
<1>6. ASSUME k = Len(labels) PROVE FetchedLabels(labels) = ToSet(labels)
  BY <1>1, <1>2, <1>3, <1>6
<1> QED BY <1>4, <1>5, <1>6

\* The parts of the target's filter and of its items that the filters read.
LEMMA WorldTyped ==
  ASSUME world \in Worlds, NEW n \in Number
  PROVE  /\ world.prs.states \subseteq Names
         /\ world.about[n].user \in Names /\ world.about[n].labels \in Seq(Names)
BY ParameterAssumption DEF ParameterAssumption

\* The queries' arguments hide no PR that the filter selects, in any state.
LEMMA MatchedIsListed ==
  ASSUME world \in Worlds, NEW n \in Number, NEW s \in {"open", "draft", "closed", "merged"},
         Match(world.prs, Node(n, s))
  PROVE  GitHubLists(ServerStates(world.prs), world.prs.includeLabels, Node(n, s))
<1> DEFINE f == world.prs
           p == Node(n, s)
<1>1. /\ NormaliseState(p) = s /\ p.state = GraphQLState(s)
      /\ p.labels \in Seq(Names) /\ f.states \subseteq Names
  BY WorldTyped, StateSurvivesGraphQL
<1>2. /\ f.states # {} => ContainsCI(f.states, Name(s))
      /\ f.includeLabels # {} => \E l \in f.includeLabels : ContainsCI(FetchedLabels(p.labels), l)
  BY <1>1 DEF Match, PRMatch
<1> HIDE DEF f, p
<1>3. ServerStates(f) # {} => p.state \in ServerStates(f)
  <2> SUFFICES ASSUME ServerStates(f) # {} PROVE p.state \in ServerStates(f)
    OBVIOUS
  <2>1. f.states # {}
    BY DEF ServerStates
  <2>2. PICK x \in f.states : Lower(x) = Lower(Name(s))
    BY <1>2, <2>1 DEF ContainsCI, EqualFold
  <2>3. x \in Names
    BY <1>1
  <2>4. Lower(x).word = x.word /\ Lower(x).suffix = x.suffix
    BY <2>3 DEF Lower, Names
  <2>5. Lower(Name(s)).word = s /\ Lower(Name(s)).suffix = ""
    BY DEF Lower, Name
  <2>6. x.word = s /\ x.suffix = ""
    BY <2>2, <2>4, <2>5
  <2>7. GraphQLState(Lower(x).word) \in ServerStates(f)
    BY <2>6 DEF ServerStates
  <2> QED BY <1>1, <2>4, <2>6, <2>7
<1>4. f.includeLabels # {} => \E l \in f.includeLabels : ContainsCI(ToSet(p.labels), l)
  BY <1>1, <1>2, LabelsFetched DEF ContainsCI
<1> QED BY <1>3, <1>4 DEF GitHubLists, f, p

\* Of a PR whose labels fit on a page, the filter judges what it is meant to.
LEMMA MatchedIsWanted ==
  ASSUME world \in Worlds, NEW n \in Number \ Overlong, NEW s \in {"open", "draft"}
  PROVE  Match(world.prs, Node(n, s)) <=> Wanted(n, s)
<1>1. /\ NormaliseState(Node(n, s)) = s /\ Node(n, s).head = world.about[n].head
      /\ Node(n, s).labels = world.about[n].labels
      /\ Node(n, s).author = GraphQLAuthor(world.about[n].user)
  BY StateSurvivesGraphQL
<1>2. world.about[n].user \in Names /\ world.about[n].labels \in Seq(Names)
  BY WorldTyped
<1>3. AuthorLogin(GraphQLAuthor(world.about[n].user)) = world.about[n].user
  BY <1>2, LoginSurvivesGraphQL
<1>4. FetchedLabels(world.about[n].labels) = ToSet(world.about[n].labels)
  <2>1. Len(world.about[n].labels) \in Nat /\ LabelLimit \in Nat
        /\ ~(Len(world.about[n].labels) > LabelLimit)
    BY <1>2, ParameterAssumption DEF Overlong, ParameterAssumption
  <2>2. \A i, j \in Nat : ~(i > j) => i <= j
    OBVIOUS
  <2> QED BY <1>2, <2>1, <2>2, LabelsFetched
<1> QED BY <1>1, <1>3, <1>4 DEF Match, Wanted

\* A PR in a state of the open ones is listed by the query for open PRs, and
\* there is one unless the scan is skipped.
LEMMA OpenIsListed ==
  ASSUME world \in Worlds, NEW n \in Number, NEW s \in {"open", "draft"},
         Match(world.prs, Node(n, s))
  PROVE  /\ GitHubLists({"OPEN"}, world.prs.includeLabels, Node(n, s))
         /\ ~SkipOpen(world.prs)
<1>1. GitHubLists(ServerStates(world.prs), world.prs.includeLabels, Node(n, s))
  BY MatchedIsListed
<1>2. Node(n, s).state = "OPEN"
  BY StateSurvivesGraphQL DEF GraphQLState
<1> QED BY <1>1, <1>2 DEF GitHubLists, SkipOpen

-----------------------------------------------------------------------------
(* Numbers and ranks *)

\* Some natural numbers have a least one; if they are bounded, a greatest one.
LEMMA Least ==
  ASSUME NEW S \in SUBSET Nat, S # {}
  PROVE  \E x \in S : \A m \in S : x <= m
<1>1. PICK x \in S : \A m \in S : ~(<<m, x>> \in OpToRel(<, Nat))
  BY NatLessThanWellFounded, WFMin
<1>2. ASSUME NEW m \in S PROVE x <= m
  <2>1. m \in Nat /\ x \in Nat /\ ~(m < x)
    BY <1>1 DEF OpToRel
  <2> QED BY <2>1
<1> QED BY <1>2

LEMMA Greatest ==
  ASSUME NEW n \in Nat, NEW S \in SUBSET (1 .. n), S # {}
  PROVE  Max(S) \in S /\ \A m \in S : m <= Max(S)
<1> DEFINE D == {n - m : m \in S}
<1>1. D \subseteq Nat /\ D # {}
  <2>1. \A m \in 1 .. n : n - m \in Nat
    OBVIOUS
  <2> QED BY <2>1
<1>2. PICK d \in D : \A e \in D : d <= e
  BY <1>1, Least
<1>3. PICK x \in S : d = n - x
  OBVIOUS
<1>4. \A m \in S : x >= m
  <2> TAKE m \in S
  <2>1. n - x <= n - m
    BY <1>2, <1>3
  <2> QED BY <2>1
<1>5. \E y \in S : \A m \in S : y >= m
  BY <1>4
<1> HIDE DEF D
<1>6. Max(S) \in S /\ \A m \in S : Max(S) >= m
  BY <1>5 DEF Max
<1> QED BY <1>6

\* The greatest and the least of some items.
LEMMA MaxOf ==
  ASSUME NEW S \in SUBSET Number, S # {}
  PROVE  Max(S) \in S /\ \A m \in S : m <= Max(S)
BY Greatest, ParameterAssumption DEF Number, ParameterAssumption

LEMMA MinOf ==
  ASSUME NEW S \in SUBSET Number, S # {}
  PROVE  Min(S) \in S /\ \A m \in S : Min(S) <= m
<1>1. \E x \in S : \A m \in S : x <= m
  BY Least DEF Number
<1> QED BY <1>1 DEF Min

\* All the items are finitely many.
LEMMA FewNumbers ==
  ASSUME NEW S \in SUBSET Number
  PROVE  IsFiniteSet(S) /\ Cardinality(S) \in Nat
<1>1. IsFiniteSet(Number)
  BY FS_Interval, ParameterAssumption DEF Number, ParameterAssumption
<1> QED BY <1>1, FS_Subset, FS_CardinalityType

\* A rank in a larger list is no smaller, and an item's own list is longer.
LEMMA RankGrows ==
  ASSUME NEW A \in SUBSET Number, NEW B \in SUBSET Number, A \subseteq B, NEW n \in Number
  PROVE  /\ Cardinality({m \in A : m > n}) \in Nat
         /\ Cardinality({m \in A : m > n}) <= Cardinality({m \in B : m > n})
<1>1. {m \in A : m > n} \subseteq {m \in B : m > n} /\ {m \in B : m > n} \subseteq Number
  OBVIOUS
<1> QED BY <1>1, FewNumbers, FS_Subset

LEMMA RankBelowLength ==
  ASSUME NEW A \in SUBSET Number, NEW n \in A
  PROVE  Cardinality({m \in A : m > n}) < Cardinality(A)
<1> DEFINE R == {m \in A : m > n}
<1>1. R \subseteq A /\ n \notin R
  BY DEF Number
<1>2. IsFiniteSet(A) /\ Cardinality(A) \in Nat /\ Cardinality(R) \in Nat
  BY <1>1, FewNumbers
<1>3. Cardinality(R) <= Cardinality(A) /\ Cardinality(A) # Cardinality(R)
  BY <1>1, <1>2, FS_Subset
<1> HIDE DEF R
<1>4. Cardinality(R) < Cardinality(A)
  BY <1>2, <1>3
<1> QED BY <1>4 DEF R

\* Of two listed items the older has the greater rank.
LEMMA RanksDiffer ==
  ASSUME NEW A \in SUBSET Number, NEW n \in A, NEW k \in A, n < k
  PROVE  Cardinality({m \in A : m > k}) < Cardinality({m \in A : m > n})
<1> DEFINE R == {m \in A : m > k}
           S == {m \in A : m > n}
<1>1. R \subseteq S /\ k \in S /\ k \notin R /\ S \subseteq Number
  <2>1. A \subseteq Nat /\ n \in Nat /\ k \in Nat
    BY DEF Number
  <2>2. \A i, j, l \in Nat : (i > j /\ l < j => i > l) /\ ~(i > i) /\ (l < j => j > l)
    OBVIOUS
  <2>3. R \subseteq S
    BY <2>1, <2>2
  <2> QED BY <2>1, <2>2, <2>3
<1>2. IsFiniteSet(S) /\ Cardinality(S) \in Nat /\ Cardinality(R) \in Nat
  BY <1>1, FewNumbers
<1>3. Cardinality(R) <= Cardinality(S) /\ Cardinality(S) # Cardinality(R)
  BY <1>1, <1>2, FS_Subset
<1> HIDE DEF R, S
<1>4. Cardinality(R) < Cardinality(S)
  BY <1>2, <1>3
<1> QED BY <1>4 DEF R, S

-----------------------------------------------------------------------------
(* The steps *)

\* A step starts a listing, changes one item, reads a page or changes nothing.
Restart == /\ scan' = NoScan /\ changes' = Fresh
           /\ world' = world /\ item' = item
           /\ at' \in 0 .. Len(Collectors)

LEMMA StepKinds ==
  ASSUME TypeOK, [Next]_vars
  PROVE  Restart \/ GitHubStep \/ ReadPage \/ UNCHANGED vars
<1>1. Len(Collectors) \in Nat \ {0}
  BY DEF Collectors
<1>2. at \in 0 .. Len(Collectors)
  BY DEF TypeOK
<1>3. CASE Begin
  BY <1>1, <1>3 DEF Begin, Restart
<1>4. CASE NextCollector
  <2>1. at' \in 0 .. Len(Collectors)
    BY <1>1, <1>2, <1>4 DEF NextCollector
  <2> QED BY <1>4, <2>1 DEF NextCollector, Restart
<1> QED BY <1>3, <1>4 DEF Next, Finish, Fail

\* One item changes, and the listing it changes under goes on.
LEMMA OneChange ==
  ASSUME TypeOK, GitHubStep
  PROVE  \E n \in Number :
           /\ Listing /\ world' = world /\ at' = at /\ scan' = scan
           /\ item' \in [Number -> State]
           /\ \A m \in Number \ {n} : item'[m] = item[m]
           /\ changes'.steady = changes.steady \ {n}
           /\ item'[n] # "none"
           /\ \/ /\ item[n] = "none" /\ item'[n] \in {"open", "draft"}
                 /\ changes'.created = changes.created + 1
                 /\ changes'.shut = changes.shut /\ changes'.removed = changes.removed
              \/ /\ item[n] \in {"open", "draft"} /\ item'[n] = "closed"
                 /\ changes'.created = changes.created
                 /\ changes'.shut = changes.shut + 1 /\ changes'.removed = changes.removed
              \/ /\ item[n] \in {"closed", "draft"} /\ item'[n] = "open"
                 /\ changes'.created = changes.created
                 /\ changes'.shut = changes.shut /\ changes'.removed = changes.removed
              \/ /\ item[n] \in {"open", "closed"} /\ item'[n] = "gone"
                 /\ changes'.created = changes.created
                 /\ changes'.shut = IF item[n] = "open" THEN changes.shut + 1 ELSE changes.shut
                 /\ changes'.removed = changes.removed + 1
           /\ changes' \in [made : 0 .. MaxChanges, steady : SUBSET Number,
                           created : Nat, shut : Nat, removed : Nat]
<1>1. item \in [Number -> State]
  BY DEF TypeOK
<1>2. /\ changes.created \in Nat /\ changes.shut \in Nat /\ changes.removed \in Nat
  BY DEF TypeOK
<1>3. PICK n \in Number : Create(n) \/ Close(n) \/ Reopen(n) \/ Ready(n) \/ Delete(n)
  BY DEF GitHubStep
<1>4. ASSUME NEW s \in State, NEW c \in {0, 1}, NEW h \in {0, 1}, NEW r \in {0, 1},
             Become(n, s, c, h, r)
      PROVE  /\ Listing /\ world' = world /\ at' = at /\ scan' = scan
             /\ item' \in [Number -> State]
             /\ item'[n] = s /\ \A m \in Number \ {n} : item'[m] = item[m]
             /\ changes'.steady = changes.steady \ {n}
             /\ changes'.created = changes.created + c
             /\ changes'.shut = changes.shut + h
             /\ changes'.removed = changes.removed + r
             /\ changes' \in [made : 0 .. MaxChanges, steady : SUBSET Number,
                             created : Nat, shut : Nat, removed : Nat]
  <2>1. /\ changes.made \in 0 .. MaxChanges /\ changes.steady \subseteq Number
        /\ changes.made < MaxChanges /\ MaxChanges \in Nat
    BY <1>4, ParameterAssumption DEF Become, TypeOK, ParameterAssumption
  <2>2. \A i, j \in Nat : i \in 0 .. j /\ i < j => i + 1 \in 0 .. j
    OBVIOUS
  <2>3. changes.made + 1 \in 0 .. MaxChanges
    BY <2>1, <2>2
  <2>4. changes.created + c \in Nat /\ changes.shut + h \in Nat /\ changes.removed + r \in Nat
    BY <1>2
  <2> QED BY <1>1, <1>4, <2>1, <2>3, <2>4 DEF Become
<1>5. CASE Create(n)
  <2>1. PICK s \in {"open", "draft"} : Become(n, s, 1, 0, 0)
    BY <1>5 DEF Create
  <2>2. item[n] = "none" /\ s \in State
    BY <1>5 DEF Create, State
  <2> QED BY <1>2, <1>4, <2>1, <2>2
<1>6. CASE Close(n)
  <2>1. Become(n, "closed", 0, 1, 0) /\ item[n] \in {"open", "draft"} /\ "closed" \in State
    BY <1>6 DEF Close, InOpenList, State
  <2> QED BY <1>2, <1>4, <2>1
<1>7. CASE Reopen(n) \/ Ready(n)
  <2>1. Become(n, "open", 0, 0, 0) /\ item[n] \in {"closed", "draft"} /\ "open" \in State
    BY <1>7 DEF Reopen, Ready, State
  <2> QED BY <1>2, <1>4, <2>1
<1>8. CASE Delete(n)
  <2>1. /\ Become(n, "gone", 0, IF item[n] = "open" THEN 1 ELSE 0, 1)
        /\ item[n] \in {"open", "closed"} /\ "gone" \in State
    BY <1>8 DEF Delete, InOpenList, State
  <2> QED BY <1>2, <1>4, <2>1
<1> QED BY <1>3, <1>5, <1>6, <1>7, <1>8

\* What a page shows is listed, with the item's state as it is.
LEMMA PagesOfNumbers ==
  ASSUME TypeOK, NEW cursor, NEW state, NEW k
  PROVE  /\ PRPage(cursor) \subseteq After(cursor) /\ After(cursor) \subseteq Number
         /\ RestPage(state, k) \subseteq InState(state) /\ InState(state) \subseteq Number
BY DEF PRPage, After, RestPage, InState

\* The observations of a page are as many as its items, and new ones.
LEMMA ObservedPage ==
  ASSUME TypeOK, NEW P \in SUBSET Number
  PROVE  /\ Observed(P) \subseteq Nat \X Number \X State
         /\ \A o \in Observed(P) : o[1] = scan.page /\ o[2] \in P /\ o[3] = item[o[2]]
         /\ \A n \in P : <<scan.page, n, item[n]>> \in Observed(P)
         /\ IsFiniteSet(Observed(P)) /\ Cardinality(Observed(P)) = Cardinality(P)
         /\ Numbers(Observed(P)) = P
<1>1. item \in [Number -> State] /\ scan.page \in Nat
  BY DEF TypeOK
<1>2. /\ Observed(P) \subseteq Nat \X Number \X State
      /\ \A o \in Observed(P) : o[1] = scan.page /\ o[2] \in P /\ o[3] = item[o[2]]
      /\ \A n \in P : <<scan.page, n, item[n]>> \in Observed(P)
  BY <1>1 DEF Observed
<1> DEFINE f == [n \in P |-> <<scan.page, n, item[n]>>]
<1>3. f \in Bijection(P, Observed(P))
  <2>1. f \in [P -> Observed(P)]
    BY <1>2
  <2>2. \A n, m \in P : f[n] = f[m] => n = m
    OBVIOUS
  <2>3. \A o \in Observed(P) : \E n \in P : f[n] = o
    BY DEF Observed
  <2> HIDE DEF f
  <2> QED BY <2>1, <2>2, <2>3 DEF Bijection, Injection, Surjection, IsInjective
<1>4. IsFiniteSet(P)
  BY FewNumbers
<1>5. ExistsBijection(P, Observed(P))
  BY <1>3 DEF ExistsBijection
<1>6. IsFiniteSet(Observed(P)) /\ Cardinality(Observed(P)) = Cardinality(P)
  BY <1>4, <1>5, FS_Bijection
<1>7. Numbers(Observed(P)) = P
  <2>1. Numbers(Observed(P)) \subseteq P
    BY <1>2 DEF Numbers
  <2>2. ASSUME NEW n \in P PROVE n \in Numbers(Observed(P))
    <3>1. <<scan.page, n, item[n]>> \in Observed(P) /\ <<scan.page, n, item[n]>>[2] = n
      BY <1>2
    <3> QED BY <3>1 DEF Numbers
  <2> QED BY <2>1, <2>2
<1> QED BY <1>2, <1>6, <1>7

\* Every step preserves the types.
LEMMA TypeStep ==
  ASSUME TypeOK, [Next]_vars
  PROVE  TypeOK'
<1>1. /\ scan.page \in Nat \ {0} /\ scan.cursor \in 0 .. MaxItems
      /\ scan.seen \subseteq Nat \X Number \X State /\ IsFiniteSet(scan.seen)
  BY DEF TypeOK
<1>2. CASE Restart
  <2>1. /\ NoScan \in [page : Nat \ {0}, cursor : 0 .. MaxItems, seen : SUBSET (Nat \X Number \X State),
                      found : 0 .. MaxItems, body : Bodies \cup {<<>>}, done : BOOLEAN]
        /\ Fresh \in [made : 0 .. MaxChanges, steady : SUBSET Number, created : Nat, shut : Nat, removed : Nat]
    BY ParameterAssumption DEF NoScan, Fresh, ParameterAssumption
  <2>2. IsFiniteSet(NoScan.seen)
    BY FS_EmptySet DEF NoScan
  <2>3. Collectors' = Collectors
    BY <1>2 DEF Restart, Collectors
  <2> QED BY <1>2, <2>1, <2>2, <2>3 DEF Restart, TypeOK
<1>3. CASE GitHubStep
  <2>1. PICK n \in Number :
          /\ world' = world /\ at' = at /\ scan' = scan /\ item' \in [Number -> State]
          /\ changes' \in [made : 0 .. MaxChanges, steady : SUBSET Number,
                           created : Nat, shut : Nat, removed : Nat]
    BY <1>3, OneChange
  <2> QED BY <2>1 DEF TypeOK, Collectors
<1>4. CASE ReadPage
  <2>1. world' = world /\ item' = item /\ at' = at /\ changes' = changes
    BY <1>4 DEF ReadPage, SkipPRs, ReadPRs, ReadIssues, ReadOpenIssues
  <2>2. scan.page + 1 \in Nat \ {0}
    BY <1>1
  <2>3. ASSUME NEW P \in SUBSET Number
        PROVE  /\ scan.seen \cup Observed(P) \in SUBSET (Nat \X Number \X State)
               /\ IsFiniteSet(scan.seen \cup Observed(P))
    BY <1>1, ObservedPage, FS_Union
  <2>4. CASE SkipPRs
    BY <2>1, <2>4 DEF SkipPRs, TypeOK, Collectors
  <2>5. CASE ReadPRs
    <3> DEFINE page == PRPage(scan.cursor)
    <3>1. page \subseteq Number
      BY PagesOfNumbers
    <3>2. (IF page = {} THEN scan.cursor ELSE Max(page)) \in 0 .. MaxItems
      BY <1>1, <3>1, MaxOf DEF Number
    <3>3. {n \in page : Match(world.prs, Node(n, item[n]))} \in SUBSET Number
      BY <3>1
    <3> DEFINE seen == scan.seen \cup Observed({n \in page : Match(world.prs, Node(n, item[n]))})
               cursor == IF page = {} THEN scan.cursor ELSE Max(page)
    <3>4. seen \in SUBSET (Nat \X Number \X State) /\ IsFiniteSet(seen)
      BY <2>3, <3>3
    <3>5. scan' = [scan EXCEPT !.seen = seen, !.page = scan.page + 1, !.cursor = cursor,
                               !.done = After(scan.cursor) = page]
      BY <2>5 DEF ReadPRs
    <3> HIDE DEF page, seen, cursor
    <3> QED BY <2>1, <2>2, <3>2, <3>4, <3>5 DEF TypeOK, Collectors, cursor
  <2>6. CASE ReadIssues
    <3> DEFINE page == RestPage("all", scan.page)
               seen == scan.seen \cup Observed({n \in page : ~IsPR(n) /\ Selects(n)})
    <3>1. page \subseteq Number
      BY PagesOfNumbers
    <3>2. seen \in SUBSET (Nat \X Number \X State) /\ IsFiniteSet(seen)
      <4>1. {n \in page : ~IsPR(n) /\ Selects(n)} \in SUBSET Number
        BY <3>1
      <4> QED BY <2>3, <4>1
    <3>3. scan' = [scan EXCEPT !.seen = seen, !.page = scan.page + 1,
                               !.done = ~HasNextPage("all", scan.page)]
      BY <2>6 DEF ReadIssues
    <3> HIDE DEF page, seen
    <3> QED BY <2>1, <2>2, <3>2, <3>3 DEF TypeOK, Collectors
  <2>7. CASE ReadOpenIssues
    <3> DEFINE matches == Dashboards(RestPage("open", scan.page))
               found == IF matches = {} THEN 0 ELSE Max(matches)
    <3>1. matches \subseteq Number
      BY PagesOfNumbers DEF Dashboards
    <3>2. found \in 0 .. MaxItems
      BY <3>1, MaxOf, ParameterAssumption DEF Number, ParameterAssumption
    <3>3. PICK body \in Bodies \cup {<<>>} :
            scan' = [scan EXCEPT !.found = found, !.body = body, !.page = scan.page + 1,
                                 !.done = matches # {} \/ ~HasNextPage("open", scan.page)]
      BY <2>7 DEF ReadOpenIssues
    <3> HIDE DEF matches, found
    <3> QED BY <2>1, <2>2, <3>2, <3>3 DEF TypeOK, Collectors
  <2> QED BY <1>4, <2>4, <2>5, <2>6, <2>7 DEF ReadPage
<1>5. CASE UNCHANGED vars
  BY <1>5 DEF vars, TypeOK, Collectors
<1> QED BY <1>2, <1>3, <1>4, <1>5, StepKinds

-----------------------------------------------------------------------------
(* The scan of the open PRs *)

\* The collector that runs and what its target is stay the same in a listing.
LEMMA SameRun ==
  ASSUME world' = world, at' = at
  PROVE  \A c : Runs(c)' = Runs(c)
BY DEF Runs, Collector, Collectors

\* What a page says of a PR depends on its state only.
LEMMA SamePR ==
  ASSUME world' = world, NEW n \in Number, item'[n] = item[n]
  PROVE  /\ IsPR(n)' = IsPR(n) /\ InOpenList(n)' = InOpenList(n)
         /\ Match(world.prs, Node(n, item[n]))' = Match(world.prs, Node(n, item[n]))
BY DEF IsPR, InOpenList, Node

LEMMA SameNode ==
  ASSUME world' = world, NEW n, NEW s
  PROVE  /\ IsPR(n)' = IsPR(n)
         /\ Match(world.prs, Node(n, s))' = Match(world.prs, Node(n, s))
BY DEF IsPR, Node

\* A page holds the oldest PRs after the cursor, and passes over none.
LEMMA PageHasOldest ==
  ASSUME TypeOK, NEW c \in 0 .. MaxItems, PRPage(c) # {},
         NEW n \in After(c), n <= Max(PRPage(c))
  PROVE  n \in PRPage(c)
<1> DEFINE x == Max(PRPage(c))
           A == {m \in After(c) : m < n}
           B == {m \in After(c) : m < x}
<1>1. PRPage(c) \subseteq After(c) /\ After(c) \subseteq Number
  BY PagesOfNumbers
<1>2. x \in PRPage(c)
  BY <1>1, MaxOf
<1>3. A \subseteq B /\ B \subseteq Number
  <2>1. n \in Nat /\ x \in Nat /\ n <= x /\ After(c) \subseteq Nat
    BY <1>1, <1>2 DEF Number
  <2>2. \A i, j, k \in Nat : i < j /\ j <= k => i < k
    OBVIOUS
  <2> QED BY <1>1, <2>1, <2>2
<1>4. Cardinality(B) < PageSize
  BY <1>2 DEF PRPage
<1> HIDE DEF A, B, x
<1>5. Cardinality(A) <= Cardinality(B) /\ Cardinality(A) \in Nat /\ Cardinality(B) \in Nat
  BY <1>3, FewNumbers, FS_Subset
<1>6. Cardinality(A) < PageSize
  <2>1. \A i, j, k \in Nat : i <= j /\ j < k => i < k
    OBVIOUS
  <2> QED BY <1>4, <1>5, <2>1, ParameterAssumption DEF ParameterAssumption
<1> QED BY <1>6 DEF PRPage, A

\* The cursor passes each PR once, and counts it if the filter selects it.
LEMMA ReadPRsStep ==
  ASSUME TypeOK, PRsSeenOnce, PRsAsListed, ReadPRs
  PROVE  PRsSeenOnce' /\ PRsAsListed'
<1> DEFINE c == scan.cursor
           page == PRPage(c)
           kept == {n \in page : Match(world.prs, Node(n, item[n]))}
           c2 == IF page = {} THEN c ELSE Max(page)
<1>1. /\ world' = world /\ item' = item /\ at' = at /\ changes' = changes
      /\ Runs("prs") /\ ~SkipOpen(world.prs)
      /\ scan'.seen = scan.seen \cup Observed(kept) /\ scan'.cursor = c2
      /\ (scan'.done <=> After(c) = page)
  BY DEF ReadPRs, Runs, Listing, TypeOK
<1>2. /\ c \in 0 .. MaxItems /\ page \subseteq After(c) /\ After(c) \subseteq Number
      /\ kept \subseteq page /\ world \in Worlds /\ item \in [Number -> State]
  BY PagesOfNumbers DEF TypeOK
<1>3. \A n \in After(c) : n > c /\ IsPR(n) /\ n \in Number
  BY DEF After
<1>4. page # {} => c2 \in page /\ \A n \in page : n <= c2
  BY <1>2, MaxOf
<1>5. c2 \in 0 .. MaxItems /\ c <= c2
  <2>1. \A i, j \in 0 .. MaxItems : i > j => j <= i
    BY ParameterAssumption DEF ParameterAssumption
  <2>2. c <= c
    BY <1>2
  <2> QED BY <1>2, <1>3, <1>4, <2>1, <2>2 DEF Number
<1>6. /\ \A o \in Observed(kept) : o[1] = scan.page /\ o[2] \in kept /\ o[3] = item[o[2]]
      /\ \A n \in kept : <<scan.page, n, item[n]>> \in Observed(kept)
      /\ Observed(kept) \subseteq Nat \X Number \X State
      /\ Numbers(Observed(kept)) = kept
  BY <1>2, ObservedPage
<1>7. /\ \A o \in scan.seen : o[2] <= c /\ o[2] \in Number
      /\ scan.seen \subseteq Nat \X Number \X State
      /\ \A o, o2 \in scan.seen : o[2] = o2[2] => o = o2
  BY <1>1 DEF PRsSeenOnce, PRsAsListed, TypeOK
<1>8. PRsSeenOnce'
  <2>1. ASSUME NEW o \in scan'.seen PROVE o[2] <= c2
    <3>1. \A i, j, k \in 0 .. MaxItems : i <= j /\ j <= k => i <= k
      BY ParameterAssumption DEF ParameterAssumption
    <3>2. CASE o \in scan.seen
      BY <1>2, <1>5, <1>7, <3>1, <3>2 DEF Number
    <3>3. CASE o \in Observed(kept)
      BY <1>2, <1>4, <1>6, <3>3
    <3> QED BY <1>1, <3>2, <3>3
  <2>2. ASSUME NEW o \in scan'.seen, NEW o2 \in scan'.seen, o[2] = o2[2]
        PROVE  o = o2
    <3>1. ASSUME NEW a \in scan.seen, NEW b \in Observed(kept) PROVE a[2] # b[2]
      <4>1. a[2] <= c /\ b[2] > c /\ a[2] \in Number /\ b[2] \in Number
        BY <1>2, <1>3, <1>6, <1>7
      <4>2. \A i \in Number : ~(i <= c /\ i > c)
        BY <1>2 DEF Number
      <4> QED BY <4>1, <4>2
    <3>2. ASSUME NEW a \in Observed(kept), NEW b \in Observed(kept), a[2] = b[2] PROVE a = b
      BY <1>6, <3>2
    <3> QED BY <1>1, <1>7, <2>2, <3>1, <3>2
  <2> QED BY <1>1, <2>1, <2>2 DEF PRsSeenOnce
<1>9. PRsAsListed'
  <2>1. ASSUME NEW o \in scan'.seen
        PROVE  /\ o[2] \in Number /\ IsPR(o[2]) /\ Match(world.prs, Node(o[2], o[3]))
               /\ o[2] \in changes.steady => item[o[2]] = o[3]
    <3>1. CASE o \in scan.seen
      BY <1>1, <3>1 DEF PRsAsListed
    <3>2. CASE o \in Observed(kept)
      BY <1>2, <1>3, <1>6, <3>2
    <3> QED BY <1>1, <3>1, <3>2
  <2>2. ASSUME NEW n \in changes.steady, IsPR(n), InOpenList(n),
               Match(world.prs, Node(n, item[n])), n <= c2
        PROVE  n \in Numbers(scan'.seen)
    <3>0. n \in Number
      BY DEF TypeOK
    <3>1. CASE n <= c
      BY <1>1, <2>2, <3>1 DEF PRsAsListed, Numbers
    <3>2. CASE ~(n <= c)
      <4>1. n > c
        BY <1>2, <3>0, <3>2 DEF Number
      <4>2. item[n] \in {"open", "draft"}
        BY <2>2 DEF InOpenList
      <4>3. n \in After(c)
        BY <1>2, <2>2, <3>0, <4>1, <4>2, OpenIsListed DEF After
      <4>4. page # {}
        BY <2>2, <3>2
      <4>5. n \in page
        BY <1>2, <2>2, <4>3, <4>4, PageHasOldest
      <4>6. n \in kept
        BY <2>2, <4>5
      <4> QED BY <1>1, <1>6, <4>6 DEF Numbers
    <3> QED BY <3>1, <3>2
  <2>3. scan'.done => After(c2) = {}
    <3> SUFFICES ASSUME After(c) = page, NEW n \in After(c2) PROVE FALSE
      BY <1>1
    <3>1. n > c2 /\ n \in Number
      BY DEF After
    <3>2. n \in After(c)
      <4>1. n > c
        BY <1>2, <1>5, <3>1 DEF Number
      <4> QED BY <4>1 DEF After
    <3>3. n <= c2
      BY <1>4, <3>2
    <3> QED BY <1>5, <3>1, <3>3 DEF Number
  <2>4. After(scan.cursor)' = After(c2)
    BY <1>1 DEF After, IsPR, Node
  <2>5. \A n, s : IsPR(n)' = IsPR(n) /\ Match(world.prs, Node(n, s))' = Match(world.prs, Node(n, s))
    BY <1>1, SameNode
  <2>6. \A n : InOpenList(n)' = InOpenList(n)
    BY <1>1 DEF InOpenList
  <2> HIDE DEF kept, c2, page, c
  <2> QED BY <1>1, <2>1, <2>2, <2>3, <2>4, <2>5, <2>6 DEF PRsAsListed
<1> QED BY <1>8, <1>9

\* Whatever changes on GitHub between two pages, the scan's observations of the
\* PRs that did not change stay right.
LEMMA PRsStep ==
  ASSUME TypeOK, PRsSeenOnce, PRsAsListed, [Next]_vars
  PROVE  PRsSeenOnce' /\ PRsAsListed'
<1>1. CASE Restart
  BY <1>1 DEF Restart, NoScan, Fresh, PRsSeenOnce, PRsAsListed, Number
<1>2. CASE GitHubStep
  <2>1. PICK n \in Number :
          /\ Listing /\ world' = world /\ at' = at /\ scan' = scan
          /\ \A m \in Number \ {n} : item'[m] = item[m]
          /\ changes'.steady = changes.steady \ {n}
    BY <1>2, OneChange
  <2>2. Runs("prs")' = Runs("prs")
    BY <2>1, SameRun
  <2>3. PRsSeenOnce'
    BY <2>1, <2>2 DEF PRsSeenOnce
  <2>4. PRsAsListed'
    <3> SUFFICES ASSUME Runs("prs") PROVE PRsAsListed'
      BY <2>2 DEF PRsAsListed
    <3>1. ~scan'.done
      BY <2>1 DEF Listing
    <3>2. changes.steady \subseteq Number
      BY DEF TypeOK
    <3>3. ASSUME NEW o \in scan'.seen
          PROVE  /\ o[2] \in Number /\ IsPR(o[2])' /\ Match(world.prs, Node(o[2], o[3]))'
                 /\ o[2] \in changes'.steady => item'[o[2]] = o[3]
      <4>1. /\ o[2] \in Number /\ IsPR(o[2]) /\ Match(world.prs, Node(o[2], o[3]))
            /\ o[2] \in changes.steady => item[o[2]] = o[3]
        BY <2>1 DEF PRsAsListed
      <4>2. IsPR(o[2])' /\ Match(world.prs, Node(o[2], o[3]))'
        BY <2>1, <4>1, SameNode
      <4> QED BY <2>1, <4>1, <4>2
    <3>4. ASSUME NEW m \in changes'.steady, IsPR(m)', InOpenList(m)',
                 Match(world.prs, Node(m, item[m]))', m <= scan'.cursor
          PROVE  m \in Numbers(scan'.seen)
      <4>1. m \in changes.steady /\ m \in Number /\ item'[m] = item[m]
        BY <2>1, <3>2
      <4>2. IsPR(m) /\ InOpenList(m) /\ Match(world.prs, Node(m, item[m]))
        BY <2>1, <3>4, <4>1, SamePR
      <4> QED BY <2>1, <3>4, <4>1, <4>2 DEF PRsAsListed
    <3> QED BY <3>1, <3>3, <3>4 DEF PRsAsListed
  <2> QED BY <2>3, <2>4
<1>3. CASE ReadPRs
  BY <1>3, ReadPRsStep
<1>4. CASE SkipPRs
  <2>1. /\ world' = world /\ item' = item /\ at' = at /\ changes' = changes
        /\ scan'.seen = scan.seen /\ scan'.cursor = scan.cursor /\ SkipOpen(world.prs)
    BY <1>4 DEF SkipPRs, TypeOK
  <2>2. Runs("prs")' = Runs("prs")
    BY <2>1, SameRun
  <2>3. \A n, s : IsPR(n)' = IsPR(n) /\ Match(world.prs, Node(n, s))' = Match(world.prs, Node(n, s))
    BY <2>1, SameNode
  <2>4. \A n : InOpenList(n)' = InOpenList(n)
    BY <2>1 DEF InOpenList
  <2> QED BY <2>1, <2>2, <2>3, <2>4 DEF PRsSeenOnce, PRsAsListed
<1>5. CASE ReadIssues \/ ReadOpenIssues
  <2>1. ~Runs("prs") /\ world' = world /\ at' = at
    BY <1>5 DEF ReadIssues, ReadOpenIssues, Runs
  <2> QED BY <2>1, SameRun DEF PRsSeenOnce, PRsAsListed
<1>6. CASE UNCHANGED vars
  <2>1. world' = world /\ item' = item /\ at' = at /\ changes' = changes /\ scan' = scan
    BY <1>6 DEF vars
  <2>2. Runs("prs")' = Runs("prs")
    BY <2>1, SameRun
  <2>3. \A n, s : IsPR(n)' = IsPR(n) /\ Match(world.prs, Node(n, s))' = Match(world.prs, Node(n, s))
    BY <2>1, SameNode
  <2>4. /\ \A n : InOpenList(n)' = InOpenList(n)
        /\ After(scan.cursor)' = After(scan.cursor)
    BY <2>1 DEF InOpenList, After, IsPR, Node
  <2> QED BY <2>1, <2>2, <2>3, <2>4 DEF PRsSeenOnce, PRsAsListed
<1> QED BY <1>1, <1>2, <1>3, <1>4, <1>5, <1>6, StepKinds DEF ReadPage

\* The observations of PRs are as many as the PRs observed.
LEMMA OnePerPR ==
  ASSUME TypeOK, PRsSeenOnce, PRsAsListed, Runs("prs"), NEW O \in SUBSET scan.seen
  PROVE  /\ Numbers(O) \subseteq Number /\ IsFiniteSet(O)
         /\ Cardinality(O) = Cardinality(Numbers(O)) /\ Cardinality(O) \in Nat
<1> DEFINE f == [o \in O |-> o[2]]
<1>1. /\ \A o \in O : o[2] \in Number
      /\ \A o, o2 \in O : o[2] = o2[2] => o = o2
  BY DEF PRsSeenOnce, PRsAsListed
<1>2. Numbers(O) \subseteq Number
  BY <1>1 DEF Numbers
<1>3. f \in Bijection(O, Numbers(O))
  <2>1. f \in [O -> Numbers(O)]
    BY DEF Numbers
  <2>2. \A a, b \in O : f[a] = f[b] => a = b
    BY <1>1
  <2>3. \A n \in Numbers(O) : \E a \in O : f[a] = n
    BY DEF Numbers
  <2> HIDE DEF f
  <2> QED BY <2>1, <2>2, <2>3 DEF Bijection, Injection, Surjection, IsInjective
<1>4. IsFiniteSet(O)
  BY FS_Subset DEF TypeOK
<1>5. Cardinality(Numbers(O)) = Cardinality(O)
  <2>1. ExistsBijection(O, Numbers(O))
    BY <1>3 DEF ExistsBijection
  <2> QED BY <1>4, <2>1, FS_Bijection
<1> QED BY <1>2, <1>4, <1>5, FS_CardinalityType

\* When the scan is complete, it has every PR that stood in a state and is wanted.
LEMMA SteadyAreSeen ==
  ASSUME TypeOK, PRsAsListed, Complete("prs"), NEW s \in {"open", "draft"},
         NEW n \in SteadyPRs(s) \ Overlong
  PROVE  \E o \in scan.seen : o[2] = n /\ o[3] = s
<1>1. /\ world \in Worlds /\ n \in Number /\ n \in changes.steady /\ IsPR(n) /\ item[n] = s
      /\ Wanted(n, s) /\ scan.cursor \in 0 .. MaxItems /\ Runs("prs") /\ scan.done
  BY DEF TypeOK, SteadyPRs, Complete
<1>2. Match(world.prs, Node(n, s))
  BY <1>1, MatchedIsWanted
<1>3. GitHubLists({"OPEN"}, world.prs.includeLabels, Node(n, s)) /\ ~SkipOpen(world.prs)
  BY <1>1, <1>2, OpenIsListed
<1>4. n <= scan.cursor
  <2>1. After(scan.cursor) = {}
    BY <1>1, <1>3 DEF PRsAsListed
  <2>2. ~(n > scan.cursor)
    BY <1>1, <1>3, <2>1 DEF After
  <2> QED BY <1>1, <2>2 DEF Number
<1>5. n \in Numbers(scan.seen)
  BY <1>1, <1>2, <1>4 DEF PRsAsListed, InOpenList
<1>6. PICK o \in scan.seen : o[2] = n
  BY <1>5 DEF Numbers
<1> QED BY <1>1, <1>6 DEF PRsAsListed

\* What is seen of PRs that did not change, and whose labels fit, is wanted.
LEMMA SeenAreSteady ==
  ASSUME TypeOK, PRsAsListed, Runs("prs"), NEW s \in {"open", "draft"},
         NEW o \in scan.seen, o[3] = s
  PROVE  o[2] \in SteadyPRs(s) \cup (Number \ changes.steady) \cup Overlong
<1>1. /\ o[2] \in Number /\ IsPR(o[2]) /\ Match(world.prs, Node(o[2], s))
      /\ o[2] \in changes.steady => item[o[2]] = s
  BY DEF PRsAsListed
<1>2. o[2] \in Number \ Overlong => Wanted(o[2], s)
  BY <1>1, MatchedIsWanted DEF TypeOK
<1> QED BY <1>1, <1>2 DEF SteadyPRs

\* The PR gauges are exact but for the PRs that changed during the scan.
LEMMA StatsExact ==
  ASSUME TypeOK, PRsSeenOnce, PRsAsListed
  PROVE  PRStatsExact
<1> SUFFICES ASSUME Complete("prs") PROVE PRStatsExact
  BY DEF PRStatsExact
<1>0. Runs("prs")
  BY DEF Complete
<1>1. ASSUME NEW s \in {"open", "draft"}
      PROVE  /\ Cardinality(SteadyPRs(s) \ Overlong) <= CountByState(s)
             /\ CountByState(s) <= Cardinality(SteadyPRs(s) \cup ((Number \ changes.steady) \cup Overlong))
  <2> DEFINE O == {o \in scan.seen : o[3] = s}
             All == SteadyPRs(s) \cup ((Number \ changes.steady) \cup Overlong)
  <2>1. /\ Numbers(O) \subseteq Number /\ Cardinality(O) = Cardinality(Numbers(O))
    BY <1>0, OnePerPR
  <2>2. SteadyPRs(s) \ Overlong \subseteq Numbers(O)
    BY SteadyAreSeen DEF Numbers
  <2>3. Numbers(O) \subseteq All
    BY <1>0, SeenAreSteady DEF Numbers
  <2>4. All \subseteq Number
    BY DEF TypeOK, SteadyPRs, Overlong
  <2>5. Cardinality(SteadyPRs(s) \ Overlong) <= Cardinality(Numbers(O))
    BY <2>1, <2>2, FewNumbers, FS_Subset
  <2>6. Cardinality(Numbers(O)) <= Cardinality(All)
    BY <2>3, <2>4, FewNumbers, FS_Subset
  <2> QED BY <2>1, <2>5, <2>6 DEF CountByState
<1>2. ASSUME NEW n \in SteadyPRs("open") \ Overlong
      PROVE  OldestOpen # 0 /\ OldestOpen <= n
  <2> DEFINE open == {o[2] : o \in {e \in scan.seen : e[3] = "open"}}
  <2>1. n \in open
    BY SteadyAreSeen
  <2>2. open \subseteq Number
    BY <1>0 DEF PRsAsListed
  <2>3. OldestOpen = Min(open)
    BY <2>1 DEF OldestOpen
  <2> HIDE DEF open
  <2>4. Min(open) \in Number /\ Min(open) <= n
    BY <2>1, <2>2, MinOf
  <2> QED BY <2>3, <2>4 DEF Number
<1> QED BY <1>1, <1>2 DEF PRStatsExact


-----------------------------------------------------------------------------
(* The pages of the issues *)

\* Where the pages begin and end.
LEMMA PageBounds ==
  ASSUME NEW k \in Nat \ {0}
  PROVE  /\ (k - 1) * PageSize \in Nat /\ k * PageSize \in Nat
         /\ (k - 1) * PageSize <= k * PageSize
         /\ (k + 1) - 1 = k
<1>1. PageSize \in Nat /\ k - 1 \in Nat
  BY ParameterAssumption DEF ParameterAssumption
<1>2. \A i, j \in Nat : i * j \in Nat
  OBVIOUS
<1>3. k * PageSize = (k - 1) * PageSize + PageSize
  BY <1>1
<1> DEFINE a == (k - 1) * PageSize
<1>4. a \in Nat /\ k * PageSize \in Nat
  BY <1>1, <1>2
<1>5. a <= a + PageSize
  <2> HIDE DEF a
  <2> QED BY <1>1, <1>4
<1> QED BY <1>3, <1>4, <1>5

\* A page P after N was seen: what comes a second time (N and P) was pushed back
\* (B), and what is pushed back beyond the page (C) was so before.
LEMMA PageCount ==
  ASSUME NEW N \in SUBSET Number, NEW P \in SUBSET Number,
         NEW B \in SUBSET Number, NEW C \in SUBSET B,
         N \cap P \subseteq B, C \cap P = {}
  PROVE  Cardinality(P) + Cardinality(C) + Cardinality(N) <= Cardinality(N \cup P) + Cardinality(B)
<1> DEFINE D == N \cap P
<1>1. /\ IsFiniteSet(N) /\ IsFiniteSet(P) /\ IsFiniteSet(C) /\ IsFiniteSet(D)
      /\ Cardinality(N) \in Nat /\ Cardinality(P) \in Nat /\ Cardinality(B) \in Nat
      /\ Cardinality(C) \in Nat /\ Cardinality(D) \in Nat
  BY FewNumbers
<1>2. Cardinality(N \cup P) = Cardinality(N) + Cardinality(P) - Cardinality(D)
  BY <1>1, FS_Union
<1>3. Cardinality(C \cup D) = Cardinality(C) + Cardinality(D) - Cardinality(C \cap D)
  BY <1>1, FS_Union
<1>4. C \cap D = {} /\ C \cup D \subseteq B
  OBVIOUS
<1>5. Cardinality(C \cup D) <= Cardinality(B)
  BY <1>4, FewNumbers, FS_Subset
<1>6. Cardinality(C) + Cardinality(D) <= Cardinality(B)
  <2>1. Cardinality(C \cap D) = 0
    BY <1>4, FS_EmptySet
  <2>2. \A c, d, z, b \in Nat : c + d - z <= b /\ z = 0 => c + d <= b
    OBVIOUS
  <2> HIDE DEF D
  <2> QED BY <1>1, <1>3, <1>5, <2>1, <2>2
<1> HIDE DEF D
<1>7. \A n, p, b, c, d \in Nat : c + d <= b => p + c + n <= (n + p - d) + b
  OBVIOUS
<1> QED BY <1>1, <1>2, <1>6, <1>7

\* Reading a page of the issues.
LEMMA ReadIssuesStep ==
  ASSUME TypeOK, IssuesPaged, ReadIssues
  PROVE  IssuesPaged'
<1> DEFINE k == scan.page
           a == (k - 1) * PageSize
           b == k * PageSize
           page == RestPage("all", k)
           P == {n \in page : ~IsPR(n) /\ Selects(n)}
           N == Numbers(scan.seen)
           all == InState("all")
<1>1. /\ world' = world /\ item' = item /\ at' = at /\ changes' = changes
      /\ Runs("issues") /\ scan'.page = k + 1
      /\ scan'.seen = scan.seen \cup Observed(P)
      /\ (scan'.done <=> ~HasNextPage("all", k))
  BY DEF ReadIssues, Runs, Listing, TypeOK
<1>2. /\ k \in Nat \ {0} /\ P \subseteq page /\ page \subseteq all /\ all \subseteq Number
      /\ item \in [Number -> State] /\ changes.created \in Nat
      /\ scan.seen \subseteq Nat \X Number \X State /\ IsFiniteSet(scan.seen)
  BY PagesOfNumbers DEF TypeOK
<1>3. a \in Nat /\ b \in Nat /\ a <= b /\ (scan'.page - 1) * PageSize = b
  BY <1>1, <1>2, PageBounds
<1>4. \A n \in page : a <= Newer("all", n) /\ Newer("all", n) < b
  BY DEF RestPage
<1>5. /\ all' = all /\ \A n : Newer("all", n)' = Newer("all", n)
      /\ \A n : IsPR(n)' = IsPR(n) /\ Selects(n)' = Selects(n)
  BY <1>1 DEF InState, Newer, IsPR, Selects
<1>6. /\ \A n \in Number : Newer("all", n) \in Nat
      /\ \A n \in all : n \in page \/ Newer("all", n) < a \/ Newer("all", n) >= b
  <2>1. \A n \in Number : Newer("all", n) \in Nat
    BY <1>2, RankGrows DEF Newer
  <2>2. \A i, j, l \in Nat : (i <= j /\ j < l) \/ j < i \/ j >= l
    OBVIOUS
  <2>3. ASSUME NEW n \in all PROVE n \in page \/ Newer("all", n) < a \/ Newer("all", n) >= b
    <3>1. Newer("all", n) \in Nat
      BY <1>2, <2>1
    <3>2. (a <= Newer("all", n) /\ Newer("all", n) < b) => n \in page
      BY DEF RestPage
    <3> HIDE DEF a, b, page
    <3> QED BY <1>3, <2>2, <3>1, <3>2
  <2> QED BY <2>1, <2>3
<1>7. /\ \A o \in Observed(P) : o[1] = k /\ o[2] \in P
      /\ IsFiniteSet(Observed(P)) /\ Cardinality(Observed(P)) = Cardinality(P)
      /\ Numbers(Observed(P)) = P
  BY <1>2, ObservedPage
<1>8. Numbers(scan'.seen) = N \cup P /\ N \subseteq Number
  BY <1>1, <1>2, <1>7 DEF Numbers
<1>9. /\ \A o \in scan.seen : o[1] < k /\ item[o[2]] # "none"
      /\ Cardinality(scan.seen) + Cardinality(PushedBack) <= Cardinality(N) + changes.created
      /\ changes.removed = 0 =>
           \A n \in changes.steady \cap all :
             ~IsPR(n) /\ Selects(n) => n \in N \/ Newer("all", n) >= a
  BY <1>1 DEF IssuesPaged
<1>10. /\ PushedBack = {n \in N \cap all : Newer("all", n) >= a}
       /\ PushedBack' = {n \in (N \cup P) \cap all : Newer("all", n) >= b}
  <2>1. PushedBack' = {n \in Numbers(scan'.seen) \cap all' : Newer("all", n)' >= (scan'.page - 1) * PageSize}
    BY DEF PushedBack
  <2> HIDE DEF b, P, N
  <2> QED BY <1>3, <1>5, <1>8, <2>1 DEF PushedBack, N
<1> HIDE DEF a, b, page, N, all, P
<1>11. ASSUME NEW o \in scan'.seen PROVE o[1] < k + 1 /\ item[o[2]] # "none"
  <2>1. CASE o \in scan.seen
    <3>1. o[1] \in Nat /\ k \in Nat /\ o[1] < k
      BY <1>2, <1>9, <2>1
    <3>2. \A i, j \in Nat : i < j => i < j + 1
      OBVIOUS
    <3> QED BY <1>9, <2>1, <3>1, <3>2
  <2>2. CASE o \in Observed(P)
    <3>1. o[2] \in all /\ o[1] = k
      BY <1>2, <1>7, <2>2
    <3>2. k < k + 1
      BY <1>2
    <3> QED BY <3>1, <3>2 DEF all, InState
  <2> QED BY <1>1, <2>1, <2>2
<1>12. Cardinality(scan'.seen) + Cardinality(PushedBack') <= Cardinality(N \cup P) + changes.created
  <2>1. Cardinality(scan'.seen) = Cardinality(scan.seen) + Cardinality(P)
        /\ Cardinality(scan.seen) \in Nat
    <3>1. \A o \in scan.seen : o \notin Observed(P)
      <4>1. \A i \in Nat : ~(i < i)
        OBVIOUS
      <4> QED BY <1>2, <1>7, <1>9, <4>1
    <3>2. scan.seen \cap Observed(P) = {}
      BY <3>1
    <3>3. Cardinality(scan'.seen) = Cardinality(scan.seen) + Cardinality(Observed(P)) - 0
      BY <1>1, <1>2, <1>7, <3>2, FS_Union, FS_EmptySet
    <3>4. Cardinality(scan.seen) \in Nat /\ Cardinality(P) \in Nat
      BY <1>2, FewNumbers, FS_CardinalityType
    <3> QED BY <1>7, <3>3, <3>4
  <2>2. \A i, j, l \in Nat : (i >= j /\ l <= j => i >= l) /\ ~(i < j /\ i >= j)
    OBVIOUS
  <2>3. PushedBack' \subseteq PushedBack
    <3> SUFFICES ASSUME NEW n \in (N \cup P) \cap all, Newer("all", n) >= b
                 PROVE  n \in N /\ Newer("all", n) >= a
      BY <1>10
    <3>1. Newer("all", n) \in Nat
      BY <1>2, <1>6
    <3>2. n \notin page
      BY <1>3, <1>4, <2>2, <3>1
    <3> QED BY <1>2, <1>3, <2>2, <3>1, <3>2
  <2>4. PushedBack' \cap P = {}
    <3>1. ASSUME NEW n \in PushedBack', n \in P PROVE FALSE
      <4>1. Newer("all", n) >= b /\ Newer("all", n) < b /\ Newer("all", n) \in Nat
        BY <1>2, <1>4, <1>6, <1>10, <3>1
      <4> QED BY <1>3, <2>2, <4>1
    <3> QED BY <3>1
  <2>5. N \cap P \subseteq PushedBack
    <3> SUFFICES ASSUME NEW n \in N \cap P PROVE n \in all /\ Newer("all", n) >= a
      BY <1>10
    <3>1. n \in all /\ a <= Newer("all", n) /\ Newer("all", n) \in Nat
      BY <1>2, <1>4, <1>6
    <3>2. \A i, j \in Nat : i <= j => j >= i
      OBVIOUS
    <3> QED BY <1>3, <3>1, <3>2
  <2>6. P \subseteq Number /\ PushedBack \subseteq Number
    BY <1>2, <1>10
  <2>7. Cardinality(P) + Cardinality(PushedBack') + Cardinality(N)
          <= Cardinality(N \cup P) + Cardinality(PushedBack)
    BY <1>8, <2>3, <2>4, <2>5, <2>6, PageCount
  <2>8. /\ Cardinality(P) \in Nat /\ Cardinality(N) \in Nat /\ Cardinality(N \cup P) \in Nat
        /\ Cardinality(PushedBack) \in Nat /\ Cardinality(PushedBack') \in Nat
    BY <1>8, <2>3, <2>6, FewNumbers
  <2>9. \A s, p, c, n, u, q, d \in Nat :
          p + c + n <= u + q /\ s + q <= n + d => (s + p) + c <= u + d
    OBVIOUS
  <2> QED BY <1>2, <1>9, <2>1, <2>7, <2>8, <2>9
<1>13. ASSUME changes.removed = 0, NEW n \in changes.steady \cap all, ~IsPR(n), Selects(n)
       PROVE  n \in N \cup P \/ Newer("all", n) >= b
  <2>1. n \in N \/ Newer("all", n) >= a
    BY <1>9, <1>13
  <2>2. n \in page \/ Newer("all", n) < a \/ Newer("all", n) >= b
    BY <1>6
  <2>3. ~(Newer("all", n) < a /\ Newer("all", n) >= a)
    <3>1. Newer("all", n) \in Nat
      BY <1>2, <1>6
    <3>2. \A i, j \in Nat : ~(i < j /\ i >= j)
      OBVIOUS
    <3> QED BY <1>3, <3>1, <3>2
  <2>4. n \in page => n \in P
    BY <1>13 DEF P
  <2> QED BY <2>1, <2>2, <2>3, <2>4
<1>14. scan'.done => Cardinality(all) <= b
  <2>1. Cardinality(all) \in Nat
    BY <1>2, FewNumbers
  <2>2. \A i, j \in Nat : ~(i > j) => i <= j
    OBVIOUS
  <2> QED BY <1>1, <1>3, <2>1, <2>2 DEF HasNextPage, all, b
<1>15. Runs("issues")' = Runs("issues")
  BY <1>1, SameRun
<1> QED BY <1>1, <1>3, <1>5, <1>8, <1>11, <1>12, <1>13, <1>14 DEF IssuesPaged, all


\* A change that creates nothing pushes nothing back.
LEMMA IssuesChangeStep ==
  ASSUME TypeOK, IssuesPaged, Runs("issues"),
         Listing, world' = world, at' = at, scan' = scan,
         NEW n \in Number,
         \A m \in Number \ {n} : item'[m] = item[m],
         item[n] # "none", item'[n] # "none",
         changes'.steady = changes.steady \ {n},
         changes'.created = changes.created,
         item[n] = "gone" => item'[n] = "gone",
         changes'.removed = 0 => changes.removed = 0 /\ (item'[n] = "gone" => item[n] = "gone")
  PROVE  IssuesPaged'
<1> DEFINE a == (scan.page - 1) * PageSize
           N == Numbers(scan.seen)
           all == InState("all")
<1>1. /\ all \subseteq Number /\ all' \subseteq all /\ changes.steady \subseteq Number
      /\ scan.page \in Nat \ {0} /\ scan.seen \subseteq Nat \X Number \X State
      /\ changes.created \in Nat
  BY DEF TypeOK, InState
<1>2. a \in Nat /\ a' = a
  BY <1>1, PageBounds
<1>3. \A m \in Number : /\ Newer("all", m) \in Nat /\ Newer("all", m)' \in Nat
                        /\ Newer("all", m)' <= Newer("all", m)
  <2> TAKE m \in Number
  <2>1. /\ Newer("all", m) = Cardinality({x \in all : x > m})
        /\ Newer("all", m)' = Cardinality({x \in all' : x > m})
    BY DEF Newer
  <2>2. all \in SUBSET Number /\ all' \in SUBSET Number /\ all' \subseteq all /\ all \subseteq all
    BY <1>1
  <2> HIDE DEF all
  <2>3. Newer("all", m) \in Nat
    BY <2>1, <2>2, RankGrows
  <2>4. Newer("all", m)' \in Nat /\ Newer("all", m)' <= Newer("all", m)
    BY <2>1, <2>2, RankGrows
  <2> QED BY <2>3, <2>4
<1>4. PushedBack' \subseteq PushedBack
  <2>1. PushedBack' = {m \in N \cap all' : Newer("all", m)' >= a}
    BY DEF PushedBack
  <2>2. PushedBack = {m \in N \cap all : Newer("all", m) >= a}
    BY DEF PushedBack
  <2>3. \A i, j, l \in Nat : i >= l /\ i <= j => j >= l
    OBVIOUS
  <2> HIDE DEF a, N, all
  <2> QED BY <1>1, <1>2, <1>3, <2>1, <2>2, <2>3
<1>5. Cardinality(scan.seen) + Cardinality(PushedBack') <= Cardinality(N) + changes.created
  <2>1. PushedBack \subseteq Number
    BY <1>1 DEF PushedBack
  <2>2. /\ Cardinality(PushedBack') <= Cardinality(PushedBack)
        /\ Cardinality(PushedBack') \in Nat /\ Cardinality(PushedBack) \in Nat
    BY <1>4, <2>1, FewNumbers, FS_Subset
  <2>3. Cardinality(scan.seen) \in Nat /\ Cardinality(N) \in Nat
    <3>1. N \subseteq Number
      BY <1>1 DEF Numbers
    <3> QED BY <3>1, FewNumbers, FS_CardinalityType DEF TypeOK
  <2>4. Cardinality(scan.seen) + Cardinality(PushedBack) <= Cardinality(N) + changes.created
    BY DEF IssuesPaged
  <2>5. \A s, q, r, u \in Nat : s + q <= u /\ r <= q => s + r <= u
    OBVIOUS
  <2> HIDE DEF N
  <2> QED BY <1>1, <2>2, <2>3, <2>4, <2>5
<1>6. ASSUME NEW o \in scan.seen PROVE o[1] < scan.page /\ item'[o[2]] # "none"
  BY <1>1 DEF IssuesPaged
<1>7. ASSUME changes'.removed = 0, NEW m \in changes'.steady \cap all', ~IsPR(m)', Selects(m)'
      PROVE  m \in N \/ Newer("all", m)' >= a
  <2>1. all' = all
    BY <1>7 DEF InState
  <2>2. Newer("all", m)' = Newer("all", m)
    BY <2>1 DEF Newer
  <2>3. m \in Number /\ item'[m] = item[m] /\ m \in changes.steady
    BY <1>1
  <2>4. ~IsPR(m) /\ Selects(m)
    BY <1>7, <2>3 DEF IsPR, Selects
  <2> QED BY <1>7, <2>1, <2>2, <2>3, <2>4 DEF IssuesPaged
<1>8. ~scan.done
  BY DEF Listing
<1> HIDE DEF a, N, all
<1> QED BY <1>2, <1>5, <1>6, <1>7, <1>8 DEF IssuesPaged, a, N, all

\* A created item pushes at most one item, the oldest of the pages that were
\* read, back to the pages to come.
LEMMA IssuesCreateStep ==
  ASSUME TypeOK, IssuesPaged, Runs("issues"),
         Listing, world' = world, at' = at, scan' = scan,
         NEW n \in Number,
         \A m \in Number \ {n} : item'[m] = item[m],
         item[n] = "none", item'[n] \in {"open", "draft"},
         changes'.steady = changes.steady \ {n},
         changes'.created = changes.created + 1,
         changes'.removed = changes.removed
  PROVE  IssuesPaged'
<1> DEFINE a == (scan.page - 1) * PageSize
           N == Numbers(scan.seen)
           all == InState("all")
<1>1. /\ all \subseteq Number /\ n \notin all /\ all' = all \cup {n} /\ changes.steady \subseteq Number
      /\ scan.page \in Nat \ {0} /\ scan.seen \subseteq Nat \X Number \X State
      /\ changes.created \in Nat
  BY DEF TypeOK, InState
<1>2. a \in Nat /\ a' = a
  BY <1>1, PageBounds
<1>3. \A m \in Number : /\ Newer("all", m) \in Nat /\ Newer("all", m)' \in Nat
                        /\ Newer("all", m) <= Newer("all", m)'
                        /\ Newer("all", m)' <= Newer("all", m) + 1
  <2> TAKE m \in Number
  <2>1. /\ Newer("all", m) \in Nat /\ Newer("all", m)' \in Nat
        /\ Newer("all", m) <= Newer("all", m)'
    <3>1. /\ Newer("all", m) = Cardinality({x \in all : x > m})
          /\ Newer("all", m)' = Cardinality({x \in all' : x > m})
      BY DEF Newer
    <3>2. all \in SUBSET Number /\ all' \in SUBSET Number 
          /\ all \subseteq all /\ all \subseteq all' /\ all' \subseteq all'
      BY <1>1
    <3> HIDE DEF all
    <3>3. Newer("all", m)' \in Nat
      BY <3>1, <3>2, RankGrows
    <3>4. Newer("all", m) \in Nat
      BY <3>1, <3>2, RankGrows
    <3>5. Cardinality({x \in all : x > m}) <= Cardinality({x \in all' : x > m})
      BY <3>2, RankGrows
    <3>6. Newer("all", m) <= Newer("all", m)'
      BY <3>1, <3>5
    <3> QED BY <3>3, <3>4, <3>6
  <2> DEFINE A == {x \in all : x > m}
             A2 == {x \in all' : x > m}
  <2>2. A2 \subseteq A \cup {n} /\ A \cup {n} \subseteq Number /\ n \notin A
    BY <1>1
  <2>3. Cardinality(A \cup {n}) = Cardinality(A) + 1
    BY <2>2, FewNumbers, FS_AddElement
  <2>4. Cardinality(A2) <= Cardinality(A \cup {n})
    BY <2>2, FewNumbers, FS_Subset
  <2> QED BY <2>1, <2>3, <2>4 DEF Newer
<1>4. n \notin N /\ N \subseteq Number
  BY <1>1 DEF IssuesPaged, Numbers
<1>5. /\ PushedBack' = {m \in N \cap all' : Newer("all", m)' >= a}
      /\ PushedBack = {m \in N \cap all : Newer("all", m) >= a}
  BY DEF PushedBack
<1> HIDE DEF a, N
<1>6. \A x, y \in PushedBack' \ PushedBack : x = y
  <2> SUFFICES ASSUME NEW x \in PushedBack' \ PushedBack, NEW y \in PushedBack' \ PushedBack,
                      x # y
               PROVE  FALSE
    OBVIOUS
  <2>1. \A i, j \in Nat : j >= a /\ ~(i >= a) /\ j <= i + 1 => i + 1 = a
    BY <1>2
  <2>2. ASSUME NEW z \in PushedBack' \ PushedBack
        PROVE  z \in all /\ z \in Number /\ Newer("all", z) + 1 = a
    <3>1. z \in all /\ z \in Number
      BY <1>1, <1>4, <1>5
    <3>2. Newer("all", z)' >= a /\ ~(Newer("all", z) >= a)
      BY <1>5, <3>1
    <3> QED BY <1>3, <2>1, <3>1, <3>2
  <2>3. Newer("all", x) = Newer("all", y)
    <3>1. \A i, j \in Nat : i + 1 = j + 1 => i = j
      OBVIOUS
    <3> QED BY <1>3, <2>2, <3>1
  <2>4. x < y \/ y < x
    BY <2>2 DEF Number
  <2>5. Newer("all", y) < Newer("all", x) \/ Newer("all", x) < Newer("all", y)
    <3>1. x \in all /\ y \in all
      BY <2>2
    <3> QED BY <1>1, <2>4, <3>1, RanksDiffer DEF Newer
  <2>6. \A i \in Nat : ~(i < i)
    OBVIOUS
  <2> QED BY <1>3, <2>2, <2>3, <2>5, <2>6
<1>7. PushedBack \subseteq Number /\ PushedBack' \subseteq Number
  BY <1>4, <1>5
<1>8. Cardinality(PushedBack') <= Cardinality(PushedBack) + 1
  <2>1. CASE PushedBack' \subseteq PushedBack
    <3>1. Cardinality(PushedBack') <= Cardinality(PushedBack)
      BY <1>7, <2>1, FewNumbers, FS_Subset
    <3>2. Cardinality(PushedBack') \in Nat /\ Cardinality(PushedBack) \in Nat
      BY <1>7, FewNumbers
    <3>3. \A i, j \in Nat : i <= j => i <= j + 1
      OBVIOUS
    <3> QED BY <3>1, <3>2, <3>3
  <2>2. CASE ~(PushedBack' \subseteq PushedBack)
    <3>1. PICK x : x \in PushedBack' \ PushedBack
      BY <2>2
    <3>2. PushedBack' \subseteq PushedBack \cup {x} /\ PushedBack \cup {x} \subseteq Number
      BY <1>6, <1>7, <3>1
    <3>3. Cardinality(PushedBack') <= Cardinality(PushedBack \cup {x})
      BY <3>2, FewNumbers, FS_Subset
    <3>4. Cardinality(PushedBack \cup {x}) = Cardinality(PushedBack) + 1
      BY <1>7, <3>1, FewNumbers, FS_AddElement
    <3> QED BY <3>3, <3>4
  <2> QED BY <2>1, <2>2
<1>9. Cardinality(scan.seen) + Cardinality(PushedBack') <= Cardinality(N) + changes'.created
  <2>1. /\ Cardinality(PushedBack') \in Nat /\ Cardinality(PushedBack) \in Nat
        /\ Cardinality(scan.seen) \in Nat /\ Cardinality(N) \in Nat
    BY <1>4, <1>7, FewNumbers, FS_CardinalityType DEF TypeOK
  <2>2. Cardinality(scan.seen) + Cardinality(PushedBack) <= Cardinality(N) + changes.created
    BY DEF IssuesPaged, N
  <2>3. \A s, q, r, u, c \in Nat : s + q <= u + c /\ r <= q + 1 => s + r <= u + (c + 1)
    OBVIOUS
  <2> QED BY <1>1, <1>8, <2>1, <2>2, <2>3
<1>10. ASSUME NEW o \in scan.seen PROVE o[1] < scan.page /\ item'[o[2]] # "none"
  BY <1>1 DEF IssuesPaged
<1>11. ASSUME changes'.removed = 0, NEW m \in changes'.steady \cap all', ~IsPR(m)', Selects(m)'
       PROVE  m \in N \/ Newer("all", m)' >= a
  <2>1. m \in Number /\ item'[m] = item[m] /\ m \in changes.steady /\ m \in all
    BY <1>1
  <2>2. ~IsPR(m) /\ Selects(m)
    BY <1>11, <2>1 DEF IsPR, Selects
  <2>3. m \in N \/ Newer("all", m) >= a
    BY <1>11, <2>1, <2>2 DEF IssuesPaged, a, N
  <2>4. \A i, j, l \in Nat : i >= l /\ i <= j => j >= l
    OBVIOUS
  <2> QED BY <1>2, <1>3, <2>1, <2>3, <2>4
<1>12. ~scan.done
  BY DEF Listing
<1> HIDE DEF all
<1> QED BY <1>2, <1>9, <1>10, <1>11, <1>12 DEF IssuesPaged, a, N, all

\* Between and across pages, only creations add to what is counted twice.
LEMMA IssuesStep ==
  ASSUME TypeOK, IssuesPaged, [Next]_vars
  PROVE  IssuesPaged'
<1>1. CASE Restart
  <2>1. /\ scan'.seen = {} /\ scan'.page = 1 /\ ~scan'.done
        /\ changes'.created = 0
    BY <1>1 DEF Restart, NoScan, Fresh
  <2>2. Numbers(scan'.seen) = {} /\ PushedBack' = {}
    BY <2>1 DEF Numbers, PushedBack
  <2>3. Cardinality({}) + Cardinality({}) <= Cardinality({}) + 0
    BY FS_EmptySet
  <2>4. (1 - 1) * PageSize = 0
    BY ParameterAssumption DEF ParameterAssumption
  <2>5. \A n \in Number : Newer("all", n)' \in Nat
    <3>1. InState("all")' \subseteq Number
      BY DEF InState
    <3> QED BY <3>1, RankGrows DEF Newer
  <2>6. ASSUME NEW n \in InState("all")' PROVE Newer("all", n)' >= (scan'.page - 1) * PageSize
    <3>1. Newer("all", n)' \in Nat
      BY <2>5 DEF InState
    <3>2. \A i \in Nat : i >= 0
      OBVIOUS
    <3> QED BY <2>1, <2>4, <3>1, <3>2
  <2> QED BY <2>1, <2>2, <2>3, <2>6 DEF IssuesPaged
<1>2. CASE GitHubStep
  <2>1. PICK n \in Number :
          /\ Listing /\ world' = world /\ at' = at /\ scan' = scan
          /\ \A m \in Number \ {n} : item'[m] = item[m]
          /\ changes'.steady = changes.steady \ {n}
          /\ item'[n] # "none"
          /\ \/ /\ item[n] = "none" /\ item'[n] \in {"open", "draft"}
                /\ changes'.created = changes.created + 1
                /\ changes'.removed = changes.removed
             \/ /\ item[n] \in {"open", "draft"} /\ item'[n] = "closed"
                /\ changes'.created = changes.created
                /\ changes'.removed = changes.removed
             \/ /\ item[n] \in {"closed", "draft"} /\ item'[n] = "open"
                /\ changes'.created = changes.created
                /\ changes'.removed = changes.removed
             \/ /\ item[n] \in {"open", "closed"} /\ item'[n] = "gone"
                /\ changes'.created = changes.created
                /\ changes'.removed = changes.removed + 1
    BY <1>2, OneChange
  <2> SUFFICES ASSUME Runs("issues") PROVE IssuesPaged'
    BY <2>1, SameRun DEF IssuesPaged
  <2>2. CASE item[n] = "none"
    BY <2>1, <2>2, IssuesCreateStep
  <2>3. CASE item[n] # "none"
    <3>1. changes'.created = changes.created /\ item[n] # "gone"
      BY <2>1, <2>3
    <3>2. \A i \in Nat : i + 1 # 0
      OBVIOUS
    <3>3. changes.removed \in Nat
      BY DEF TypeOK
    <3>4. changes'.removed = 0 => changes.removed = 0 /\ (item'[n] = "gone" => item[n] = "gone")
      BY <2>1, <2>3, <3>2, <3>3
    <3> QED BY <2>1, <2>3, <3>1, <3>4, IssuesChangeStep
  <2> QED BY <2>2, <2>3
<1>3. CASE ReadIssues
  BY <1>3, ReadIssuesStep
<1>4. CASE SkipPRs \/ ReadPRs \/ ReadOpenIssues
  <2>1. ~Runs("issues") /\ world' = world /\ at' = at
    BY <1>4 DEF SkipPRs, ReadPRs, ReadOpenIssues, Runs
  <2> QED BY <2>1, SameRun DEF IssuesPaged
<1>5. CASE UNCHANGED vars
  <2>1. world' = world /\ item' = item /\ at' = at /\ changes' = changes /\ scan' = scan
    BY <1>5 DEF vars
  <2>2. Runs("issues")' = Runs("issues")
    BY <2>1, SameRun
  <2>3. /\ InState("all")' = InState("all") /\ PushedBack' = PushedBack
        /\ \A n : /\ IsPR(n)' = IsPR(n) /\ Selects(n)' = Selects(n)
                  /\ Newer("all", n)' = Newer("all", n)
    BY <2>1 DEF InState, PushedBack, IsPR, Selects, Newer
  <2> QED BY <2>1, <2>2, <2>3 DEF IssuesPaged
<1> QED BY <1>1, <1>2, <1>3, <1>4, <1>5, StepKinds DEF ReadPage


-----------------------------------------------------------------------------
(* The dashboard *)

\* An open dashboard is on the page, its number at most the found one's, or it
\* is on a page to come.
LEMMA ReadDashboardStep ==
  ASSUME TypeOK, DashboardAhead, ReadOpenIssues
  PROVE  DashboardAhead' /\ DashboardFound'
<1> DEFINE k == scan.page
           a == (k - 1) * PageSize
           b == k * PageSize
           page == RestPage("open", k)
           M == Dashboards(page)
           open == InState("open")
<1>1. /\ world' = world /\ item' = item /\ at' = at /\ changes' = changes
      /\ Runs("dashboard") /\ ~scan.done /\ scan'.page = k + 1
      /\ scan'.found = IF M = {} THEN 0 ELSE Max(M)
      /\ (scan'.done <=> M # {} \/ ~HasNextPage("open", k))
  BY DEF ReadOpenIssues, Runs, Listing, TypeOK
<1>2. /\ k \in Nat \ {0} /\ M \subseteq page /\ page \subseteq open /\ open \subseteq Number
      /\ changes.steady \subseteq Number
  BY PagesOfNumbers DEF TypeOK, Dashboards
<1>3. a \in Nat /\ b \in Nat /\ a <= b /\ (scan'.page - 1) * PageSize = b
  BY <1>1, <1>2, PageBounds
<1>4. /\ open' = open /\ \A n : Newer("open", n)' = Newer("open", n)
      /\ Dashboards(changes.steady)' = Dashboards(changes.steady)
      /\ Runs("dashboard")' = Runs("dashboard")
  BY <1>1, SameRun DEF InState, InOpenList, Newer, Dashboards
<1>5. \A n \in Number : Newer("open", n) \in Nat
  BY <1>2, RankGrows DEF Newer
<1>6. ASSUME changes.shut = 0, NEW n \in Dashboards(changes.steady), item[n] = "open"
      PROVE  /\ n \in open /\ n \in Number
             /\ n \in M \/ Newer("open", n) >= b
  <2>1. n \in open /\ n \in Number
    BY <1>2, <1>6 DEF InState, InOpenList, Dashboards
  <2>2. Newer("open", n) >= a
    BY <1>1, <1>6 DEF DashboardAhead
  <2>3. (a <= Newer("open", n) /\ Newer("open", n) < b) => n \in page
    BY <2>1 DEF RestPage
  <2>4. n \in page => n \in M
    BY <1>6 DEF Dashboards
  <2>5. \A i, j, l \in Nat : i >= j => (j <= i /\ i < l) \/ i >= l
    OBVIOUS
  <2> HIDE DEF a, b, page, M, open
  <2> QED BY <1>3, <1>5, <2>1, <2>2, <2>3, <2>4, <2>5
<1>7. ASSUME NEW n \in open, Newer("open", n) >= b, scan'.done
      PROVE  scan'.found \in Number /\ scan'.found >= n
  <2>1. n \in Number /\ Newer("open", n) \in Nat
    BY <1>2, <1>5
  <2>2. CASE M # {}
    <3>1. Max(M) \in M /\ scan'.found = Max(M) /\ Max(M) \in open
      BY <1>1, <1>2, <2>2, MaxOf
    <3>2. Newer("open", Max(M)) < b /\ Newer("open", Max(M)) \in Nat
      BY <1>2, <1>5, <3>1 DEF RestPage
    <3>3. ~(Newer("open", n) < Newer("open", Max(M)))
      <4>1. \A i, j, l \in Nat : i >= l /\ j < l => ~(i < j)
        OBVIOUS
      <4> QED BY <1>3, <1>7, <2>1, <3>2, <4>1
    <3>4. ~(Max(M) < n)
      BY <1>2, <3>1, <3>3, RanksDiffer DEF Newer
    <3>5. \A i, j \in Number : ~(i < j) => i >= j
      BY DEF Number
    <3>6. Max(M) \in Number
      BY <1>2, <3>1
    <3> QED BY <2>1, <3>1, <3>4, <3>5, <3>6
  <2>3. CASE M = {}
    <3>1. ~(Cardinality(open) > b)
      BY <1>1, <1>7, <2>3 DEF HasNextPage
    <3>2. Newer("open", n) < Cardinality(open)
      BY <1>2, RankBelowLength DEF Newer
    <3>3. Cardinality(open) \in Nat
      BY <1>2, FewNumbers
    <3>4. \A i, j, l \in Nat : i >= l /\ i < j => j > l
      OBVIOUS
    <3> QED BY <1>3, <1>7, <2>1, <3>1, <3>2, <3>3, <3>4
  <2> QED BY <2>2, <2>3
<1>8. ASSUME NEW n \in M PROVE scan'.done /\ scan'.found \in Number /\ scan'.found >= n
  <2>1. Max(M) \in M /\ n <= Max(M) /\ M \subseteq Number
    BY <1>2, MaxOf
  <2>2. \A i, j \in Number : i <= j => j >= i
    BY DEF Number
  <2> QED BY <1>1, <2>1, <2>2
<1> HIDE DEF a, b, page, M, open
<1>9. DashboardAhead'
  BY <1>1, <1>3, <1>4, <1>6, <1>8 DEF DashboardAhead
<1>10. DashboardFound'
  BY <1>1, <1>4, <1>6, <1>7, <1>8 DEF DashboardFound, Complete
<1> QED BY <1>9, <1>10

\* An item opened or reopened only moves the dashboard to a later page.
LEMMA DashboardStep ==
  ASSUME TypeOK, DashboardAhead, DashboardFound, [Next]_vars
  PROVE  DashboardAhead' /\ DashboardFound'
<1>1. CASE Restart
  <2>1. scan'.page = 1 /\ ~scan'.done
    BY <1>1 DEF Restart, NoScan
  <2>2. (1 - 1) * PageSize = 0 /\ \A i \in Nat : i >= 0
    BY ParameterAssumption DEF ParameterAssumption
  <2>3. ASSUME NEW n \in Dashboards(changes.steady)'
        PROVE  Newer("open", n)' >= 0
    <3>1. n \in Number
      BY <1>1, <2>3 DEF Restart, Fresh, Dashboards
    <3>2. InState("open")' \in SUBSET Number /\ InState("open")' \subseteq InState("open")'
      BY DEF InState
    <3>3. Newer("open", n)' \in Nat
      BY <3>1, <3>2, RankGrows DEF Newer
    <3> QED BY <2>2, <3>3
  <2> QED BY <2>1, <2>2, <2>3 DEF DashboardAhead, DashboardFound, Complete
<1>2. CASE GitHubStep
  <2>1. PICK n \in Number :
          /\ Listing /\ world' = world /\ at' = at /\ scan' = scan
          /\ \A m \in Number \ {n} : item'[m] = item[m]
          /\ changes'.steady = changes.steady \ {n}
          /\ \/ /\ item[n] = "none" /\ item'[n] \in {"open", "draft"}
                /\ changes'.shut = changes.shut
             \/ /\ item[n] \in {"open", "draft"} /\ item'[n] = "closed"
                /\ changes'.shut = changes.shut + 1
             \/ /\ item[n] \in {"closed", "draft"} /\ item'[n] = "open"
                /\ changes'.shut = changes.shut
             \/ /\ item[n] \in {"open", "closed"} /\ item'[n] = "gone"
                /\ changes'.shut = IF item[n] = "open" THEN changes.shut + 1 ELSE changes.shut
    BY <1>2, OneChange
  <2>2. ~scan.done /\ Runs("dashboard")' = Runs("dashboard") /\ changes.shut \in Nat
        /\ changes.steady \subseteq Number /\ scan.page \in Nat \ {0}
    BY <2>1, SameRun DEF Listing, TypeOK
  <2>3. DashboardFound'
    BY <2>1, <2>2 DEF DashboardFound, Complete
  <2>4. ASSUME Runs("dashboard"), changes'.shut = 0,
               NEW m \in Dashboards(changes.steady)', item'[m] = "open"
        PROVE  Newer("open", m)' >= (scan.page - 1) * PageSize
    <3>1. /\ m \in Number /\ m \in changes.steady /\ item'[m] = item[m]
          /\ m \in Dashboards(changes.steady)
      BY <2>1, <2>2, <2>4 DEF Dashboards
    <3>2. \A i \in Nat : i + 1 # 0
      OBVIOUS
    <3>3. changes.shut = 0 /\ (item[n] \in {"open", "draft"} => item'[n] \in {"open", "draft"})
      BY <2>1, <2>2, <2>4, <3>2
    <3>4. /\ InState("open") \in SUBSET Number /\ InState("open")' \in SUBSET Number
          /\ InState("open") \subseteq InState("open")'
          /\ InState("open") \subseteq InState("open") /\ InState("open")' \subseteq InState("open")'
      BY <2>1, <3>3 DEF InState, InOpenList
    <3>5. /\ Newer("open", m) = Cardinality({x \in InState("open") : x > m})
          /\ Newer("open", m)' = Cardinality({x \in InState("open")' : x > m})
      BY DEF Newer
    <3> DEFINE S == InState("open")
    <3>6. S \in SUBSET Number /\ S' \in SUBSET Number /\ S \subseteq S' /\ S \subseteq S /\ S' \subseteq S'
      BY <3>4
    <3>7. Newer("open", m) = Cardinality({x \in S : x > m}) /\ Newer("open", m)' = Cardinality({x \in S' : x > m})
      BY <3>5
    <3> HIDE DEF S
    <3>8. Cardinality({x \in S : x > m}) <= Cardinality({x \in S' : x > m})
      BY <3>1, <3>6, RankGrows
    <3>9. Newer("open", m) \in Nat
      BY <3>1, <3>6, <3>7, RankGrows
    <3>10. Newer("open", m)' \in Nat
      BY <3>1, <3>6, <3>7, RankGrows
    <3>11. Newer("open", m) >= (scan.page - 1) * PageSize
      BY <2>2, <2>4, <3>1, <3>3 DEF DashboardAhead
    <3>12. (scan.page - 1) * PageSize \in Nat
      BY <2>2, PageBounds
    <3>13. \A i, j, l \in Nat : i <= j /\ i >= l => j >= l
      OBVIOUS
    <3> QED BY <3>7, <3>8, <3>9, <3>10, <3>11, <3>12, <3>13
  <2> QED BY <2>1, <2>2, <2>3, <2>4 DEF DashboardAhead
<1>3. CASE ReadOpenIssues
  BY <1>3, ReadDashboardStep
<1>4. CASE SkipPRs \/ ReadPRs \/ ReadIssues
  <2>1. ~Runs("dashboard") /\ world' = world /\ at' = at
    BY <1>4 DEF SkipPRs, ReadPRs, ReadIssues, Runs
  <2> QED BY <2>1, SameRun DEF DashboardAhead, DashboardFound, Complete
<1>5. CASE UNCHANGED vars
  <2>1. world' = world /\ item' = item /\ at' = at /\ changes' = changes /\ scan' = scan
    BY <1>5 DEF vars
  <2>2. /\ Runs("dashboard")' = Runs("dashboard")
        /\ Dashboards(changes.steady)' = Dashboards(changes.steady)
        /\ \A n : Newer("open", n)' = Newer("open", n)
    BY <2>1, SameRun DEF Dashboards, Newer, InState, InOpenList
  <2> QED BY <2>1, <2>2 DEF DashboardAhead, DashboardFound, Complete
<1> QED BY <1>1, <1>2, <1>3, <1>4, <1>5, StepKinds DEF ReadPage


-----------------------------------------------------------------------------
(* The theorems *)

LEMMA InitInv ==
  ASSUME Init
  PROVE  Inv
<1>1. item \in [Number -> State]
  BY DEF Init, State
<1>2. /\ NoScan \in [page : Nat \ {0}, cursor : 0 .. MaxItems, seen : SUBSET (Nat \X Number \X State),
                    found : 0 .. MaxItems, body : Bodies \cup {<<>>}, done : BOOLEAN]
      /\ Fresh \in [made : 0 .. MaxChanges, steady : SUBSET Number, created : Nat, shut : Nat, removed : Nat]
  BY ParameterAssumption DEF NoScan, Fresh, ParameterAssumption
<1>3. IsFiniteSet(NoScan.seen)
  BY FS_EmptySet DEF NoScan
<1>4. at \in 0 .. Len(Collectors)
  BY DEF Init, Collectors
<1>5. TypeOK
  BY <1>1, <1>2, <1>3, <1>4 DEF Init, TypeOK
<1> QED BY <1>5 DEF Init, Inv, PRsSeenOnce, PRsAsListed, IssuesPaged, DashboardAhead,
                    DashboardFound, Runs, Complete

LEMMA StepInv ==
  ASSUME Inv, [Next]_vars
  PROVE  Inv'
BY TypeStep, PRsStep, IssuesStep, DashboardStep DEF Inv

\* Collect.Inv: the parts below hold throughout every cycle, whatever is opened,
\* closed or removed between two pages of Runner.collect's listings.
THEOREM Invariant == Spec => []Inv
<1>1. Init => Inv
  BY InitInv
<1>2. Inv /\ [Next]_vars => Inv'
  BY StepInv
<1> QED BY <1>1, <1>2, PTL DEF Spec

\* PRStatsExact: github.pr.count and github.pr.age are exact but for the PRs
\* that changed during the scan or have more labels than a page brings.
THEOREM PRStatsAreExact == Spec => []PRStatsExact
<1>1. Inv => PRStatsExact
  BY StatsExact DEF Inv
<1> QED BY <1>1, Invariant, PTL

\* SelectedAreListed: the arguments that serverSideFilters puts into the query
\* hide no PR that PRFilter.Match selects, in any of its states.
THEOREM SelectedPRsAreListed == Spec => []SelectedAreListed
<1>1. Inv => SelectedAreListed
  BY MatchedIsListed DEF Inv, TypeOK, SelectedAreListed
<1> QED BY <1>1, Invariant, PTL

\* IssuesCountedAgainPerCreation: the numbered pages of fetchIssues count an
\* issue again at most once per item created meanwhile, and lose an issue only
\* if one was removed.
THEOREM IssuesAreCountedAgainPerCreation == Spec => []IssuesCountedAgainPerCreation
<1>1. ASSUME TypeOK, IssuesPaged, Complete("issues")
      PROVE  IssuesCountedAgainPerCreation
  <2> DEFINE b == (scan.page - 1) * PageSize
             N == Numbers(scan.seen)
             all == InState("all")
  <2>1. /\ Runs("issues") /\ scan.done /\ scan.page \in Nat \ {0} /\ b \in Nat /\ all \in SUBSET Number
        /\ scan.seen \subseteq Nat \X Number \X State /\ changes.created \in Nat
        /\ changes.steady \subseteq Number
    BY <1>1, PageBounds DEF Complete, TypeOK, InState
  <2>2. N \subseteq Number /\ PushedBack \subseteq Number /\ N = {o[2] : o \in scan.seen}
    BY <2>1 DEF Numbers, PushedBack
  <2>3. Cardinality(scan.seen) <= Cardinality(N) + changes.created
    <3>1. Cardinality(scan.seen) + Cardinality(PushedBack) <= Cardinality(N) + changes.created
      BY <1>1, <2>1 DEF IssuesPaged
    <3>2. Cardinality(scan.seen) \in Nat /\ Cardinality(PushedBack) \in Nat /\ Cardinality(N) \in Nat
      BY <1>1, <2>2, FewNumbers, FS_CardinalityType DEF TypeOK
    <3>3. \A s, q, u, c \in Nat : s + q <= u + c => s <= u + c
      OBVIOUS
    <3> QED BY <2>1, <3>1, <3>2, <3>3
  <2>4. ASSUME changes.removed = 0, NEW s \in {"open", "closed"}, NEW n \in SteadyIssues(s)
        PROVE  n \in N
    <3>1. /\ n \in changes.steady \cap all /\ ~IsPR(n) /\ Selects(n)
      BY <2>1 DEF SteadyIssues, InState
    <3>2. n \in N \/ Newer("all", n) >= b
      BY <1>1, <2>1, <2>4, <3>1 DEF IssuesPaged
    <3>3. Newer("all", n) < Cardinality(all) /\ Cardinality(all) <= b
      BY <1>1, <2>1, <3>1, RankBelowLength DEF IssuesPaged, Newer
    <3>4. Newer("all", n) \in Nat /\ Cardinality(all) \in Nat
      <4>1. n \in Number /\ all \subseteq all
        BY <2>1, <3>1
      <4>2. Newer("all", n) = Cardinality({x \in all : x > n})
        BY DEF Newer
      <4> HIDE DEF all
      <4> QED BY <2>1, <4>1, <4>2, RankGrows, FewNumbers
    <3>5. \A i, j, l \in Nat : i < j /\ j <= l => ~(i >= l)
      OBVIOUS
    <3> HIDE DEF b, N, all
    <3> QED BY <2>1, <3>2, <3>3, <3>4, <3>5
  <2> HIDE DEF N
  <2> QED BY <2>2, <2>3, <2>4 DEF IssuesCountedAgainPerCreation
<1>2. Inv => IssuesCountedAgainPerCreation
  BY <1>1 DEF Inv, IssuesCountedAgainPerCreation
<1> QED BY <1>2, Invariant, PTL

\* DashboardFound: findDashboardIssue misses a dashboard that stayed open only
\* if an open item left the list while it was paged.
THEOREM OpenDashboardIsFound == Spec => []DashboardFound
<1>1. Inv => DashboardFound
  BY DEF Inv
<1> QED BY <1>1, Invariant, PTL


-----------------------------------------------------------------------------
(* What a dashboard says.  parseDashboard's loop is a recursive function of *)
(* the line; facts about it are proved by looking at the first line where   *)
(* they fail.                                                               *)

\* One turn of the loop, after f.
Turn(body, f, i) ==
  IF i = 0 THEN NoQueue
  ELSE IF i \in Headings(body) /\ body[i].section \in Sections
       THEN [f[i - 1] EXCEPT ![body[i].section] = Items(body, i)]
       ELSE f[i - 1]

\* The loop's first k turns exist.
LEMMA TurnsExist ==
  ASSUME NEW body, NEW n \in Nat
  PROVE  \E f : f = [i \in 0 .. n |-> Turn(body, f, i)]
<1> DEFINE Good(k) == \E f : f = [i \in 0 .. k |-> Turn(body, f, i)]
           Bad == {k \in Nat : ~Good(k)}
<1>1. Good(0)
  <2> DEFINE f == [i \in 0 .. 0 |-> NoQueue]
  <2>1. f = [i \in 0 .. 0 |-> Turn(body, f, i)]
    BY DEF Turn
  <2> QED BY <2>1
<1>2. ASSUME NEW k \in Nat, Good(k) PROVE Good(k + 1)
  <2>1. PICK f : f = [i \in 0 .. k |-> Turn(body, f, i)]
    BY <1>2
  <2> DEFINE g == [i \in 0 .. k + 1 |-> IF i = k + 1 THEN Turn(body, f, k + 1) ELSE f[i]]
  <2>2. \A i \in 0 .. k : g[i] = f[i]
    OBVIOUS
  <2>3. ASSUME NEW i \in 0 .. k + 1 PROVE g[i] = Turn(body, g, i)
    <3>1. Turn(body, g, i) = Turn(body, f, i)
      <4>1. CASE i = 0
        BY <4>1 DEF Turn
      <4>2. CASE i # 0
        <5>1. i - 1 \in 0 .. k
          BY <4>2
        <5>2. g[i - 1] = f[i - 1]
          BY <2>2, <5>1
        <5> HIDE DEF g
        <5> QED BY <5>2 DEF Turn
      <4> QED BY <4>1, <4>2
    <3>2. g[i] = Turn(body, f, i)
      <4>1. CASE i = k + 1
        BY <4>1
      <4>2. CASE i # k + 1
        <5>1. i \in 0 .. k
          BY <4>2
        <5>2. f[i] = Turn(body, f, i)
          BY <2>1, <5>1
        <5> QED BY <2>2, <5>1, <5>2
      <4> QED BY <4>1, <4>2
    <3> QED BY <3>1, <3>2
  <2>4. g = [i \in 0 .. k + 1 |-> g[i]]
    OBVIOUS
  <2> HIDE DEF g
  <2>5. g = [i \in 0 .. k + 1 |-> Turn(body, g, i)]
    BY <2>3, <2>4
  <2> QED BY <2>5
<1> HIDE DEF Good
<1>3. Bad = {}
  <2> SUFFICES ASSUME Bad # {} PROVE FALSE
    OBVIOUS
  <2>1. PICK k \in Bad : \A m \in Bad : k <= m
    BY Least
  <2>2. k # 0 /\ k \in Nat
    BY <1>1
  <2>3. k - 1 \in Nat /\ ~(k <= k - 1) /\ (k - 1) + 1 = k
    BY <2>2
  <2>4. Good(k - 1)
    BY <2>1, <2>3
  <2> QED BY <1>2, <2>3, <2>4
<1> QED BY <1>3 DEF Good

\* Some lines of a body are finitely many.
LEMMA FewLines ==
  ASSUME NEW body \in Seq(Lines), NEW S \in SUBSET DOMAIN body
  PROVE  /\ Len(body) \in Nat /\ DOMAIN body = 1 .. Len(body)
         /\ Cardinality(S) \in Nat
<1>1. Len(body) \in Nat /\ DOMAIN body = 1 .. Len(body)
  OBVIOUS
<1>2. IsFiniteSet(1 .. Len(body))
  BY <1>1, FS_Interval
<1> QED BY <1>1, <1>2, FS_Subset, FS_CardinalityType

\* A section's headings up to line i.
HeadingsOf(body, s, i) == {h \in Headings(body) : body[h].section = s /\ h <= i}

\* After line i, a section counts the items under the last of its headings.
LEMMA LastHeadingCounts ==
  ASSUME NEW body \in Seq(Lines), NEW f, f = [i \in 0 .. Len(body) |-> Turn(body, f, i)],
         NEW i \in 0 .. Len(body)
  PROVE  /\ f[i] \in [Sections -> Nat \cup {Missing}]
         /\ \A s \in Sections :
              f[i][s] = IF HeadingsOf(body, s, i) = {} THEN Missing
                        ELSE Items(body, Max(HeadingsOf(body, s, i)))
<1> DEFINE n == Len(body)
           P(k) == /\ f[k] \in [Sections -> Nat \cup {Missing}]
                   /\ \A s \in Sections :
                        f[k][s] = IF HeadingsOf(body, s, k) = {} THEN Missing
                                  ELSE Items(body, Max(HeadingsOf(body, s, k)))
           Bad == {k \in 0 .. n : ~P(k)}
<1>1. /\ n \in Nat /\ DOMAIN body = 1 .. n
      /\ \A k : Items(body, k) \in Nat
  <2>1. \A k : Items(body, k) \in Nat
    BY FewLines DEF Items
  <2> QED BY <2>1, FewLines
<1>2. \A k \in 0 .. n : f[k] = Turn(body, f, k)
  OBVIOUS
<1>3. P(0)
  <2>1. f[0] = NoQueue
    BY <1>1, <1>2 DEF Turn
  <2>2. \A s : HeadingsOf(body, s, 0) = {}
    BY <1>1 DEF HeadingsOf, Headings
  <2> QED BY <2>1, <2>2 DEF NoQueue
<1>4. ASSUME NEW k \in 1 .. n, P(k - 1) PROVE P(k)
  <2>1. k # 0 /\ k \in 0 .. n /\ k - 1 \in 0 .. n
    BY <1>1
  <2> DEFINE t == body[k].section
             known == k \in Headings(body) /\ t \in Sections
  <2>2. f[k] = IF known THEN [f[k - 1] EXCEPT ![t] = Items(body, k)] ELSE f[k - 1]
    BY <1>2, <2>1 DEF Turn
  <2>3. ASSUME NEW s \in Sections, ~(known /\ s = t)
        PROVE  HeadingsOf(body, s, k) = HeadingsOf(body, s, k - 1)
    <3>1. \A h \in 1 .. n : (h <= k <=> h <= k - 1 \/ h = k)
      BY <1>1
    <3>2. Headings(body) \subseteq 1 .. n
      BY <1>1 DEF Headings
    <3> QED BY <2>3, <3>1, <3>2 DEF HeadingsOf
  <2>4. ASSUME known
        PROVE  HeadingsOf(body, t, k) # {} /\ Max(HeadingsOf(body, t, k)) = k
    <3> DEFINE H == HeadingsOf(body, t, k)
    <3>1. k \in H /\ H \subseteq 1 .. n /\ \A h \in H : h <= k
      BY <1>1, <2>4 DEF HeadingsOf, Headings
    <3> HIDE DEF H
    <3>2. Max(H) \in H /\ k <= Max(H)
      BY <1>1, <3>1, Greatest
    <3>3. Max(H) = k
      <4>1. \A h, j \in 1 .. n : h <= j /\ j <= h => h = j
        BY <1>1
      <4> QED BY <3>1, <3>2, <4>1
    <3> QED BY <3>1, <3>3 DEF H
  <2> HIDE DEF t, known, n
  <2>5. CASE known
    <3>1. f[k] = [f[k - 1] EXCEPT ![t] = Items(body, k)]
      BY <2>2, <2>5
    <3>2. t \in Sections /\ f[k - 1] \in [Sections -> Nat \cup {Missing}] /\ Items(body, k) \in Nat
      BY <1>1, <1>4, <2>5 DEF known
    <3>3. f[k] \in [Sections -> Nat \cup {Missing}]
      BY <3>1, <3>2
    <3>4. \A s \in Sections : f[k][s] = IF s = t THEN Items(body, k) ELSE f[k - 1][s]
      BY <3>1, <3>2
    <3>5. \A s \in Sections \ {t} : f[k][s] = IF HeadingsOf(body, s, k) = {} THEN Missing
                                              ELSE Items(body, Max(HeadingsOf(body, s, k)))
      BY <1>4, <2>3, <3>4
    <3> QED BY <2>4, <2>5, <3>2, <3>3, <3>4, <3>5
  <2>6. CASE ~known
    BY <1>4, <2>2, <2>3, <2>6
  <2> QED BY <2>5, <2>6
<1> HIDE DEF P
<1>5. Bad = {}
  <2> SUFFICES ASSUME Bad # {} PROVE FALSE
    OBVIOUS
  <2>1. PICK k \in Bad : \A m \in Bad : k <= m
    <3>1. Bad \subseteq Nat
      BY <1>1
    <3> QED BY <3>1, Least
  <2>2. k \in 1 .. n /\ k - 1 \in 0 .. n /\ ~(k <= k - 1)
    BY <1>1, <1>3
  <2>3. P(k - 1)
    BY <2>1, <2>2
  <2> QED BY <1>4, <2>2, <2>3
<1> QED BY <1>5 DEF P

\* parseDashboard's counts, of the last heading of each section.
LEMMA CountsOfDashboard ==
  ASSUME NEW body \in Seq(Lines), NEW s \in Sections
  PROVE  LET Of == {i \in Headings(body) : body[i].section = s}
         IN  /\ SectionCounts(body) \in [Sections -> Nat \cup {Missing}]
             /\ SectionCounts(body)[s] = IF Of = {} THEN Missing ELSE Items(body, Max(Of))
<1> DEFINE n == Len(body)
           c == CHOOSE f : f = [i \in 0 .. n |-> Turn(body, f, i)]
<1>1. SectionCounts(body) = c[n]
  BY DEF SectionCounts, Turn
<1>2. n \in Nat /\ DOMAIN body = 1 .. n
  BY FewLines
<1>3. c = [i \in 0 .. n |-> Turn(body, c, i)]
  BY <1>2, TurnsExist
<1> HIDE DEF c
<1>4. n \in 0 .. n
  BY <1>2
<1>5. /\ c[n] \in [Sections -> Nat \cup {Missing}]
      /\ c[n][s] = IF HeadingsOf(body, s, n) = {} THEN Missing
                   ELSE Items(body, Max(HeadingsOf(body, s, n)))
  BY <1>3, <1>4, LastHeadingCounts
<1>6. HeadingsOf(body, s, n) = {i \in Headings(body) : body[i].section = s}
  BY <1>2 DEF HeadingsOf, Headings
<1> QED BY <1>1, <1>5, <1>6

\* The items under a heading are the checkboxes whose nearest heading it is.
LEMMA ItemsAreNearest ==
  ASSUME NEW body \in Seq(Lines), NEW m \in Headings(body)
  PROVE  LET Above(j) == {i \in Headings(body) : i < j}
         IN  Items(body, m) =
               Cardinality({j \in DOMAIN body : /\ body[j].kind = "checkbox"
                                                /\ Above(j) # {} /\ Max(Above(j)) = m})
<1> DEFINE n == Len(body)
           Above(j) == {i \in Headings(body) : i < j}
           U == {j \in DOMAIN body : /\ body[j].kind = "checkbox"
                                     /\ Above(j) # {} /\ Max(Above(j)) = m}
           V == {j \in DOMAIN body : /\ j > m /\ body[j].kind = "checkbox"
                                     /\ ~\E h \in Headings(body) : m < h /\ h < j}
<1>1. n \in Nat /\ DOMAIN body = 1 .. n /\ Headings(body) \subseteq 1 .. n
  BY FewLines DEF Headings
<1>2. ASSUME NEW j \in 1 .. n
      PROVE  (Above(j) # {} /\ Max(Above(j)) = m)
               <=> (j > m /\ ~\E h \in Headings(body) : m < h /\ h < j)
  <2>1. Above(j) \subseteq 1 .. n /\ m \in 1 .. n /\ \A h \in Above(j) : h < j /\ h \in Headings(body)
    BY <1>1
  <2>2. Above(j) # {} => Max(Above(j)) \in Above(j) /\ \A h \in Above(j) : h <= Max(Above(j))
    BY <1>1, <2>1, Greatest
  <2>3. \A h \in Headings(body) : h < j => h \in Above(j)
    OBVIOUS
  <2>4. \A x, y \in 1 .. n : (x < y <=> y > x) /\ ~(x <= y /\ y < x) /\ (x <= y /\ ~(x < y) => x = y)
    BY <1>1
  <2> HIDE DEF n, Above
  <2>5. ASSUME Above(j) # {}, Max(Above(j)) = m
        PROVE  j > m /\ ~\E h \in Headings(body) : m < h /\ h < j
    BY <1>1, <2>1, <2>2, <2>3, <2>4, <2>5
  <2>6. ASSUME j > m, ~\E h \in Headings(body) : m < h /\ h < j
        PROVE  Above(j) # {} /\ Max(Above(j)) = m
    <3>1. m \in Above(j)
      BY <2>1, <2>3, <2>4, <2>6
    <3>2. Max(Above(j)) \in 1 .. n /\ m <= Max(Above(j)) /\ ~(m < Max(Above(j)))
      BY <1>1, <2>1, <2>2, <2>6, <3>1
    <3> QED BY <2>1, <2>4, <3>1, <3>2
  <2> QED BY <2>5, <2>6
<1>3. U = V
  BY <1>1, <1>2
<1> QED BY <1>3 DEF Items

\* QueueCountsSections: parseDashboard counts the checkboxes under the last
\* heading of each section, and reports the dashboards of which nothing counts.
THEOREM QueuesCountSections == Spec => []QueueCountsSections
<1>1. ASSUME NEW body \in Seq(Lines)
      PROVE  LET counts == SectionCounts(body)
                 Above(j) == {i \in Headings(body) : i < j}
                 Of(s)    == {i \in Headings(body) : body[i].section = s}
                 Under(i) == {j \in DOMAIN body : /\ body[j].kind = "checkbox"
                                                  /\ Above(j) # {} /\ Max(Above(j)) = i}
             IN  /\ \A s \in Sections :
                      counts[s] = IF Of(s) = {} THEN Missing ELSE Cardinality(Under(Max(Of(s))))
                 /\ ParseError(body) <=> counts = NoQueue
  <2> DEFINE counts == SectionCounts(body)
             Of(s)    == {i \in Headings(body) : body[i].section = s}
             Above(j) == {i \in Headings(body) : i < j}
             Under(i) == {j \in DOMAIN body : /\ body[j].kind = "checkbox"
                                              /\ Above(j) # {} /\ Max(Above(j)) = i}
  <2>1. \A s \in Sections : /\ counts \in [Sections -> Nat \cup {Missing}]
                            /\ counts[s] = IF Of(s) = {} THEN Missing ELSE Items(body, Max(Of(s)))
    BY CountsOfDashboard
  <2>2. \A s : Of(s) # {} => Max(Of(s)) \in Headings(body)
    <3>1. Len(body) \in Nat /\ \A s : Of(s) \subseteq 1 .. Len(body)
      BY FewLines DEF Headings
    <3> QED BY <3>1, Greatest
  <2>3. \A i \in Headings(body) : Items(body, i) = Cardinality(Under(i))
    BY ItemsAreNearest
  <2>4. \A s \in Sections : Of(s) # {} => Items(body, Max(Of(s))) \in Nat
    BY FewLines DEF Items
  <2>5. ParseError(body) <=> \A s \in Sections : Of(s) = {}
    BY DEF ParseError
  <2>6. "Open" \in Sections
    BY DEF Sections
  <2> HIDE DEF counts, Of, Under
  <2>7. \A s \in Sections :
          counts[s] = IF Of(s) = {} THEN Missing ELSE Cardinality(Under(Max(Of(s))))
    BY <2>1, <2>2, <2>3
  <2>8. \A i \in Nat : i # Missing
    BY DEF Missing
  <2>9. counts = NoQueue <=> \A s \in Sections : counts[s] = Missing
    BY <2>1, <2>6 DEF NoQueue
  <2>10. ParseError(body) <=> counts = NoQueue
    BY <2>1, <2>4, <2>5, <2>8, <2>9
  <2> QED BY <2>7, <2>10 DEF counts, Of, Under
<1>2. Inv => QueueCountsSections
  <2> SUFFICES ASSUME Inv PROVE QueueCountsSections
    OBVIOUS
  <2>1. scan.body \in Seq(Lines)
    <3>1. <<>> \in Seq(Lines)
      OBVIOUS
    <3> QED BY <3>1, ParameterAssumption DEF Inv, TypeOK, ParameterAssumption
  <2> QED BY <1>1, <2>1 DEF QueueCountsSections
<1> QED BY <1>2, Invariant, PTL
=============================================================================

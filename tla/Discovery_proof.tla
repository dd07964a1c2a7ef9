--------------------------- MODULE Discovery_proof ---------------------------
(***************************************************************************)
(* Proofs about Discovery, for every organisation, page size and number of *)
(* refreshes: a refresh that a later one overtakes is a first discovery, a *)
(* repo that stays is listed, and the runner's list names no repo twice.   *)
(***************************************************************************)
EXTENDS Discovery, FiniteSetTheorems, TLAPS

-----------------------------------------------------------------------------
(* The order of the refreshes *)

\* A refresh is a record, whatever its lists are.
IsRefresh(f) ==
  f = [pc |-> f.pc, org |-> f.org, page |-> f.page, found |-> f.found, result |-> f.result,
       first |-> f.first, steady |-> f.steady, removed |-> f.removed,
       after |-> f.after, overtaken |-> f.overtaken]

\* A function of records.
Shape ==
  /\ refresh = [p \in Proc |-> refresh[p]]
  /\ \A p \in Proc : IsRefresh(refresh[p]) /\ refresh[p].after \subseteq Proc
  /\ initialized \in BOOLEAN

OInv == Shape /\ FirstRefreshes /\ OvertakenRuns

\* The invariant holds initially.
LEMMA InitOInv == Init => OInv
<1> SUFFICES ASSUME Init PROVE OInv
  OBVIOUS
<1>1. refresh = [p \in Proc |-> Idle] /\ initialized = FALSE
  BY DEF Init
<1>2. Shape
  <2>1. IsRefresh(Idle) /\ Idle.after = {}
    BY DEF IsRefresh, Idle
  <2> QED BY <1>1, <2>1 DEF Shape
<1>3. FirstRefreshes /\ OvertakenRuns
  BY <1>1 DEF FirstRefreshes, OvertakenRuns, Idle
<1> QED BY <1>2, <1>3 DEF OInv

-----------------------------------------------------------------------------
(* The steps *)

\* A refresh that begins is a first one if it is the runner's, and comes after
\* the running ones only.
LEMMA BeginKeeps ==
  ASSUME OInv, NEW p \in Proc, refresh[p].pc = "idle", p = "runner" => ~initialized,
         Begin(p), UNCHANGED initialized
  PROVE  OInv'
<1> DEFINE f == refresh'[p]
           others == {q \in Proc \ {p} : refresh[q].pc # "idle"}
<1>1. refresh' = [refresh EXCEPT ![p] = f]
  BY DEF OInv, Shape, Begin
<1>2. \/ f = Idle
      \/ \E pc \in {"store", "list"} :
           f = [pc |-> pc, org |-> 1, page |-> 1, found |-> NoRepo, result |-> target.explicit,
                first |-> ~initialized, steady |-> Kept, removed |-> FALSE,
                after |-> others, overtaken |-> FALSE]
  BY DEF OInv, Shape, Begin, Idle
<1>3. IsRefresh(f)
  BY <1>2 DEF IsRefresh, Idle
<1>4. f.overtaken = FALSE /\ f.after \subseteq others
  BY <1>2 DEF Idle
<1>5. f.pc # "idle" /\ ~initialized => f.first
  <2> SUFFICES ASSUME f.pc # "idle", ~initialized PROVE f.first
    OBVIOUS
  <2>1. f.first = TRUE
    <3>1. (~initialized) = TRUE
      OBVIOUS
    <3>2. f # Idle
      BY DEF Idle
    <3>3. PICK pc \in {"store", "list"} :
            f = [pc |-> pc, org |-> 1, page |-> 1, found |-> NoRepo, result |-> target.explicit,
                 first |-> ~initialized, steady |-> Kept, removed |-> FALSE,
                 after |-> others, overtaken |-> FALSE]
      BY <1>2, <3>2
    <3> HIDE DEF f, others
    <3>4. f.first = (~initialized)
      BY <3>3, Zenon
    <3> QED BY <3>1, <3>4, Zenon
  <2> QED BY <2>1
<1> HIDE DEF f
<1>6. \A q \in Proc : refresh'[q] = IF q = p THEN f ELSE refresh[q]
  BY <1>1 DEF OInv, Shape
<1>7. Shape'
  BY <1>1, <1>3, <1>4, <1>6 DEF OInv, Shape
<1>8. \A q \in Proc : p \notin refresh[q].after
  BY DEF OInv, FirstRefreshes
<1>9. FirstRefreshes'
  <2> SUFFICES ASSUME NEW q \in Proc
               PROVE  /\ refresh'[q].pc # "idle" /\ (q = "runner" \/ ~initialized) => refresh'[q].first
                      /\ \A o \in refresh'[q].after :
                           o # q /\ refresh'[o].pc # "idle" /\ refresh'[o].first
    BY DEF FirstRefreshes
  <2>1. CASE q = p
    BY <1>4, <1>5, <1>6, <2>1 DEF OInv, FirstRefreshes, Proc
  <2>2. CASE q # p
    BY <1>6, <1>8, <2>2 DEF OInv, Shape, FirstRefreshes
  <2> QED BY <2>1, <2>2
<1>10. OvertakenRuns'
  BY <1>4, <1>6 DEF OInv, OvertakenRuns
<1> QED BY <1>7, <1>9, <1>10 DEF OInv

\* p's refresh has the place in the order that it had.
SameOrder(p) ==
  /\ IsRefresh(refresh'[p])
  /\ \/ refresh'[p] = Idle
     \/ /\ refresh'[p].after = refresh[p].after /\ refresh'[p].first = refresh[p].first
        /\ refresh'[p].overtaken = refresh[p].overtaken
        /\ (refresh'[p].pc = "idle") = (refresh[p].pc = "idle")

\* A step that changes no refresh's place keeps the invariant.
LEMMA SameOrderKeeps ==
  ASSUME OInv, UNCHANGED initialized, refresh' = [p \in Proc |-> refresh'[p]],
         \A p \in Proc : SameOrder(p) /\ (refresh'[p].pc = "idle") = (refresh[p].pc = "idle")
  PROVE  OInv'
<1>1. \A p \in Proc : refresh'[p] = Idle => refresh'[p].after = {} /\ ~refresh'[p].overtaken /\ refresh'[p].pc = "idle"
  BY DEF Idle
<1>2. Shape'
  BY <1>1 DEF OInv, Shape, SameOrder
<1>3. FirstRefreshes'
  <2> SUFFICES ASSUME NEW p \in Proc
               PROVE  /\ refresh'[p].pc # "idle" /\ (p = "runner" \/ ~initialized) => refresh'[p].first
                      /\ \A o \in refresh'[p].after :
                           o # p /\ refresh'[o].pc # "idle" /\ refresh'[o].first
    BY DEF FirstRefreshes
  <2> QED BY <1>1 DEF OInv, Shape, FirstRefreshes, SameOrder
<1>4. OvertakenRuns'
  BY <1>1 DEF OInv, OvertakenRuns, SameOrder
<1> QED BY <1>2, <1>3, <1>4 DEF OInv

\* GitHub's steps do.
LEMMA ObserveKeeps ==
  ASSUME OInv, NEW removal, Observe(removal), UNCHANGED initialized
  PROVE  OInv'
<1>1. refresh' = [p \in Proc |-> refresh'[p]]
  BY DEF Observe
<1>2. ASSUME NEW p \in Proc
      PROVE  SameOrder(p) /\ (refresh'[p].pc = "idle") = (refresh[p].pc = "idle")
  <2>1. CASE refresh[p].pc = "idle"
    BY <2>1 DEF Observe, SameOrder, IsRefresh, Idle
  <2>2. CASE refresh[p].pc # "idle"
    <3>1. IsRefresh(refresh[p])
      BY DEF OInv, Shape
    <3>2. refresh'[p] = [refresh[p] EXCEPT !.steady = @ \cap Kept', !.removed = @ \/ removal]
      BY <2>2 DEF Observe
    <3> QED BY <2>2, <3>1, <3>2 DEF SameOrder, IsRefresh
  <2> QED BY <2>1, <2>2
<1> QED BY <1>1, <1>2, SameOrderKeeps

\* A page does.
LEMMA ReadPageKeeps ==
  ASSUME OInv, NEW p \in Proc, ReadPage(p)
  PROVE  OInv'
<1>1. refresh' = [q \in Proc |-> refresh'[q]] /\ \A q \in Proc \ {p} : refresh'[q] = refresh[q]
  BY DEF ReadPage, OInv, Shape
<1>2. /\ IsRefresh(refresh'[p])
      /\ refresh'[p].after = refresh[p].after /\ refresh'[p].first = refresh[p].first
      /\ refresh'[p].overtaken = refresh[p].overtaken
      /\ refresh'[p].pc \in {"list", "store"} /\ refresh[p].pc = "list"
  <2> DEFINE f     == refresh[p]
             found == [r \in Repo |-> f.found[r] + IF r \in Page(f.org, f.page) /\ Keeps(f.org, r) THEN 1 ELSE 0]
  <2>1. IsRefresh(f)
    BY DEF OInv, Shape
  <2>2. f.pc = "list"
    BY DEF ReadPage
  <2>3. refresh'[p] = IF HasNext(f.org, f.page)
                      THEN [f EXCEPT !.found = found, !.page = @ + 1]
                      ELSE [f EXCEPT !.found = NoRepo, !.page = 1,
                                     !.result = AddUnseen(@, found),
                                     !.org = @ + 1,
                                     !.pc = IF f.org = Len(target.orgs) THEN "store" ELSE "list"]
    BY DEF ReadPage, OInv, Shape
  <2> HIDE DEF found
  <2>4. CASE HasNext(f.org, f.page)
    BY <2>1, <2>2, <2>3, <2>4 DEF IsRefresh
  <2>5. CASE ~HasNext(f.org, f.page)
    BY <2>1, <2>2, <2>3, <2>5 DEF IsRefresh
  <2> QED BY <2>4, <2>5 DEF f
<1>3. \A q \in Proc : SameOrder(q) /\ (refresh'[q].pc = "idle") = (refresh[q].pc = "idle")
  BY <1>1, <1>2 DEF SameOrder, OInv, Shape
<1>4. UNCHANGED initialized
  BY DEF ReadPage
<1> QED BY <1>1, <1>3, <1>4, SameOrderKeeps

\* A refresh that ends is in no other's past; a stored one overtakes those it
\* came after, which are first ones.
LEMMA EndKeeps ==
  ASSUME OInv, NEW p \in Proc, initialized => initialized', initialized' \in BOOLEAN,
         NEW past, past \in {{}, refresh[p].after},
         refresh' = [q \in Proc |-> IF q \in past
                                     THEN [Ended(p)[q] EXCEPT !.overtaken = TRUE] ELSE Ended(p)[q]]
  PROVE  OInv'
<1>1. p \notin past /\ refresh'[p] = Idle
  BY DEF Ended, OInv, FirstRefreshes
<1>2. ASSUME NEW q \in Proc \ {p}
      PROVE  /\ IsRefresh(refresh'[q]) /\ refresh'[q].after = refresh[q].after \ {p}
             /\ refresh'[q].first = refresh[q].first /\ refresh'[q].pc = refresh[q].pc
             /\ refresh'[q].overtaken => refresh[q].overtaken \/ q \in refresh[p].after
  <2>1. IsRefresh(refresh[q])
    BY DEF OInv, Shape
  <2>2. refresh'[q] = IF q \in past
                      THEN [refresh[q] EXCEPT !.after = @ \ {p}, !.overtaken = TRUE]
                      ELSE [refresh[q] EXCEPT !.after = @ \ {p}]
    BY <2>1 DEF Ended, IsRefresh
  <2> QED BY <2>1, <2>2 DEF IsRefresh
<1>3. IsRefresh(Idle) /\ Idle.after = {} /\ Idle.pc = "idle" /\ ~Idle.overtaken
  BY DEF IsRefresh, Idle
<1>4. Shape'
  BY <1>1, <1>2, <1>3 DEF OInv, Shape
<1>5. \A q \in Proc, o \in Proc :
        o \in refresh[q].after => o # q /\ refresh[o].pc # "idle" /\ refresh[o].first
  BY DEF OInv, FirstRefreshes
<1>6. FirstRefreshes'
  <2> SUFFICES ASSUME NEW q \in Proc
               PROVE  /\ refresh'[q].pc # "idle" /\ (q = "runner" \/ ~initialized') => refresh'[q].first
                      /\ \A o \in refresh'[q].after :
                           o # q /\ refresh'[o].pc # "idle" /\ refresh'[o].first
    BY DEF FirstRefreshes
  <2>1. CASE q = p
    BY <1>1, <1>3, <2>1
  <2>2. CASE q # p
    <3>1. refresh[q].pc # "idle" /\ (q = "runner" \/ ~initialized) => refresh[q].first
      BY DEF OInv, FirstRefreshes
    <3>2. \A o \in refresh'[q].after :
            o \in Proc \ {p} /\ o # q /\ refresh[o].pc # "idle" /\ refresh[o].first
      <4>1. refresh'[q].after = refresh[q].after \ {p} /\ refresh[q].after \subseteq Proc
        BY <1>2, <2>2 DEF OInv, Shape
      <4> QED BY <4>1, <1>5
    <3>3. refresh'[q].pc = refresh[q].pc /\ refresh'[q].first = refresh[q].first
      BY <1>2, <2>2
    <3>4. \A o \in Proc \ {p} : refresh'[o].pc = refresh[o].pc /\ refresh'[o].first = refresh[o].first
      BY <1>2
    <3> QED BY <3>1, <3>2, <3>3, <3>4
  <2> QED BY <2>1, <2>2
<1>7. ASSUME NEW q \in Proc, refresh'[q].overtaken
      PROVE  refresh'[q].pc # "idle" /\ refresh'[q].first
  <2>1. q # p
    BY <1>1, <1>3, <1>7
  <2>2. CASE refresh[q].overtaken
    BY <1>2, <2>1, <2>2 DEF OInv, OvertakenRuns
  <2>3. CASE q \in refresh[p].after
    <3>1. refresh[q].pc # "idle" /\ refresh[q].first
      BY <2>3, <1>5
    <3> QED BY <1>2, <2>1, <3>1
  <2> QED BY <1>2, <1>7, <2>1, <2>2, <2>3
<1> QED BY <1>4, <1>6, <1>7 DEF OInv, OvertakenRuns

\* Every step preserves the invariant.
LEMMA StepOInv == OInv /\ [Next]_vars => OInv'
<1> SUFFICES ASSUME OInv, [Next]_vars PROVE OInv'
  OBVIOUS
<1>1. ASSUME NEW r \in Repo, Create(r) \/ Delete(r) \/ Archive(r) PROVE OInv'
  BY <1>1, ObserveKeeps DEF Create, Delete, Archive, Change
<1>2. CASE CallRepos
  <2>1. CASE initialized
    <3>1. UNCHANGED <<refresh, initialized>>
      BY <1>2, <2>1 DEF CallRepos
    <3> QED BY <3>1 DEF OInv, Shape, FirstRefreshes, OvertakenRuns
  <2>2. CASE ~initialized
    BY <1>2, <2>2, BeginKeeps DEF CallRepos, Proc
  <2> QED BY <2>1, <2>2
<1>3. CASE StartOrTick
  BY <1>3, BeginKeeps DEF StartOrTick, Proc
<1>4. ASSUME NEW p \in Proc, ReadPage(p) PROVE OInv'
  BY <1>4, ReadPageKeeps
<1>5. ASSUME NEW p \in Proc, Store(p) PROVE OInv'
  <2>1. initialized' = TRUE
    BY <1>5 DEF Store
  <2>2. refresh' = [q \in Proc |-> IF q \in refresh[p].after
                                     THEN [Ended(p)[q] EXCEPT !.overtaken = TRUE] ELSE Ended(p)[q]]
    BY <1>5 DEF Store
  <2> QED BY <2>1, <2>2, EndKeeps
<1>6. ASSUME NEW p \in Proc, ListFails(p) PROVE OInv'
  <2>1. UNCHANGED initialized /\ initialized \in BOOLEAN
    BY <1>6 DEF ListFails, OInv, Shape
  <2>2. refresh' = [q \in Proc |-> IF q \in {}
                                     THEN [Ended(p)[q] EXCEPT !.overtaken = TRUE] ELSE Ended(p)[q]]
    BY <1>6 DEF ListFails, Ended
  <2> QED BY <2>1, <2>2, EndKeeps
<1>7. CASE UNCHANGED vars
  BY <1>7 DEF vars, OInv, Shape, FirstRefreshes, OvertakenRuns
<1> QED BY <1>1, <1>2, <1>3, <1>4, <1>5, <1>6, <1>7 DEF Next, Advance

-----------------------------------------------------------------------------
(* Types *)

RefreshType ==
  [pc : {"idle", "list", "store"}, org : Nat \ {0}, page : Nat \ {0},
   found : List, result : List, first : BOOLEAN,
   steady : SUBSET (Nat \X Repo), removed : BOOLEAN,
   after : SUBSET Proc, overtaken : BOOLEAN]

LEMMA TypedShape ==
  ASSUME TypeOK
  PROVE  Shape
BY DEF TypeOK, Shape, IsRefresh

\* The target's parts.
LEMMA TargetTyped ==
  ASSUME target \in Targets
  PROVE  /\ target.explicit \in List /\ target.orgs \in Seq(OrgType)
         /\ Entries = 1 .. Len(target.orgs) /\ Len(target.orgs) \in Nat
         /\ Kept \subseteq Nat \X Repo
         /\ FromOrgs => 1 \in Entries
<1>1. /\ target.explicit \in List /\ target.orgs \in Seq(OrgType)
      /\ target.orgs # <<>> \/ target.explicit # NoRepo
  BY ParameterAssumption DEF ParameterAssumption, TargetType
<1>2. Entries = 1 .. Len(target.orgs) /\ Len(target.orgs) \in Nat
  BY <1>1 DEF Entries
<1>3. Kept \subseteq Nat \X Repo
  BY <1>2 DEF Kept
<1>4. FromOrgs => 1 \in Entries
  BY <1>1, <1>2 DEF FromOrgs
<1> QED BY <1>1, <1>2, <1>3, <1>4

LEMMA NoRepoTyped == NoRepo \in List /\ Idle \in RefreshType
BY DEF NoRepo, List, Idle, RefreshType

\* The lists that a page makes.
LEMMA ListsTyped ==
  ASSUME NEW result \in List, NEW found \in List, NEW P
  PROVE  /\ AddUnseen(result, found) \in List
         /\ [r \in Repo |-> found[r] + IF r \in P THEN 1 ELSE 0] \in List
BY DEF AddUnseen, List

\* A refresh that begins.
LEMMA BeginType ==
  ASSUME TypeOK, NEW p \in Proc, Begin(p)
  PROVE  refresh' \in [Proc -> RefreshType]
<1>1. refresh \in [Proc -> RefreshType] /\ initialized \in BOOLEAN /\ target \in Targets
  BY DEF TypeOK, RefreshType
<1> DEFINE f(pc) == [Idle EXCEPT !.pc = pc,
                       !.result = target.explicit,
                       !.first = ~initialized,
                       !.steady = Kept,
                       !.after = {q \in Proc \ {p} : refresh[q].pc # "idle"}]
<1>2. ASSUME NEW pc \in {"store", "list"} PROVE f(pc) \in RefreshType
  <2>1. target.explicit \in List /\ Kept \in SUBSET (Nat \X Repo)
    BY <1>1, TargetTyped
  <2>2. (~initialized) \in BOOLEAN /\ {q \in Proc \ {p} : refresh[q].pc # "idle"} \in SUBSET Proc
    OBVIOUS
  <2>3. \A first \in BOOLEAN, result \in List, steady \in SUBSET (Nat \X Repo), after \in SUBSET Proc :
          [Idle EXCEPT !.pc = pc, !.result = result, !.first = first, !.steady = steady, !.after = after]
            \in RefreshType
    BY NoRepoTyped DEF RefreshType
  <2> QED BY <2>1, <2>2, <2>3
<1> HIDE DEF f
<1>3. refresh' = [refresh EXCEPT ![p] = Idle] \/ \E pc \in {"store", "list"} : refresh' = [refresh EXCEPT ![p] = f(pc)]
  BY DEF Begin, f
<1> QED BY <1>1, <1>2, <1>3, NoRepoTyped

\* Every step preserves the types.
LEMMA TypeStep ==
  ASSUME TypeOK, [Next]_vars
  PROVE  TypeOK'
<1>1. /\ refresh \in [Proc -> RefreshType] /\ initialized \in BOOLEAN /\ target \in Targets
      /\ repos \in List /\ served \in List /\ archived \subseteq Existing
      /\ changes \in 0 .. MaxChanges /\ failures \in 0 .. MaxFailures
      /\ created \in [Repo -> 0 .. Cardinality(Repo) + changes]
      /\ MaxChanges \in Nat /\ MaxFailures \in Nat /\ Cardinality(Repo) \in Nat
  BY ParameterAssumption, FS_CardinalityType DEF TypeOK, RefreshType, ParameterAssumption
<1>2. ASSUME NEW removal \in BOOLEAN, Observe(removal) PROVE refresh' \in [Proc -> RefreshType]
  <2>1. ASSUME NEW f \in RefreshType, NEW removed \in BOOLEAN, NEW K
        PROVE  [f EXCEPT !.steady = @ \cap K, !.removed = removed] \in RefreshType
    BY DEF RefreshType
  <2>2. ASSUME NEW p \in Proc PROVE refresh'[p] \in RefreshType
    <3>1. CASE refresh[p].pc = "idle"
      BY <1>2, <3>1, NoRepoTyped DEF Observe
    <3>2. CASE refresh[p].pc # "idle"
      <4>1. (refresh[p].removed \/ removal) \in BOOLEAN
        OBVIOUS
      <4>2. refresh'[p] = [refresh[p] EXCEPT !.steady = @ \cap Kept', !.removed = refresh[p].removed \/ removal]
        BY <1>2, <3>2 DEF Observe
      <4>3. \A removed \in BOOLEAN :
              [refresh[p] EXCEPT !.steady = @ \cap Kept', !.removed = removed] \in RefreshType
        BY <1>1, <2>1
      <4> QED BY <4>1, <4>2, <4>3, Zenon
    <3> QED BY <3>1, <3>2
  <2> QED BY <1>2, <2>2 DEF Observe
<1>3. ASSUME Change PROVE /\ changes' = changes + 1 /\ changes' \in 0 .. MaxChanges
                          /\ \A i \in 0 .. Cardinality(Repo) + changes : i \in 0 .. Cardinality(Repo) + changes'
                          /\ Cardinality(Repo) + changes + 1 \in 0 .. Cardinality(Repo) + changes'
  BY <1>1, <1>3 DEF Change
<1>4. ASSUME NEW r \in Repo, Create(r) PROVE TypeOK'
  <2>1. created' = [created EXCEPT ![r] = Cardinality(Repo) + changes + 1] /\ archived' = archived
        /\ UNCHANGED <<target, failures, repos, initialized, served>> /\ Change
    BY <1>4 DEF Create, Change
  <2>2. created' \in [Repo -> 0 .. Cardinality(Repo) + changes']
    BY <1>1, <1>3, <2>1
  <2>3. archived' \subseteq Existing'
    <3>1. Cardinality(Repo) + changes + 1 # 0
      BY <1>1
    <3> QED BY <1>1, <2>1, <3>1 DEF Existing
  <2> QED BY <1>1, <1>2, <1>3, <1>4, <2>1, <2>2, <2>3 DEF TypeOK, Create, RefreshType
<1>5. ASSUME NEW r \in Repo, Delete(r) PROVE TypeOK'
  <2>1. created' = [created EXCEPT ![r] = 0] /\ archived' = archived \ {r}
        /\ UNCHANGED <<target, failures, repos, initialized, served>> /\ Change
    BY <1>5 DEF Delete, Change
  <2>2. created' \in [Repo -> 0 .. Cardinality(Repo) + changes']
    BY <1>1, <1>3, <2>1
  <2>3. archived' \subseteq Existing'
    BY <1>1, <2>1 DEF Existing
  <2> QED BY <1>1, <1>2, <1>3, <1>5, <2>1, <2>2, <2>3 DEF TypeOK, Delete, RefreshType
<1>6. ASSUME NEW r \in Repo, Archive(r) PROVE TypeOK'
  <2>1. created' = created /\ archived' \subseteq archived \cup {r} /\ r \in Existing
        /\ UNCHANGED <<target, failures, repos, initialized, served>> /\ Change
    BY <1>6 DEF Archive, Change
  <2>2. created' \in [Repo -> 0 .. Cardinality(Repo) + changes']
    BY <1>1, <1>3, <2>1
  <2>3. archived' \subseteq Existing'
    BY <1>1, <2>1 DEF Existing
  <2> QED BY <1>1, <1>2, <1>3, <1>6, <2>1, <2>2, <2>3 DEF TypeOK, Archive, RefreshType
<1>7. ASSUME NEW p \in Proc, Begin(p), UNCHANGED <<target, github, failures, repos, initialized, served>>
      PROVE  TypeOK'
  BY <1>1, <1>7, BeginType DEF TypeOK, github, Existing, RefreshType
<1>8. CASE CallRepos
  <2>1. CASE initialized
    BY <1>1, <1>8, <2>1 DEF CallRepos, TypeOK, github, Existing, RefreshType
  <2>2. CASE ~initialized
    BY <1>7, <1>8, <2>2 DEF CallRepos, Proc
  <2> QED BY <2>1, <2>2
<1>9. CASE StartOrTick
  BY <1>7, <1>9 DEF StartOrTick, Proc
<1>10. ASSUME NEW p \in Proc, ReadPage(p) PROVE TypeOK'
  <2> DEFINE f == refresh[p]
             found == [r \in Repo |-> f.found[r] + IF r \in Page(f.org, f.page) /\ Keeps(f.org, r) THEN 1 ELSE 0]
             g == IF HasNext(f.org, f.page)
                  THEN [f EXCEPT !.found = found, !.page = @ + 1]
                  ELSE [f EXCEPT !.found = NoRepo, !.page = 1,
                                 !.result = AddUnseen(@, found),
                                 !.org = @ + 1,
                                 !.pc = IF f.org = Len(target.orgs) THEN "store" ELSE "list"]
  <2>1. f \in RefreshType /\ f.found \in List /\ f.result \in List /\ f.page \in Nat \ {0} /\ f.org \in Nat \ {0}
    BY <1>1 DEF RefreshType
  <2>2. found \in List
    BY <2>1 DEF List
  <2>3. AddUnseen(f.result, found) \in List
    BY <2>1, <2>2, ListsTyped
  <2>4. refresh' = [refresh EXCEPT ![p] = g] /\ UNCHANGED <<target, github, failures, repos, initialized, served>>
    BY <1>10 DEF ReadPage
  <2>5. f.page + 1 \in Nat \ {0} /\ f.org + 1 \in Nat \ {0} /\ 1 \in Nat \ {0}
    BY <2>1
  <2> HIDE DEF f, found
  <2>6. g \in RefreshType
    <3>1. CASE HasNext(f.org, f.page)
      BY <2>1, <2>2, <2>5, <3>1 DEF RefreshType
    <3>2. CASE ~HasNext(f.org, f.page)
      BY <2>1, <2>3, <2>5, <3>2, NoRepoTyped DEF RefreshType
    <3> QED BY <3>1, <3>2
  <2> HIDE DEF g
  <2>7. refresh' \in [Proc -> RefreshType]
    BY <1>1, <2>4, <2>6
  <2> QED BY <1>1, <2>4, <2>7 DEF TypeOK, github, Existing, RefreshType
<1>11. ASSUME NEW p \in Proc, NEW q \in Proc
       PROVE  Ended(p)[q] \in RefreshType /\ [Ended(p)[q] EXCEPT !.overtaken = TRUE] \in RefreshType
  <2>1. Ended(p)[q] \in RefreshType
    BY <1>1, NoRepoTyped DEF Ended, RefreshType
  <2>2. \A f \in RefreshType : [f EXCEPT !.overtaken = TRUE] \in RefreshType
    BY DEF RefreshType
  <2> QED BY <2>1, <2>2
<1>12. ASSUME NEW p \in Proc, Store(p) PROVE TypeOK'
  <2>1. refresh[p].result \in List
    BY <1>1 DEF RefreshType
  <2>2. refresh' \in [Proc -> RefreshType]
    BY <1>11, <1>12 DEF Store
  <2> QED BY <1>1, <1>12, <2>1, <2>2 DEF Store, TypeOK, github, Existing, RefreshType
<1>13. ASSUME NEW p \in Proc, ListFails(p) PROVE TypeOK'
  <2>1. refresh' \in [Proc -> RefreshType]
    <3>1. Ended(p) = [q \in Proc |-> Ended(p)[q]]
      BY DEF Ended
    <3> QED BY <1>11, <1>13, <3>1 DEF ListFails
  <2>2. failures' \in 0 .. MaxFailures
    BY <1>1, <1>13 DEF ListFails
  <2> QED BY <1>1, <1>13, <2>1, <2>2 DEF ListFails, TypeOK, github, Existing, RefreshType
<1>14. CASE UNCHANGED vars
  BY <1>14 DEF vars, github, TypeOK, Existing
<1> QED BY <1>4, <1>5, <1>6, <1>8, <1>9, <1>10, <1>12, <1>13, <1>14 DEF Next, Advance


\* A new repo is the newest.
LEMMA OrderStep ==
  ASSUME TypeOK, InOrder, [Next]_vars
  PROVE  InOrder'
<1>1. created \in [Repo -> 0 .. Cardinality(Repo) + changes] /\ Cardinality(Repo) + changes \in Nat
  BY ParameterAssumption, FS_CardinalityType DEF TypeOK, ParameterAssumption
<1>2. ASSUME NEW r \in Repo, Create(r) PROVE InOrder'
  <2> DEFINE now == Cardinality(Repo) + changes + 1
  <2>1. created' = [created EXCEPT ![r] = now]
    BY <1>2 DEF Create
  <2>2. \A s \in Repo : created[s] # now
    <3>1. \A i, n \in Nat : i \in 0 .. n => i # n + 1
      OBVIOUS
    <3> QED BY <1>1, <3>1
  <2> HIDE DEF now
  <2> QED BY <1>1, <2>1, <2>2 DEF InOrder
<1>3. ASSUME NEW r \in Repo, Delete(r) PROVE InOrder'
  <2>1. created' = [created EXCEPT ![r] = 0]
    BY <1>3 DEF Delete
  <2> QED BY <1>1, <2>1 DEF InOrder
<1>4. CASE UNCHANGED created
  BY <1>4 DEF InOrder
<1> QED BY <1>2, <1>3, <1>4
    DEF Next, Archive, CallRepos, StartOrTick, Advance, ReadPage, Store, ListFails, vars, github

-----------------------------------------------------------------------------
(* Lists name a repo once *)

LEMMA NamedOnceStep ==
  ASSUME TypeOK, NamedOnce, [Next]_vars
  PROVE  NamedOnce'
<1>1. /\ refresh \in [Proc -> RefreshType] /\ repos \in List /\ served \in List
  BY DEF TypeOK, RefreshType
<1>2. target' = target
  BY DEF Next, Create, Delete, Archive, Change, CallRepos, StartOrTick, Advance, ReadPage, Store,
         ListFails, vars
<1> SUFFICES ASSUME FromOrgs PROVE NamedOnce'
  BY <1>2 DEF NamedOnce, FromOrgs
<1>3. /\ target.explicit = NoRepo
      /\ \A r \in Repo : /\ repos[r] <= 1 /\ served[r] <= 1 /\ NoRepo[r] <= 1
                         /\ \A p \in Proc : refresh[p].result[r] <= 1
  BY DEF NamedOnce, FromOrgs, NoRepo
<1>4. ASSUME UNCHANGED <<repos, served>>,
             \A p \in Proc : refresh'[p].result = refresh[p].result \/ refresh'[p].result = NoRepo
      PROVE  NamedOnce'
  BY <1>3, <1>4 DEF NamedOnce
<1>5. ASSUME NEW removal, Observe(removal), UNCHANGED <<repos, served>> PROVE NamedOnce'
  <2>2. ASSUME NEW p \in Proc PROVE refresh'[p].result = refresh[p].result \/ refresh'[p].result = NoRepo
    <3>1. CASE refresh[p].pc = "idle"
      BY <1>5, <3>1 DEF Observe, Idle
    <3>2. CASE refresh[p].pc # "idle"
      <4>1. refresh[p] \in RefreshType
        BY <1>1
      <4>2. refresh'[p] = [refresh[p] EXCEPT !.steady = @ \cap Kept', !.removed = @ \/ removal]
        BY <1>5, <3>2 DEF Observe
      <4> QED BY <4>1, <4>2 DEF RefreshType
    <3> QED BY <3>1, <3>2
  <2> QED BY <1>4, <1>5, <2>2
<1>6. ASSUME NEW p \in Proc, Begin(p), UNCHANGED <<repos, served>> PROVE NamedOnce'
  <2>1. \A q \in Proc : refresh'[q].result = refresh[q].result \/ refresh'[q].result = NoRepo
    BY <1>1, <1>3, <1>6 DEF Begin, Idle
  <2> QED BY <1>4, <1>6, <2>1
<1>7. ASSUME NEW p \in Proc, NEW q \in Proc
      PROVE  /\ Ended(p)[q].result = refresh[q].result \/ Ended(p)[q].result = NoRepo
             /\ [Ended(p)[q] EXCEPT !.overtaken = TRUE].result = Ended(p)[q].result
  <2>1. Ended(p)[q] \in RefreshType
    BY <1>1, NoRepoTyped DEF Ended, RefreshType
  <2> QED BY <1>1, <2>1 DEF Ended, Idle, RefreshType
<1>8. ASSUME NEW p \in Proc, Store(p) PROVE NamedOnce'
  <2>1. \A q \in Proc : refresh'[q].result = refresh[q].result \/ refresh'[q].result = NoRepo
    BY <1>7, <1>8 DEF Store
  <2>2. /\ repos' = refresh[p].result
        /\ served' = refresh[p].result \/ served' = served
    BY <1>8 DEF Store
  <2> QED BY <1>3, <2>1, <2>2 DEF NamedOnce
<1>9. ASSUME NEW p \in Proc, ListFails(p) PROVE NamedOnce'
  BY <1>4, <1>7, <1>9 DEF ListFails
<1>10. ASSUME NEW p \in Proc, ReadPage(p) PROVE NamedOnce'
  <2> DEFINE f == refresh[p]
             found == [r \in Repo |-> f.found[r] + IF r \in Page(f.org, f.page) /\ Keeps(f.org, r) THEN 1 ELSE 0]
             g == IF HasNext(f.org, f.page)
                  THEN [f EXCEPT !.found = found, !.page = @ + 1]
                  ELSE [f EXCEPT !.found = NoRepo, !.page = 1,
                                 !.result = AddUnseen(@, found),
                                 !.org = @ + 1,
                                 !.pc = IF f.org = Len(target.orgs) THEN "store" ELSE "list"]
  <2>1. f \in RefreshType
    BY <1>1
  <2>2. refresh' = [refresh EXCEPT ![p] = g] /\ UNCHANGED <<repos, served>>
    BY <1>10 DEF ReadPage
  <2>3. \A r \in Repo : f.result[r] <= 1
    BY <1>3
  <2> HIDE DEF f, found
  <2>4. g.result = f.result \/ g.result = AddUnseen(f.result, found)
    BY <2>1 DEF RefreshType
  <2> HIDE DEF g
  <2>5. \A r \in Repo : g.result[r] <= 1
    BY <2>3, <2>4 DEF AddUnseen
  <2>6. \A q \in Proc, r \in Repo : refresh'[q].result[r] <= 1
    BY <1>1, <1>3, <2>2, <2>5
  <2> QED BY <1>3, <2>2, <2>6 DEF NamedOnce
<1>11. CASE CallRepos
  <2>1. CASE initialized
    BY <1>3, <1>11, <2>1 DEF CallRepos, NamedOnce
  <2>2. CASE ~initialized
    BY <1>6, <1>11, <2>2 DEF CallRepos, Proc
  <2> QED BY <2>1, <2>2
<1>12. CASE UNCHANGED vars
  BY <1>3, <1>12 DEF vars, NamedOnce
<1> QED BY <1>5, <1>6, <1>8, <1>9, <1>10, <1>11, <1>12
    DEF Next, Create, Delete, Archive, Change, StartOrTick, Advance, Proc

-----------------------------------------------------------------------------
(* A repo that stays is listed *)

\* Where the pages begin and end.
LEMMA PageBounds ==
  ASSUME NEW k \in Nat \ {0}
  PROVE  /\ (k - 1) * PageSize \in Nat /\ k * PageSize \in Nat
         /\ (k - 1) * PageSize <= k * PageSize
         /\ (k + 1) - 1 = k /\ (1 - 1) * PageSize = 0
<1>1. PageSize \in Nat /\ k - 1 \in Nat
  BY ParameterAssumption DEF ParameterAssumption
<1>2. \A i, j \in Nat : i * j \in Nat
  OBVIOUS
<1>3. k * PageSize = (k - 1) * PageSize + PageSize
  BY <1>1
<1> DEFINE a == (k - 1) * PageSize
<1>4. a \in Nat /\ k * PageSize \in Nat
  BY <1>1, <1>2
<1>5. a <= a + PageSize
  <2> HIDE DEF a
  <2> QED BY <1>1, <1>4
<1>6. (1 - 1) * PageSize = 0
  BY <1>1
<1> QED BY <1>3, <1>4, <1>5, <1>6

\* Repos are finitely many; a listed one is newer than fewer than all.
LEMMA NewerTyped ==
  ASSUME NEW o, NEW r
  PROVE  /\ Newer(o, r) \in Nat /\ Cardinality(OrgListing(o)) \in Nat
         /\ r \in OrgListing(o) /\ created[r] \in Nat => Newer(o, r) < Cardinality(OrgListing(o))
<1> DEFINE L == OrgListing(o)
           N == {s \in L : created[s] > created[r]}
<1>1. IsFiniteSet(Repo) /\ L \subseteq Repo /\ N \subseteq L
  BY ParameterAssumption DEF ParameterAssumption, OrgListing, Existing
<1>2. IsFiniteSet(L)
  BY <1>1, FS_Subset
<1>3. /\ IsFiniteSet(N) /\ Cardinality(N) <= Cardinality(L)
      /\ N # L => Cardinality(N) # Cardinality(L)
  BY <1>1, <1>2, FS_Subset
<1>4. Cardinality(N) \in Nat /\ Cardinality(L) \in Nat
  BY <1>2, <1>3, FS_CardinalityType
<1>5. r \in L /\ created[r] \in Nat => N # L
  <2>1. \A i \in Nat : ~(i > i)
    OBVIOUS
  <2> QED BY <2>1
<1>6. Newer(o, r) = Cardinality(N)
  BY DEF Newer
<1> HIDE DEF N, L
<1>7. N # L => Cardinality(N) < Cardinality(L)
  BY <1>3, <1>4
<1> QED BY <1>4, <1>5, <1>6, <1>7 DEF L

\* A new repo moves the listed ones to later pages only.
LEMMA CreatePushes ==
  ASSUME TypeOK, NEW r \in Repo, Create(r), NEW o, NEW s \in OrgListing(o)
  PROVE  Newer(o, s) <= Newer(o, s)'
<1> DEFINE N == {x \in OrgListing(o) : created[x] > created[s]}
           N2 == {x \in OrgListing(o)' : created'[x] > created'[s]}
<1>1. /\ created \in [Repo -> Nat] /\ created[r] = 0 /\ s # r /\ s \in Repo
      /\ \A x \in Repo \ {r} : created'[x] = created[x]
      /\ target' = target
  BY DEF TypeOK, Create, Change, OrgListing, Existing
<1>2. N \subseteq N2 /\ N2 \subseteq Repo
  BY <1>1 DEF OrgListing, Existing
<1>3. IsFiniteSet(Repo)
  BY ParameterAssumption DEF ParameterAssumption
<1>4. Cardinality(N) <= Cardinality(N2)
  BY <1>2, <1>3, FS_Subset
<1> QED BY <1>4 DEF Newer

\* What a refresh has ahead depends on its own state and GitHub's only.
LEMMA AheadSame ==
  ASSUME UNCHANGED <<target, created, archived>>,
         \A p \in Proc : Ahead(refresh'[p])
  PROVE  SteadyAhead'
BY DEF SteadyAhead, Ahead, Kept, Keeps, Existing, FromOrgs, Entries, Newer, OrgListing

\* Ahead does not read the order of the refreshes.
LEMMA AheadOrder ==
  ASSUME NEW f, NEW g, Ahead(f), g.pc = f.pc, g.steady = f.steady, g.org = f.org,
         g.removed = f.removed, g.result = f.result, g.found = f.found, g.page = f.page
  PROVE  Ahead(g)
BY DEF Ahead

LEMMA AheadIdle == Ahead(Idle)
BY DEF Ahead, Idle


LEMMA KeptListed ==
  ASSUME target \in Targets, NEW k \in Kept
  PROVE  /\ k[1] \in Entries /\ k[1] \in Nat \ {0} /\ k[2] \in Repo
         /\ k[2] \in OrgListing(k[1]) /\ Keeps(k[1], k[2])
BY TargetTyped DEF Kept, OrgListing, Existing

\* What GitHub does between two pages.
LEMMA ObserveAhead ==
  ASSUME TypeOK, SteadyAhead, NEW removal \in BOOLEAN, Observe(removal), target' = target,
         ~removal => \A o : \A s \in OrgListing(o) : Newer(o, s) <= Newer(o, s)'
  PROVE  SteadyAhead'
<1> SUFFICES ASSUME NEW p \in Proc PROVE Ahead(refresh[p])'
  BY DEF SteadyAhead
<1>1. CASE refresh[p].pc = "idle"
  <2>1. refresh'[p] = Idle
    BY <1>1 DEF Observe
  <2> QED BY <2>1 DEF Ahead, Idle
<1>2. CASE refresh[p].pc # "idle"
  <2> DEFINE f == refresh[p]
             g == refresh'[p]
  <2>1. f \in RefreshType /\ Ahead(f) /\ target \in Targets
    BY DEF TypeOK, RefreshType, SteadyAhead
  <2>2. g = [f EXCEPT !.steady = @ \cap Kept', !.removed = @ \/ removal]
    BY <1>2 DEF Observe
  <2>3. /\ g.pc = f.pc /\ g.org = f.org /\ g.page = f.page /\ g.found = f.found /\ g.result = f.result
        /\ g.steady = f.steady \cap Kept' /\ g.removed = (f.removed \/ removal)
        /\ f.page \in Nat \ {0} /\ f.removed \in BOOLEAN
    BY <2>1, <2>2 DEF RefreshType
  <2>4. f.pc # "idle"
    BY <1>2
  <2> HIDE DEF f, g
  <2>5. /\ f.steady \subseteq Kept
        /\ f.pc = "list" => FromOrgs /\ f.org \in Entries
        /\ FromOrgs /\ ~f.removed =>
             \A k \in f.steady :
               \/ f.result[k[2]] # 0
               \/ f.pc = "list" /\ k[1] > f.org
               \/ f.pc = "list" /\ k[1] = f.org /\ f.found[k[2]] # 0
               \/ f.pc = "list" /\ k[1] = f.org /\ Newer(k[1], k[2]) >= (f.page - 1) * PageSize
    BY <2>1, <2>4 DEF Ahead
  <2>6. g.steady \subseteq Kept' /\ g.steady \subseteq f.steady
    BY <2>3
  <2>7. FromOrgs' = FromOrgs /\ Entries' = Entries
    BY DEF FromOrgs, Entries
  <2>8. ASSUME FromOrgs, ~g.removed, NEW k \in g.steady
        PROVE  \/ g.result[k[2]] # 0
               \/ g.pc = "list" /\ k[1] > g.org
               \/ g.pc = "list" /\ k[1] = g.org /\ g.found[k[2]] # 0
               \/ g.pc = "list" /\ k[1] = g.org /\ Newer(k[1], k[2])' >= (g.page - 1) * PageSize
    <3>1. ~f.removed /\ ~removal
      BY <2>3, <2>8, Zenon
    <3>2. k \in f.steady /\ k \in Kept
      BY <2>5, <2>6
    <3>3. Newer(k[1], k[2]) <= Newer(k[1], k[2])'
      BY <2>1, <3>1, <3>2, KeptListed
    <3>4. Newer(k[1], k[2]) \in Nat /\ Newer(k[1], k[2])' \in Nat /\ (f.page - 1) * PageSize \in Nat
      <4>1. \A o, r : Newer(o, r) \in Nat
        BY NewerTyped
      <4>2. Newer(k[1], k[2])' \in Nat
        <5> DEFINE N2 == {s \in OrgListing(k[1])' : created'[s] > created'[k[2]]}
        <5>1. N2 \subseteq Repo /\ IsFiniteSet(Repo)
          BY ParameterAssumption DEF ParameterAssumption, OrgListing, Existing
        <5>2. Cardinality(N2) \in Nat
          BY <5>1, FS_Subset, FS_CardinalityType
        <5> QED BY <5>2 DEF Newer
      <4> QED BY <2>3, <4>1, <4>2, PageBounds
    <3>5. \A i, j, l \in Nat : i >= l /\ i <= j => j >= l
      OBVIOUS
    <3>6. Newer(k[1], k[2]) >= (f.page - 1) * PageSize => Newer(k[1], k[2])' >= (g.page - 1) * PageSize
      BY <2>3, <3>3, <3>4, <3>5
    <3> QED BY <2>3, <2>5, <2>8, <3>1, <3>2, <3>6
  <2> QED BY <2>3, <2>5, <2>6, <2>7, <2>8 DEF Ahead, g
<1> QED BY <1>1, <1>2


\* A refresh that begins has all of its listing ahead.
LEMMA BeginAhead ==
  ASSUME TypeOK, SteadyAhead, NEW p \in Proc, Begin(p), UNCHANGED <<target, github>>
  PROVE  SteadyAhead'
<1>1. UNCHANGED <<target, created, archived>> /\ target \in Targets
  BY DEF github, TypeOK
<1>2. refresh \in [Proc -> RefreshType]
  BY DEF TypeOK, RefreshType
<1>3. Ahead(refresh'[p])
  <2> DEFINE g == refresh'[p]
  <2>1. CASE target.explicit # NoRepo
    <3>1. g.pc = "idle" \/ (g.pc = "store" /\ g.steady = Kept)
      BY <1>2, <2>1 DEF Begin, Idle
    <3> HIDE DEF g
    <3>2. Ahead(g)
      BY <2>1, <3>1 DEF Ahead, FromOrgs
    <3> QED BY <3>2 DEF g
  <2>2. CASE target.explicit = NoRepo
    <3>1. g.pc = "list" /\ g.steady = Kept /\ g.org = 1 /\ g.page = 1
      BY <1>2, <2>2 DEF Begin, Idle
    <3>2. FromOrgs /\ 1 \in Entries
      BY <1>1, <2>2, TargetTyped DEF FromOrgs
    <3>3. ASSUME NEW k \in Kept
          PROVE  k[1] > 1 \/ (k[1] = 1 /\ Newer(k[1], k[2]) >= (1 - 1) * PageSize)
      <4>1. k[1] \in Nat \ {0} /\ Newer(k[1], k[2]) \in Nat /\ (1 - 1) * PageSize = 0
        <5>1. 1 \in Nat \ {0}
          OBVIOUS
        <5> QED BY <1>1, <5>1, KeptListed, NewerTyped, PageBounds
      <4>2. \A i \in Nat \ {0}, j \in Nat : (i > 1 \/ i = 1) /\ j >= 0
        OBVIOUS
      <4> QED BY <4>1, <4>2
    <3> HIDE DEF g
    <3>4. Ahead(g)
      BY <3>1, <3>2, <3>3 DEF Ahead
    <3> QED BY <3>4 DEF g
  <2> QED BY <2>1, <2>2
<1>4. \A q \in Proc \ {p} : refresh'[q] = refresh[q]
  BY <1>2 DEF Begin
<1>5. \A q \in Proc : Ahead(refresh'[q])
  BY <1>3, <1>4 DEF SteadyAhead
<1> QED BY <1>1, <1>5, AheadSame


\* A page finds the steady repos that stand on it, and after an entry's last
\* page no steady repo of the entry is left.
LEMMA ReadPageAhead ==
  ASSUME TypeOK, SteadyAhead, NEW p \in Proc, ReadPage(p)
  PROVE  SteadyAhead'
<1> DEFINE f == refresh[p]
           a == (f.page - 1) * PageSize
           b == f.page * PageSize
           page == Page(f.org, f.page)
           found == [r \in Repo |-> f.found[r] + IF r \in page /\ Keeps(f.org, r) THEN 1 ELSE 0]
           g == refresh'[p]
<1>1. UNCHANGED <<target, created, archived>> /\ target \in Targets
      /\ refresh \in [Proc -> RefreshType] /\ created \in [Repo -> Nat]
  BY DEF ReadPage, github, TypeOK, RefreshType
<1>2. f \in RefreshType /\ Ahead(f) /\ f.pc = "list"
  BY <1>1 DEF SteadyAhead, ReadPage
<1>3. /\ f.page \in Nat \ {0} /\ f.org \in Nat \ {0} /\ f.found \in List /\ f.result \in List
  BY <1>2 DEF RefreshType
<1>4. /\ g = IF HasNext(f.org, f.page)
             THEN [f EXCEPT !.found = found, !.page = @ + 1]
             ELSE [f EXCEPT !.found = NoRepo, !.page = 1,
                            !.result = AddUnseen(@, found),
                            !.org = @ + 1,
                            !.pc = IF f.org = Len(target.orgs) THEN "store" ELSE "list"]
      /\ \A q \in Proc \ {p} : refresh'[q] = refresh[q]
  BY <1>1 DEF ReadPage
<1>5. a \in Nat /\ b \in Nat /\ a <= b /\ (f.page + 1) - 1 = f.page /\ (1 - 1) * PageSize = 0
  BY <1>3, PageBounds
<1>6. HasNext(f.org, f.page) <=> b < Cardinality(OrgListing(f.org))
  BY DEF HasNext
<1>7. \A r \in OrgListing(f.org) : a <= Newer(f.org, r) /\ Newer(f.org, r) < b => r \in page
  BY DEF Page
<1>8. \A r \in Repo : /\ found[r] \in Nat
                      /\ f.found[r] # 0 \/ (r \in page /\ Keeps(f.org, r)) => found[r] # 0
  BY <1>3 DEF List
<1> HIDE DEF f, page, found, g
<1>9. /\ f.steady \subseteq Kept /\ FromOrgs /\ f.org \in Entries
      /\ ~f.removed =>
             \A k \in f.steady :
               \/ f.result[k[2]] # 0
               \/ k[1] > f.org
               \/ k[1] = f.org /\ f.found[k[2]] # 0
               \/ k[1] = f.org /\ Newer(k[1], k[2]) >= a
  BY <1>2 DEF Ahead
<1>10. \A k \in f.steady : /\ k[1] \in Entries /\ k[1] \in Nat \ {0} /\ k[2] \in Repo
                           /\ k[2] \in OrgListing(k[1]) /\ Keeps(k[1], k[2])
                           /\ Newer(k[1], k[2]) \in Nat /\ Cardinality(OrgListing(k[1])) \in Nat
                           /\ Newer(k[1], k[2]) < Cardinality(OrgListing(k[1]))
  <2> TAKE k \in f.steady
  <2>1. /\ k[1] \in Entries /\ k[1] \in Nat \ {0} /\ k[2] \in Repo
        /\ k[2] \in OrgListing(k[1]) /\ Keeps(k[1], k[2])
    BY <1>1, <1>9, KeptListed
  <2>2. created[k[2]] \in Nat
    BY <1>1, <2>1
  <2> QED BY <2>1, <2>2, NewerTyped
<1> HIDE DEF a, b
<1>11. ASSUME ~f.removed, NEW k \in f.steady
       PROVE  \/ f.result[k[2]] # 0
              \/ k[1] > f.org
              \/ k[1] = f.org /\ found[k[2]] # 0
              \/ k[1] = f.org /\ Newer(k[1], k[2]) >= b
  <2> SUFFICES ASSUME k[1] = f.org, Newer(f.org, k[2]) >= a, ~(Newer(f.org, k[2]) >= b)
               PROVE  found[k[2]] # 0
    BY <1>8, <1>9, <1>10, <1>11
  <2>1. \A i \in Nat : i >= a /\ ~(i >= b) => a <= i /\ i < b
    BY <1>5
  <2>2. k[2] \in page /\ Keeps(f.org, k[2])
    BY <1>7, <1>10, <2>1
  <2> QED BY <1>8, <1>10, <2>2
<1>12. CASE HasNext(f.org, f.page)
  <2>1. g = [f EXCEPT !.found = found, !.page = @ + 1]
    BY <1>4, <1>12
  <2>2. /\ g.pc = "list" /\ g.org = f.org /\ g.steady = f.steady /\ g.removed = f.removed
        /\ g.result = f.result /\ g.found = found /\ g.page = f.page + 1
    BY <1>2, <2>1 DEF RefreshType
  <2>3. (g.page - 1) * PageSize = b
    BY <1>5, <2>2 DEF b
  <2> QED
    <3>1. Ahead(g)
      BY <1>9, <1>11, <2>2, <2>3 DEF Ahead
    <3>2. \A q \in Proc : Ahead(refresh'[q])
      BY <1>4, <3>1 DEF SteadyAhead, g
    <3> QED BY <1>1, <3>2, AheadSame
<1>13. CASE ~HasNext(f.org, f.page)
  <2> DEFINE pc == IF f.org = Len(target.orgs) THEN "store" ELSE "list"
  <2>1. g = [f EXCEPT !.found = NoRepo, !.page = 1, !.result = AddUnseen(@, found),
                      !.org = @ + 1, !.pc = pc]
    BY <1>4, <1>13
  <2> HIDE DEF pc
  <2>2. /\ g.pc = pc /\ g.org = f.org + 1 /\ g.steady = f.steady /\ g.removed = f.removed
        /\ g.result = AddUnseen(f.result, found) /\ g.found = NoRepo /\ g.page = 1
    BY <1>2, <2>1 DEF RefreshType
  <2>3. Entries = 1 .. Len(target.orgs) /\ Len(target.orgs) \in Nat
    BY <1>1, TargetTyped
  <2>4. g.pc = "list" => g.org \in Entries
    <3>1. \A n, i \in Nat : i \in 1 .. n /\ i # n => i + 1 \in 1 .. n
      OBVIOUS
    <3>2. g.pc = "list" => f.org # Len(target.orgs)
      BY <2>2 DEF pc
    <3> QED BY <1>3, <1>9, <2>2, <2>3, <3>1, <3>2
  <2>5. ASSUME ~f.removed, NEW k \in f.steady
        PROVE  \/ g.result[k[2]] # 0
               \/ g.pc = "list" /\ k[1] > g.org
               \/ g.pc = "list" /\ k[1] = g.org /\ Newer(k[1], k[2]) >= (g.page - 1) * PageSize
    <3>1. f.result[k[2]] # 0 \/ found[k[2]] # 0 => g.result[k[2]] # 0
      BY <1>10, <2>2 DEF AddUnseen
    <3>2. CASE k[1] = f.org /\ Newer(k[1], k[2]) >= b
      <4>1. \A i, j, l \in Nat : i < j /\ ~(l < j) => ~(i >= l)
        OBVIOUS
      <4> QED BY <1>5, <1>6, <1>10, <1>13, <3>2, <4>1
    <3>3. CASE k[1] > f.org
      <4>1. k[1] = g.org \/ k[1] > g.org
        <5>1. \A i, j \in Nat : i > j => i = j + 1 \/ i > j + 1
          OBVIOUS
        <5> QED BY <1>3, <1>10, <2>2, <3>3, <5>1
      <4>2. g.pc = "list"
        <5>1. f.org # Len(target.orgs)
          <6>1. \A n, i \in Nat : i \in 1 .. n => ~(i > n)
            OBVIOUS
          <6> QED BY <1>10, <2>3, <3>3, <6>1
        <5> QED BY <2>2, <5>1 DEF pc
      <4>3. Newer(k[1], k[2]) >= (g.page - 1) * PageSize
        <5>1. \A i \in Nat : i >= 0
          OBVIOUS
        <5> QED BY <1>5, <1>10, <2>2, <5>1
      <4> QED BY <4>1, <4>2, <4>3
    <3> QED BY <1>11, <2>5, <3>1, <3>2, <3>3
  <2>6. Ahead(g)
    BY <1>9, <2>2, <2>4, <2>5 DEF Ahead
  <2>7. \A q \in Proc : Ahead(refresh'[q])
    BY <1>4, <2>6 DEF SteadyAhead, g
  <2> QED BY <1>1, <2>7, AheadSame
<1> QED BY <1>12, <1>13

\* What every step leaves ahead of the refreshes.
LEMMA AheadStep ==
  ASSUME TypeOK, SteadyAhead, [Next]_vars
  PROVE  SteadyAhead'
<1>1. refresh \in [Proc -> RefreshType]
  BY DEF TypeOK, RefreshType
<1>2. ASSUME NEW r \in Repo, Create(r) PROVE SteadyAhead'
  <2>1. \A o : \A s \in OrgListing(o) : Newer(o, s) <= Newer(o, s)'
    BY <1>2, CreatePushes
  <2> QED BY <1>2, <2>1, ObserveAhead DEF Create, Change
<1>3. ASSUME NEW r \in Repo, Delete(r) PROVE SteadyAhead'
  BY <1>3, ObserveAhead DEF Delete, Change
<1>4. ASSUME NEW r \in Repo, Archive(r) PROVE SteadyAhead'
  <2>1. created' = created /\ target' = target
    BY <1>4 DEF Archive, Change
  <2>2. ASSUME NEW o, NEW s PROVE Newer(o, s) <= Newer(o, s)'
    <3>1. Newer(o, s)' = Newer(o, s)
      BY <2>1 DEF Newer, OrgListing, Existing
    <3>2. Newer(o, s) \in Nat
      BY NewerTyped
    <3>3. \A i \in Nat : i <= i
      OBVIOUS
    <3> QED BY <3>1, <3>2, <3>3
  <2> QED BY <1>4, <2>1, <2>2, ObserveAhead DEF Archive
<1>5. CASE CallRepos
  <2>1. CASE initialized
    BY <1>5, <2>1, AheadSame DEF CallRepos, github, SteadyAhead
  <2>2. CASE ~initialized
    BY <1>5, <2>2, BeginAhead DEF CallRepos, Proc
  <2> QED BY <2>1, <2>2
<1>6. CASE StartOrTick
  BY <1>6, BeginAhead DEF StartOrTick, Proc
<1>7. ASSUME NEW p \in Proc, ReadPage(p) PROVE SteadyAhead'
  BY <1>7, ReadPageAhead
<1>8. ASSUME NEW p \in Proc, NEW q \in Proc
      PROVE  Ahead(Ended(p)[q]) /\ Ahead([Ended(p)[q] EXCEPT !.overtaken = TRUE])
  <2> DEFINE g == Ended(p)[q]
             h == [g EXCEPT !.overtaken = TRUE]
  <2>1. Ahead(g) /\ g \in RefreshType
    <3>1. CASE q = p
      BY <3>1, AheadIdle, NoRepoTyped DEF Ended
    <3>2. CASE q # p
      <4>1. g = [refresh[q] EXCEPT !.after = @ \ {p}] /\ refresh[q] \in RefreshType /\ Ahead(refresh[q])
        BY <1>1, <3>2 DEF Ended, SteadyAhead
      <4> HIDE DEF g
      <4>2. /\ g \in RefreshType /\ g.pc = refresh[q].pc /\ g.steady = refresh[q].steady
            /\ g.org = refresh[q].org /\ g.removed = refresh[q].removed /\ g.page = refresh[q].page
            /\ g.result = refresh[q].result /\ g.found = refresh[q].found
        BY <4>1 DEF RefreshType
      <4> QED BY <4>1, <4>2, AheadOrder
    <3> QED BY <3>1, <3>2
  <2> HIDE DEF g
  <2>2. /\ h.pc = g.pc /\ h.steady = g.steady /\ h.org = g.org /\ h.removed = g.removed
        /\ h.page = g.page /\ h.result = g.result /\ h.found = g.found
    BY <2>1 DEF RefreshType
  <2> HIDE DEF h
  <2>3. Ahead(h)
    BY <2>1, <2>2, AheadOrder
  <2> QED BY <2>1, <2>3 DEF g, h
<1>9. ASSUME NEW p \in Proc, Store(p) PROVE SteadyAhead'
  <2>1. \A q \in Proc : Ahead(refresh'[q])
    BY <1>8, <1>9 DEF Store
  <2> QED BY <1>9, <2>1, AheadSame DEF Store, github
<1>10. ASSUME NEW p \in Proc, ListFails(p) PROVE SteadyAhead'
  <2>1. \A q \in Proc : Ahead(refresh'[q])
    BY <1>8, <1>10 DEF ListFails
  <2> QED BY <1>10, <2>1, AheadSame DEF ListFails, github
<1>11. CASE UNCHANGED vars
  BY <1>11, AheadSame DEF vars, github, SteadyAhead
<1> QED BY <1>2, <1>3, <1>4, <1>5, <1>6, <1>7, <1>9, <1>10, <1>11 DEF Next, Advance

-----------------------------------------------------------------------------
(* The theorems *)

LEMMA InitInv == Init => Inv
<1> SUFFICES ASSUME Init PROVE Inv
  OBVIOUS
<1>1. /\ target \in Targets /\ created \in Initially /\ archived = {} /\ changes = 0 /\ failures = 0
      /\ repos = NoRepo /\ served = NoRepo /\ initialized = FALSE
      /\ refresh = [p \in Proc |-> Idle]
  BY DEF Init
<1>2. /\ created \in [Repo -> 0 .. Cardinality(Repo)] /\ InOrder
      /\ MaxChanges \in Nat /\ MaxFailures \in Nat /\ Cardinality(Repo) \in Nat
  BY <1>1, ParameterAssumption, FS_CardinalityType DEF ParameterAssumption, InOrder
<1>3. created \in [Repo -> 0 .. Cardinality(Repo) + changes]
  <2>1. Cardinality(Repo) + changes = Cardinality(Repo)
    BY <1>1, <1>2
  <2> QED BY <1>2, <2>1
<1>4. TypeOK
  <2>1. 0 \in 0 .. MaxChanges /\ 0 \in 0 .. MaxFailures
    BY <1>2
  <2>2. refresh \in [Proc -> RefreshType]
    BY <1>1, NoRepoTyped
  <2>3. archived \subseteq Existing /\ initialized \in BOOLEAN
    BY <1>1
  <2> QED BY <1>1, <1>3, <2>1, <2>2, <2>3, NoRepoTyped DEF TypeOK, RefreshType
<1>5. NamedOnce
  BY <1>1 DEF NamedOnce, NoRepo, Idle
<1>6. SteadyAhead
  BY <1>1, AheadIdle DEF SteadyAhead
<1> QED BY <1>2, <1>4, <1>5, <1>6, InitOInv DEF Inv, OInv

LEMMA StepInv == Inv /\ [Next]_vars => Inv'
<1> SUFFICES ASSUME Inv, [Next]_vars PROVE Inv'
  OBVIOUS
<1>1. OInv
  BY TypedShape DEF Inv, OInv
<1>2. OInv'
  BY <1>1, StepOInv
<1> QED BY <1>2, TypeStep, OrderStep, NamedOnceStep, AheadStep DEF Inv, OInv

\* Discovery.Inv: the parts below hold whatever happens to the organisation
\* between two pages and whichever refreshes run at once.
THEOREM Invariant == Spec => []Inv
BY InitInv, StepInv, PTL DEF Spec

\* OnlyFirstOvertaken: Discoverer.refresh stores an older list over a newer one
\* only if it is a first discovery.
THEOREM OnlyFirst == Spec => []OnlyFirstOvertaken
<1>1. Inv => OnlyFirstOvertaken
  BY DEF Inv, OvertakenRuns, OnlyFirstOvertaken
<1> QED BY <1>1, Invariant, PTL

\* SteadyRepoListed: listOrgRepos' numbered pages lose no repo that the
\* configuration keeps all along, unless a repo is removed meanwhile.
THEOREM SteadyReposAreListed == Spec => []SteadyRepoListed
<1>1. Inv => SteadyRepoListed
  BY DEF Inv, SteadyAhead, Ahead, SteadyRepoListed
<1> QED BY <1>1, Invariant, PTL

\* ServedOnce: discoverOrgs' list names no repo twice, whatever pages shift and
\* however many entries list the repo.
THEOREM ReposAreServedOnce == Spec => []ServedOnce
<1>1. Inv => ServedOnce
  BY DEF Inv, NamedOnce, ServedOnce
<1> QED BY <1>1, Invariant, PTL
=============================================================================

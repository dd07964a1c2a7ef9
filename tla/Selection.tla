----------------------------- MODULE Selection -----------------------------
(***************************************************************************)
(* Which pull requests and issues a target collects, and what a Renovate   *)
(* dashboard says: the filters (internal/filter), the GraphQL arguments    *)
(* derived from them and the conversions around them                       *)
(* (internal/collector/pr.go), and the dashboard issue                     *)
(* (internal/collector/dashboard.go).  Operators only.                     *)
(*                                                                         *)
(* A login, label or state name is a record: its word, the case it is      *)
(* written in, and its suffix, "" or "[bot]".  A branch name is a sequence *)
(* of segments; a title is a value of its own.                             *)
(***************************************************************************)
EXTENDS Integers, Sequences, FiniteSets, SequencesExt

CONSTANTS
  LabelLimit,   \* labels a page brings of a PR (20)
  Words         \* the words of names

Names == [word : Words, letters : {"lower", "upper"}, suffix : {"", "[bot]"}]
Name(word) == [word |-> word, letters |-> "lower", suffix |-> ""]
Nobody     == Name("")

\* strings.ToLower, and the two case-insensitive comparisons built on it.
Lower(name) == [name EXCEPT !.letters = "lower"]
EqualFold(a, b) == Lower(a) = Lower(b)
ContainsCI(items, name) == \E item \in items : EqualFold(item, name)

\* GraphQL's OPEN covers drafts.
GraphQLState(state) == IF state \in {"open", "draft"} THEN "OPEN"
                       ELSE IF state = "closed" THEN "CLOSED" ELSE "MERGED"

\* normaliseState
NormaliseState(pr) ==
  CASE pr.state = "OPEN" -> IF pr.draft THEN "draft" ELSE "open"
    [] pr.state = "CLOSED" -> "closed"
    [] pr.state = "MERGED" -> "merged"

\* Mutant: the login is taken as GraphQL gives it.
PlainLogin(author) == IF author.type = "none" THEN Nobody ELSE author.login

\* authorLogin: GraphQL gives an App bot's login without the suffix that REST
\* and the configuration use.
AuthorLogin(author) ==
  IF author.type = "none" THEN Nobody
  ELSE IF author.type = "Bot" THEN [author.login EXCEPT !.suffix = "[bot]"]
  ELSE author.login

-----------------------------------------------------------------------------
(* The filters; a list is a set, and the empty one does not restrict *)

\* PRFilter.Match, of what PRCollector.match read of a node.
PRMatch(f, state, labels, author, head) ==
  /\ f.states # {} => ContainsCI(f.states, Name(state))
  /\ f.authors # {} => ContainsCI(f.authors, author)
  /\ IsPrefix(f.headBranchPrefix, head)
  /\ f.includeLabels # {} => \E l \in f.includeLabels : ContainsCI(labels, l)
  /\ ~\E l \in f.excludeLabels : ContainsCI(labels, l)

\* The labels a page brings.
FetchedLabels(labels) ==
  ToSet(SubSeq(labels, 1, IF Len(labels) < LabelLimit THEN Len(labels) ELSE LabelLimit))

\* PRCollector.match
Match(f, pr) ==
  PRMatch(f, NormaliseState(pr), FetchedLabels(pr.labels), AuthorLogin(pr.author), pr.head)

\* IssueFilter.Match; f.excluded holds the titles some pattern matches.
IssueMatch(f, state, title) ==
  /\ f.states # {} => ContainsCI(f.states, Name(state))
  /\ title \notin f.excluded

\* Mutant: a draft is no open PR.
ServerStatesWithoutDrafts(f) ==
  {GraphQLState(Lower(s).word) : s \in {n \in f.states : n.word \in {"open", "closed", "merged"} /\ n.suffix = ""}}

\* serverSideFilters: names that are no state are skipped; if none is left the
\* query is not restricted.
ServerStates(f) ==
  {GraphQLState(Lower(s).word) :
     s \in {n \in f.states : n.word \in {"open", "draft", "closed", "merged"} /\ n.suffix = ""}}

SkipOpen(f) == ServerStates(f) # {} /\ "OPEN" \notin ServerStates(f)

\* GitHub's side of the arguments: any of the labels, case-insensitively.
GitHubLists(states, includeLabels, pr) ==
  /\ states # {} => pr.state \in states
  /\ includeLabels # {} => \E l \in includeLabels : ContainsCI(ToSet(pr.labels), l)

-----------------------------------------------------------------------------
(* The dashboard: a body is a sequence of lines, each a heading            *)
(* [section |-> name], of a known section or not, a checkbox or text.      *)

DashboardTitle == "Dependency Dashboard"
Sections == {"Awaiting Schedule", "Rate-Limited", "Pending Approval", "Open"}
Lines    == [kind : {"heading"}, section : Sections \cup {"other"}]
              \cup [kind : {"checkbox", "text"}]

\* isDashboardIssue
IsDashboard(title, user, botLogin) ==
  /\ title = DashboardTitle
  /\ botLogin # Nobody => EqualFold(user, botLogin)

Headings(body) == {i \in DOMAIN body : body[i].kind = "heading"}

\* Mutant: headings of other sections do not end a section.
ItemsToKnown(body, i) ==
  Cardinality({j \in DOMAIN body : /\ j > i /\ body[j].kind = "checkbox"
                                   /\ ~\E h \in Headings(body) : i < h /\ h < j /\ body[h].section # "other"})

\* The checkboxes from heading i to the next heading, known or not.
Items(body, i) ==
  Cardinality({j \in DOMAIN body : /\ j > i /\ body[j].kind = "checkbox"
                                   /\ ~\E h \in Headings(body) : i < h /\ h < j})

\* parseDashboard: the count of every section, Missing for one without heading;
\* a later heading of the same section replaces an earlier one's count.
Missing == -1
NoQueue == [s \in Sections |-> Missing]
SectionCounts(body) ==
  LET counts[i \in 0 .. Len(body)] ==    \* once the headings up to line i are read
        IF i = 0 THEN NoQueue
        ELSE IF i \in Headings(body) /\ body[i].section \in Sections
             THEN [counts[i - 1] EXCEPT ![body[i].section] = Items(body, i)]
             ELSE counts[i - 1]
  IN  counts[Len(body)]
ParseError(body) == \A i \in Headings(body) : body[i].section \notin Sections
=============================================================================

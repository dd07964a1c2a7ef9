------------------------------ MODULE MCCollect ------------------------------
(* A small instance of Collect for TLC. *)
EXTENDS Collect

Upper(name) == [name EXCEPT !.letters = "upper"]
Human == Name("renovate")
Bot   == [Name("renovate") EXCEPT !.suffix = "[bot]"]   \* renovate[bot]
Ghost == Nobody

PR(user, labels, head) ==
  [pr |-> TRUE, labels |-> labels, user |-> user, head |-> head, title |-> "update"]
Issue(user, title) ==
  [pr |-> FALSE, labels |-> <<>>, user |-> user, head |-> <<>>, title |-> title]
Dashboard == Issue(Bot, DashboardTitle)

AnyPR    == [states |-> {}, authors |-> {}, headBranchPrefix |-> <<>>,
             includeLabels |-> {}, excludeLabels |-> {}]
AnyIssue == [states |-> {}, excluded |-> {}]

World(prs, issues, about) ==
  [prs |-> prs, issues |-> issues, dashboard |-> \E n \in Number : about[n].title = DashboardTitle,
   botLogin |-> Bot, about |-> about]

\* Renovate's PRs among others, by author or by branch.
ByAuthor == World([AnyPR EXCEPT !.authors = {Upper(Bot)}], AnyIssue,
  <<PR(Bot, <<>>, <<>>), PR(Human, <<>>, <<>>), PR(Ghost, <<>>, <<>>),
    PR(Bot, <<>>, <<>>)>>)
ByBranch == World([AnyPR EXCEPT !.headBranchPrefix = <<"renovate">>], AnyIssue,
  <<PR(Bot, <<>>, <<"renovate", "x">>), PR(Ghost, <<>>, <<"main">>), Dashboard,
    PR(Bot, <<>>, <<"renovate">>)>>)
\* Labels, one of them beyond the limit; the last PR has more than a page brings.
ByLabel == World([AnyPR EXCEPT !.includeLabels = {Name("deps")}, !.excludeLabels = {Name("wip")}], AnyIssue,
  <<PR(Ghost, <<Upper(Name("deps"))>>, <<>>), PR(Ghost, <<Name("wip"), Name("deps")>>, <<>>),
    PR(Ghost, <<>>, <<>>), PR(Ghost, <<Name("a"), Name("b"), Name("deps")>>, <<>>)>>)
\* States: no open PR but drafts, closed ones and a name that is no state, and no state at all.
Drafts == World([AnyPR EXCEPT !.states = {Upper(Name("draft")), Name("closed")}], AnyIssue,
  [n \in Number |-> PR(Ghost, <<>>, <<>>)])
Closed == World([AnyPR EXCEPT !.states = {Name("closed"), Name("done")}], [AnyIssue EXCEPT !.states = {Name("open")}],
  <<PR(Ghost, <<>>, <<>>), Issue(Ghost, "bug"), Issue(Ghost, "bug"), PR(Ghost, <<>>, <<>>)>>)
NoState == World([AnyPR EXCEPT !.states = {Name("done")}], [AnyIssue EXCEPT !.excluded = {"bug"}],
  <<PR(Ghost, <<>>, <<>>), Issue(Ghost, "bug"), Issue(Ghost, "help"), Issue(Ghost, "help")>>)
\* The dashboard among issues, and two others with its title.
Issues == World(AnyPR, [AnyIssue EXCEPT !.excluded = {DashboardTitle}],
  <<Issue(Ghost, "bug"), Dashboard, Issue(Human, DashboardTitle), Issue(Ghost, "bug")>>)
Renewed == World(AnyPR, AnyIssue,
  <<Dashboard, Issue(Ghost, "bug"), PR(Ghost, <<>>, <<>>), Dashboard>>)

AllWords  == {"", "renovate", "deps", "wip", "a", "b", "draft", "closed", "open", "done"}
AllWorlds == {ByAuthor, ByBranch, ByLabel, Drafts, Closed, NoState, Issues, Renewed}

Head2(s) == [kind |-> "heading", section |-> s]
Box  == [kind |-> "checkbox"]
Text == [kind |-> "text"]
SomeBodies ==
  {<<Text, Box>>,
   <<Box, Head2("Open"), Box, Text, Box>>,
   <<Head2("Rate-Limited"), Head2("Open"), Box, Head2("other"), Box>>,
   <<Head2("Open"), Box, Box, Head2("Pending Approval"), Box, Head2("Open"), Box>>}
=============================================================================

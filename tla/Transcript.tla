---------------------------- MODULE Transcript -----------------------------
(****************************************************************************)
(* How the transcript groups spans into subagents, and the numbered names of *)
(* its breadcrumbs: pure functions of the list of spans.  A span is a record *)
(* with at least                                                             *)
(*   id, parent (None for a root), path (ids from the root; <<>>: missing),  *)
(*   names (the names along the path), type, hash (None: no prompt hash),    *)
(*   start, tokens.                                                          *)
(****************************************************************************)
EXTENDS SpanTree

CONSTANT Window   \* MAIN_AGENT_SEARCH_WINDOW

ASSUME WindowAssumption == Window \in Nat

IsLlm(s)       == s.type \in {"LLM", "CACHED"}
Strict(s)      == IF s.path = <<>> THEN {} ELSE Range(Front(s.path))
ParentPath(s)  == IF s.names = <<>> THEN <<>> ELSE Front(s.names)
Cluster(s)     == <<ParentPath(s), s.hash>>

\* A list in the order of the start times, with s after those that are not later.
InsertByStart(L, s) ==
  LET k == Cardinality({i \in DOMAIN L : L[i].start <= s.start})
  IN  SubSeq(L, 1, k) \o <<s>> \o SubSeq(L, k + 1, Len(L))

\* By start time, equal times in the order of the list.
SortByStart(L) ==
  LET sorted[n \in 0..Len(L)] == IF n = 0 THEN <<>> ELSE InsertByStart(sorted[n - 1], L[n])
  IN  sorted[Len(L)]

LlmSpans(L) == SortByStart(Sublist(L, {s \in Range(L) : IsLlm(s)}))

----------------------------------------------------------------------------
(* Invocations of one agent.                                                *)

DirectParent(s) == IF Len(s.path) >= 2 THEN s.path[Len(s.path) - 1] ELSE s.parent

\* Mutant: the last two ids go, whatever the parent is.
MutStructuralPrefix(cluster, s) ==
  IF Len(s.path) <= 2 THEN <<>> ELSE Front(Front(s.path))

\* The parent of two or more LLM spans of the cluster is an agent and stays;
\* the parent of one is an iteration and goes.
StructuralPrefix(cluster, s) ==
  LET p == DirectParent(s)
      container == Cardinality({t \in cluster : DirectParent(t) = p}) >= 2
  IN CASE container /\ Len(s.path) >= 2 -> Front(s.path)
       [] container /\ Len(s.path) < 2  -> IF p = None THEN <<>> ELSE <<p>>
       [] ~container /\ Len(s.path) <= 2 -> <<>>
       [] OTHER -> Front(Front(s.path))

InvocationRoot(cluster, s) ==
  IF \A t \in cluster : StructuralPrefix(cluster, t) = StructuralPrefix(cluster, s)
  THEN <<>> ELSE StructuralPrefix(cluster, s)

AgentKey(L, s) ==
  <<Cluster(s), InvocationRoot({t \in Range(L) : IsLlm(t) /\ Cluster(t) = Cluster(s)}, s)>>

----------------------------------------------------------------------------
(* The main agent and the subagents.                                        *)

Hashed(L) ==
  LET llms == LlmSpans(L)
      all  == Sublist(llms, {s \in Range(llms) : s.hash # None})
  IN SubSeq(all, 1, Min({Window, Len(all)}))

MainAgent(w) ==
  LET better(i, j) ==
        \/ Len(w[i].names) < Len(w[j].names)
        \/ /\ Len(w[i].names) = Len(w[j].names)
           /\ w[i].tokens > w[j].tokens \/ (w[i].tokens = w[j].tokens /\ i <= j)
  IN Cluster(w[CHOOSE i \in DOMAIN w : \A j \in DOMAIN w : better(i, j)])

\* computeSubagentBoundaries: agent[id] is the anchor of an LLM span's subagent,
\* None for the main agent.  Without a main agent there are no agents.
AgentsOf(L) ==
  LET llms == LlmSpans(L)
      main == MainAgent(Hashed(L))
      anchor(s) == llms[Min({i \in DOMAIN llms : AgentKey(L, llms[i]) = AgentKey(L, s)})].id
      agent(s)  == IF Cluster(s) = main THEN None ELSE anchor(s)
  IN [id \in IF Hashed(L) = <<>> THEN {} ELSE Ids(Range(llms)) |-> agent(The(Range(llms), id))]

\* A claim of an agent on a span: the span is above one of the agent's LLM spans.
AgentsAbove(L, agent, id) == {agent[s.id] : s \in {t \in Range(L) : t.id \in DOMAIN agent /\ id \in Strict(t)}}

\* Of several subagents, the one with the latest LLM span not after the span;
\* at one time, the one that claimed the ancestor first.
NearestPreceding(llms, agent, claims, above, s) ==
  LET calls(a) == {i \in DOMAIN llms : agent[llms[i].id] = a}
      last(a) == Max({llms[i].start : i \in {k \in calls(a) : llms[k].start <= s.start}})
      claim(a) == Min({i \in calls(a) : above \in Strict(llms[i])})
      begun   == {a \in claims : \E i \in calls(a) : llms[i].start <= s.start}
  IN IF begun = {} THEN None
     ELSE CHOOSE a \in begun : \A b \in begun :
            last(a) > last(b) \/ (last(a) = last(b) /\ claim(a) <= claim(b))

ResolveSubagent(L, agent, s) ==
  LET claimed == {i \in 1..(Len(s.path) - 1) : AgentsAbove(L, agent, s.path[i]) # {}}
      deepest == s.path[Max(claimed)]
      claims  == AgentsAbove(L, agent, deepest)
  IN CASE claimed = {} -> None
       [] claimed # {} /\ None \in claims -> None
       [] claimed # {} /\ None \notin claims /\ Cardinality(claims) = 1 -> CHOOSE a \in claims : TRUE
       [] OTHER -> NearestPreceding(LlmSpans(L), agent, claims, deepest, s)

\* buildSpanToAnchorMap: the subagent of every span; None: it stands alone.
SpanToAnchor(L) ==
  LET agent     == AgentsOf(L)
      anchor(s) == IF ~IsLlm(s) THEN ResolveSubagent(L, agent, s)
                   ELSE IF s.id \in DOMAIN agent THEN agent[s.id] ELSE None
  IN [id \in Ids(Range(L)) |-> anchor(The(Range(L), id))]

ComputeSubagentGroups(L) ==
  LET anchor == SpanToAnchor(L)
  IN [a \in Range(anchor) \ {None} |-> {id \in DOMAIN anchor : anchor[id] = a}]

----------------------------------------------------------------------------
(* The entries of the transcript.                                           *)

ListSpans(L, visible) ==
  Sublist(L, {s \in Range(L) : (visible = {} \/ s.id \in visible) /\ s.type # "DEFAULT"})

SpanEntry(s) == [type |-> "span", id |-> s.id]

\* Mutant: a group without a call is not shown.
MutGroupBlock(spans, a) ==
  LET llms == Sublist(spans, {s \in Range(spans) : IsLlm(s)})
  IN IF llms = <<>> THEN <<>>
     ELSE <<[type |-> "group", group |-> a, first |-> llms[1].id, last |-> Last(llms).id],
            [type |-> "group-input", group |-> a, first |-> llms[1].id]>>
          \o [i \in DOMAIN spans |->
               [type |-> "group-span", id |-> spans[i].id, group |-> a, isLast |-> i = Len(spans)]]

GroupBlock(spans, a) ==
  LET llms == Sublist(spans, {s \in Range(spans) : IsLlm(s)})
  IN IF llms = <<>> THEN [i \in DOMAIN spans |-> SpanEntry(spans[i])]
     ELSE <<[type |-> "group", group |-> a, first |-> llms[1].id, last |-> Last(llms).id],
            [type |-> "group-input", group |-> a, first |-> llms[1].id]>>
          \o [i \in DOMAIN spans |->
               [type |-> "group-span", id |-> spans[i].id, group |-> a, isLast |-> i = Len(spans)]]

\* A group is where its first span is.
Entries(list, anchor) ==
  LET of(a) == Sublist(list, {s \in Range(list) : anchor[s.id] = a})
      entry(s, a) ==
        CASE a = None -> <<SpanEntry(s)>>
          [] a # None /\ of(a)[1] = s -> GroupBlock(of(a), a)
          [] OTHER -> <<>>
  IN FlattenSeq([i \in DOMAIN list |-> entry(list[i], anchor[list[i].id])])

\* Mutant: the groups are those of the visible spans.
MutBuildTranscriptListEntries(L, visible) ==
  Entries(ListSpans(L, visible), SpanToAnchor(ListSpans(L, visible)))

BuildTranscriptListEntries(L, visible) ==
  Entries(ListSpans(L, visible), SpanToAnchor(L))

----------------------------------------------------------------------------
(* Breadcrumbs.                                                             *)

\* A section starts at each LLM span.
GroupIntoSections(L) ==
  LET sections[n \in 0..Len(L)] ==
        IF n = 0 THEN <<>>
        ELSE LET before == sections[n - 1]
             IN  IF before = <<>> \/ L[n].type = "LLM" THEN Append(before, <<L[n]>>)
                 ELSE [before EXCEPT ![Len(before)] = Append(@, L[n])]
  IN  sections[Len(L)]

ParentIds(S, id) ==
  LET up[i \in Ids(S)] ==
        LET p == The(S, i).parent
        IN  IF p = None \/ p \notin Ids(S) THEN <<>> ELSE Append(up[p], p)
  IN  up[id]

\* What is in a list, each once.
Distinct(ids) ==
  LET met[n \in 0..Len(ids)] ==
        IF n = 0 THEN <<>>
        ELSE IF ids[n] \in Range(met[n - 1]) THEN met[n - 1] ELSE Append(met[n - 1], ids[n])
  IN  met[Len(ids)]

\* The spans of a section below what all of them share.
SpansInContext(S, section) ==
  LET chains == [i \in DOMAIN section |-> Append(ParentIds(S, section[i].id), section[i].id)]
      shared == {k \in DOMAIN chains[1] :
                   \A i \in DOMAIN chains : k \in DOMAIN chains[i] /\ chains[i][k] = chains[1][k]}
  IN Distinct(FlattenSeq([i \in DOMAIN chains |->
                            SubSeq(chains[i], Max(shared \cup {1}), Len(chains[i]))]))

Name(S, id) == Last(The(S, id).names)

\* The number of a span of a section among those of its name.
Number(S, context, id) ==
  LET i == CHOOSE k \in DOMAIN context : context[k] = id
  IN  Cardinality({k \in 1..i : Name(S, context[k]) = Name(S, id)})

Sections(L) == GroupIntoSections(Sublist(L, {s \in Range(L) : s.type # "DEFAULT"}))

\* Mutant: an earlier section overrides.
MutNumberSection(S, context, map) ==
  [id \in DOMAIN map \cup Range(context) |->
     IF id \in DOMAIN map THEN map[id] ELSE Number(S, context, id)]

\* A later section overrides.
NumberSection(S, context, map) ==
  [id \in DOMAIN map \cup Range(context) |->
     IF id \in Range(context) THEN Number(S, context, id) ELSE map[id]]

BuildSpanNameMap(L) ==
  LET sections == Sections(L)
      map[n \in 0..Len(sections)] ==
        IF n = 0 THEN [id \in {} |-> 0]
        ELSE NumberSection(Range(L), SpansInContext(Range(L), sections[n]), map[n - 1])
  IN  map[Len(sections)]
=============================================================================

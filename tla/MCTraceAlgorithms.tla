------------------------- MODULE MCTraceAlgorithms -------------------------
(****************************************************************************)
(* The functions of SpanTree and Transcript on every small list of spans.    *)
(* The state is a list that grows by one span a step, so that every prefix   *)
(* is checked too; a list is of one kind for all of its growth:              *)
(*   "timeline": all intervals, "tree": all types and collapsed branches,    *)
(*   "agents":   LLM calls, tools and wrappers below a main agent.           *)
(****************************************************************************)
EXTENDS Transcript

CONSTANTS MaxTime, TimelineSize, TreeSize, AgentsSize

ASSUME AlgorithmsAssumption == None \notin Nat /\ MaxTime \in Nat

VARIABLES kind, list

Span(id, parent, type) ==
  LET above == IF parent = None THEN [path |-> <<>>, names |-> <<>>] ELSE The(Range(list), parent)
  IN [id |-> id, parent |-> parent, type |-> type, path |-> Append(above.path, id),
      names |-> Append(above.names, type), hash |-> None, start |-> id, end |-> id + 1,
      pending |-> FALSE, collapsed |-> FALSE, tokens |-> 0, sum |-> -1]

Parents == {None} \cup Ids(Range(list))

AddInterval(parent, start, end) ==
  /\ kind = "timeline" /\ Len(list) < TimelineSize /\ start <= end
  /\ list' = InsertByStart(list, [Span(Len(list) + 1, parent, "DEFAULT") EXCEPT !.start = start, !.end = end])
  /\ UNCHANGED kind

AddNode(parent, type, collapsed) ==
  /\ kind = "tree" /\ Len(list) < TreeSize
  /\ list' = Append(list, [Span(Len(list) + 1, parent, type) EXCEPT
                             !.collapsed = collapsed, !.tokens = IF type = "LLM" THEN Len(list) + 1 ELSE 0])
  /\ UNCHANGED kind

\* LLM calls are leaves.
AddCall(parent, hash, bare) ==
  /\ kind = "agents" /\ Len(list) < AgentsSize
  /\ The(Range(list), parent).type # "LLM"
  /\ LET s == [Span(Len(list) + 1, parent, "LLM") EXCEPT !.hash = hash, !.tokens = Len(list) + 1]
     IN list' = Append(list, IF bare THEN [s EXCEPT !.path = <<>>] ELSE s)
  /\ UNCHANGED kind

AddTool(parent, type) ==
  /\ kind = "agents" /\ Len(list) < AgentsSize
  /\ The(Range(list), parent).type # "LLM"
  /\ list' = Append(list, Span(Len(list) + 1, parent, type))
  /\ UNCHANGED kind

\* A main agent and two tools, next to or inside each other, the first with a
\* call of a subagent.
Scaffold(inner) ==
  LET made(id, parent, type, path, names, hash, tokens) ==
        [id |-> id, parent |-> parent, type |-> type, path |-> path, names |-> names, hash |-> hash,
         start |-> id, end |-> 9, pending |-> FALSE, collapsed |-> FALSE, tokens |-> tokens, sum |-> -1]
  IN << made(1, None, "DEFAULT", <<1>>, <<"app">>, None, 0),
        made(2, 1, "LLM", <<1, 2>>, <<"app", "LLM">>, "main", 2),
        made(3, 1, "TOOL", <<1, 3>>, <<"app", "TOOL">>, None, 0),
        IF inner THEN made(4, 3, "TOOL", <<1, 3, 4>>, <<"app", "TOOL", "TOOL">>, None, 0)
                 ELSE made(4, 1, "TOOL", <<1, 4>>, <<"app", "TOOL">>, None, 0),
        made(5, 3, "LLM", <<1, 3, 5>>, <<"app", "TOOL", "LLM">>, "sub", 2) >>

Init ==
  \/ kind \in {"timeline", "tree"} /\ list = <<>>
  \/ kind = "agents" /\ list \in {Scaffold(inner) : inner \in BOOLEAN}

Next ==
  \E parent \in Parents :
    \/ \E start, end \in 0..MaxTime : AddInterval(parent, start, end)
    \/ \E type \in {"LLM", "DEFAULT"}, collapsed \in BOOLEAN : AddNode(parent, type, collapsed)
    \/ parent # None /\ \E hash \in {"main", "sub"} : AddCall(parent, hash, FALSE)
    \/ parent # None /\ \E bare \in BOOLEAN : AddCall(parent, None, bare)
    \/ parent # None /\ \E type \in {"TOOL", "DEFAULT"} : AddTool(parent, type)

Spec == Init /\ [][Next]_<<kind, list>>

----------------------------------------------------------------------------
(* The tree, the timeline, the search.                                      *)

All == Range(list)
Ancestors(S, id) == Range(ParentIds(S, id))

\* The parts of TreeShown.  transformSpansToTree shows every span without a collapsed ancestor, once,
\* after its parent and at the depth of its ancestors.
TreeComplete ==
  kind = "tree" =>
    LET rows == TransformSpansToTree(list)
        at(id) == CHOOSE i \in DOMAIN rows : rows[i].id = id
    IN /\ IsInjective([i \in DOMAIN rows |-> rows[i].id])
       /\ {rows[i].id : i \in DOMAIN rows} =
            {s.id : s \in {t \in All : \A a \in Ancestors(All, t.id) : ~The(All, a).collapsed}}
       /\ \A i \in DOMAIN rows :
            LET p == The(All, rows[i].id).parent
            IN /\ rows[i].depth = Cardinality(Ancestors(All, rows[i].id))
               /\ p # None => at(p) < i

\* The lines of a row: "branchMask[d] = true if ancestor at depth d has more
\* children below" (the comment on TreeSpan).
BranchLines ==
  kind = "tree" =>
    LET rows == TransformSpansToTree(list)
        parent(i) == The(All, rows[i].id).parent
        line(i)   == Append(ParentIds(All, rows[i].id), rows[i].id)
    IN \A i \in DOMAIN rows : \A d \in 1..rows[i].depth :
         rows[i].mask[d] <=> \E j \in DOMAIN rows : j > i /\ parent(j) = line(i)[d]

\* A selection in the timeline (computeVisibleSpanIds, getTreeSpans) hides rows and
\* neither moves nor opens any: what is left are the rows, at their depth, of the
\* selected spans and of those on the way to them.
SelectionShown ==
  kind = "tree" =>
    LET places(rows) == {<<rows[i].id, rows[i].depth>> : i \in DOMAIN rows}
        whole == places(TransformSpansToTree(list))
    IN \A selection \in SUBSET Ids(All) :
         LET visible == WithAncestors(All, selection)
         IN /\ places(GetTreeSpans(list, visible)) = {p \in whole : visible = {} \/ p[1] \in visible}
            /\ \A id \in visible \ selection : \E s \in selection : id \in Ancestors(All, s)

\* The tree (transformSpansToTree) has its rows and lines in place whatever is
\* collapsed, and of a selection (getTreeSpans) those of it and of the way to it.
TreeShown == TreeComplete /\ BranchLines /\ SelectionShown

\* The condensed timeline: a child is below its parent (the comment of
\* transformSpansToCondensedTimeline), spans that share a row do not share time,
\* and no row is empty.
TimelineSound ==
  kind = "timeline" /\ list # <<>> =>
    LET rows == CondensedRows(list)
        apart(s, t) == s.end <= t.start \/ t.end <= s.start
    IN /\ DOMAIN rows = Ids(All)
       /\ \A s \in All : s.parent # None => rows[s.id] > rows[s.parent]
       /\ \A s, t \in All : s # t /\ rows[s.id] = rows[t.id] => apart(s, t)
       /\ Range(rows) = 0..Max(Range(rows))

\* A search keeps the order of ancestors among the spans it finds, and shows
\* each of them, whatever it leaves out between them.
SearchKeepsAncestry ==
  kind = "tree" =>
    \A kept \in SUBSET Ids(All) :
      LET found == TransformSpans(All, kept)
      IN /\ Ids(found) = kept
         /\ \A id \in kept : Ancestors(found, id) = Ancestors(All, id) \cap kept

----------------------------------------------------------------------------
(* The transcript.                                                          *)

\* Nothing is selected, or all but one of the spans the transcript lists.
Selections == {{}} \cup {Ids(All) \ {s.id} : s \in {t \in All : t.type # "DEFAULT"}}
RowTypes   == {"span", "group-span"}

\* buildTranscriptListEntries: whatever is selected, each visible span is one
\* row; the rows of a group follow its header, in one block whose last row is
\* marked.
EveryVisibleOnce ==
  kind = "agents" =>
    \A visible \in Selections :
      \A E \in {BuildTranscriptListEntries(list, visible)} :
      LET rows == {i \in DOMAIN E : E[i].type \in RowTypes}
      IN /\ \A i, j \in rows : E[i].id = E[j].id => i = j
         /\ {E[i].id : i \in rows} = Ids(Range(ListSpans(list, visible)))
         /\ \A i \in DOMAIN E : E[i].type = "group-span" =>
              /\ E[i - 1].type = "group-input" \/ (E[i - 1].type = "group-span" /\ ~E[i - 1].isLast)
              /\ E[i - 1].group = E[i].group
              /\ E[i].isLast <=> (i = Len(E) \/ E[i + 1].type # "group-span")

\* The transcript and the condensed timeline agree on the groups, also when the
\* transcript shows a selection: they share "naming [...] so the condensed
\* timeline can sync collapsed/expanded state" (the comment of
\* computeSubagentGroups).
GroupsAgree ==
  kind = "agents" =>
    \A groups \in {ComputeSubagentGroups(list)} :
    LET members == UNION {{<<id, a>> : id \in groups[a]} : a \in DOMAIN groups}
        alone(a, visible) == \A m \in members : m[2] = a /\ m[1] \in visible => ~IsLlm(The(All, m[1]))
    IN \A visible \in Selections :
         \A E \in {BuildTranscriptListEntries(list, visible)} :
           \A i \in DOMAIN E :
              /\ E[i].type = "group-span" => <<E[i].id, E[i].group>> \in members
              /\ E[i].type = "span" =>
                   \A m \in members : m[1] = E[i].id => visible # {} /\ alone(m[2], visible)

\* Calls of one subagent that two tools each made several of are two groups;
\* calls that each have a wrapper of their own in one place are one (the comment
\* of computeInvocationRoots).
InvocationsApart ==
  kind = "agents" =>
    \A agent \in {SpanToAnchor(list)} :
    LET calls(s) == {t \in All : IsLlm(t) /\ Cluster(t) = Cluster(s)}
        beside(s) == {t \in calls(s) : t.parent = s.parent}
        looping(s) == Cardinality(beside(s)) >= 2
        above(s) == IF s.parent = None THEN None ELSE The(All, s.parent).parent
    IN \A s, t \in {u \in All : IsLlm(u) /\ agent[u.id] # None /\ u.path # <<>>} :
         Cluster(s) = Cluster(t) /\ s # t =>
           /\ looping(s) /\ looping(t) => (agent[s.id] = agent[t.id] <=> s.parent = t.parent)
           /\ ~looping(s) /\ ~looping(t) /\ above(s) = above(t) => agent[s.id] = agent[t.id]

\* The calls of the main agent are rows of their own, and no early call is
\* shallower than they are: it is "the shortest path among the first N hashed
\* LLMs", and without a prompt hash there is no main agent and no group.
MainInline ==
  kind = "agents" =>
    \A agent \in {SpanToAnchor(list)} :
    LET early == Range(Hashed(list))
        alone == {s \in early : agent[s.id] = None}
    IN /\ early = {} => \A id \in DOMAIN agent : agent[id] = None
       /\ early # {} => /\ alone # {}
                        /\ \A s \in alone, t \in early : Len(s.names) <= Len(t.names)
       /\ \A s, t \in All : IsLlm(s) /\ IsLlm(t) /\ Cluster(s) = Cluster(t) =>
            (agent[s.id] = None <=> agent[t.id] = None)

\* A tool is in the group of the subagent whose calls it shares the longest way
\* from the root with, and in none if the main agent shares as much.
ToolsWithTheirAgent ==
  kind = "agents" =>
    \A agent \in {SpanToAnchor(list)} :
    LET llms   == {s \in All : IsLlm(s)}
        own(s) == IF s.path = <<>> THEN {} ELSE 1..(Len(s.path) - 1)
        shared(s, t) == Max({i \in own(s) : s.path[i] \in Strict(t)} \cup {0})
        way(s, a) == Max({shared(s, t) : t \in {u \in llms : agent[u.id] = a}} \cup {0})
    IN \A s \in All \ llms :
         agent[s.id] # None =>
           /\ way(s, agent[s.id]) > way(s, None)
           /\ \A a \in Range(agent) : way(s, a) <= way(s, agent[s.id])

\* The grouping of the transcript: computeInvocationRoots, the main agent of
\* computeSubagentBoundaries and the tools of buildSpanToAnchorMap.
AgentsGrouped == InvocationsApart /\ MainInline /\ ToolsWithTheirAgent

\* Breadcrumbs: two spans of one name that were last in one section have
\* different numbers ("occurrence counts [2], [3] for duplicate names within
\* sections", the comment of buildSpanNameMap).
NumbersDiffer ==
  kind = "agents" =>
    LET sections == Sections(list)
        inside   == UNION {{<<k, x>> : x \in Range(SpansInContext(All, sections[k]))} : k \in DOMAIN sections}
        last     == {m \in inside : ~ \E n \in inside : n[2] = m[2] /\ n[1] > m[1]}
        numbers  == BuildSpanNameMap(list)
        labels   == {<<m[1], Name(All, m[2]), numbers[m[2]]>> : m \in last}
    IN Cardinality(labels) = Cardinality(last)
=============================================================================

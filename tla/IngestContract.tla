--------------------------- MODULE IngestContract ---------------------------
(***************************************************************************)
(* What span ingestion promises, without queues, workers, keys or retries: *)
(* only accepted requests are stored, a stored span has all its content    *)
(* and a recorded first occurrence of each of its messages in its trace at *)
(* the moment it becomes visible, and nothing stored is taken back.        *)
(***************************************************************************)
EXTENDS Naturals, Sequences

CONSTANTS Msg, Span, Trace, Hash, SpansOf, TraceOf, Tools, Recordable,
          Positions(_)   \* the message hashes of a span that get a verdict

VARIABLES
  accepted,  \* requests the broker has taken
  content,   \* stored content hashes
  firsts,    \* <<trace, hash>>: first occurrences on record
  durable    \* stored spans

contractVars == <<accepted, content, firsts, durable>>

Init ==
  /\ accepted = {} /\ content = {} /\ firsts = {} /\ durable = {}

Accept(m) ==
  /\ accepted' = accepted \cup {m}
  /\ UNCHANGED <<content, firsts, durable>>

AddContent(H) ==
  /\ content' = content \cup H
  /\ UNCHANGED <<accepted, firsts, durable>>

\* One batch of spans becomes visible, together with the first occurrences
\* it brings along.
Commit(S, F) ==
  /\ S \subseteq (UNION {SpansOf[m] : m \in accepted}) \cap Recordable
  /\ firsts' = firsts \cup F
  /\ \A s \in S : Positions(s) \cup Tools[s] \subseteq content
  /\ \A s \in S : \A h \in Positions(s) : <<TraceOf[s], h>> \in firsts'
  /\ durable' = durable \cup S
  /\ UNCHANGED <<accepted, content>>

Next ==
  \/ \E m \in Msg : Accept(m)
  \/ \E H \in SUBSET Hash : AddContent(H)
  \/ \E S \in SUBSET Span, F \in SUBSET (Trace \X Hash) : Commit(S, F)

Spec == Init /\ [][Next]_contractVars
=============================================================================

---------------------------- MODULE MCSpanIngest ----------------------------
(***************************************************************************)
(* Instances of SpanIngest for TLC.                                        *)
(***************************************************************************)
EXTENDS SpanIngest, TLC

\* Two single-span requests of one trace that share message h1: the second
\* may rely on what the first has stored, or both may travel at once.
TwoMsgs == {"m1", "m2"}
TwoSpans == {"s1", "s2"}
OneEach == [m \in TwoMsgs |-> IF m = "m1" THEN {"s1"} ELSE {"s2"}]
OneTrace == [s \in TwoSpans |-> "t1"]
SharedMessage == [s \in TwoSpans |-> <<"h1">>]
NoTools == [s \in TwoSpans |-> {}]

\* One span in a request that is queued more than once.
OneMsg == {"m1"}
OneSpan == {"s1"}
OnlySpan == [m \in OneMsg |-> OneSpan]
OnlyTrace == [s \in OneSpan |-> "t1"]
OneMessage == [s \in OneSpan |-> <<"h1">>]
OnlyNoTools == [s \in OneSpan |-> {}]

\* Two traces share a message; one span also has it as its tool definitions;
\* a request mixes a recordable span with one that is not, one request
\* is empty after should_save and one is oversized. The third message of s1
\* is beyond the positions a verdict can name.
MixedMsgs == {"m1", "m2", "none", "big"}
MixedSpans == {"s1", "s2", "signal", "huge"}
MixedSpansOf == [m \in MixedMsgs |-> CASE m = "m1" -> {"s1", "signal"}
                                       [] m = "m2" -> {"s2"}
                                       [] m = "big" -> {"huge"}
                                       [] OTHER -> {}]
MixedTraces == [s \in MixedSpans |-> IF s = "s2" THEN "t2" ELSE "t1"]
MixedMessages == [s \in MixedSpans |-> CASE s = "s1" -> <<"h1", "h1", "h2">>
                                         [] s = "huge" -> <<>>
                                         [] OTHER -> <<"h1">>]
MixedTools == [s \in MixedSpans |-> IF s = "s2" THEN {"h1"} ELSE {}]

WorkerSymmetry == Permutations(Worker)
=============================================================================

--------------------------- MODULE MCCommandRouter ---------------------------
EXTENDS CommandRouter

\* What a user sends for one purpose.
Dialogue == {<<"/resume">>, <<"/pause", "y">>, <<"/virtual", "y">>,
             <<"/real", "123456">>, <<"/deposit", "y">>,
             <<"/emergency-stop", "y", "123456">>}

\* Two dialogues mixed in every way, each kept in its own order.
Shuffles(d, e) ==
  {[i \in 1..(Len(d) + Len(e)) |->
      IF i \in S THEN d[Cardinality({j \in S : j <= i})]
                 ELSE e[Cardinality({j \in 1..i : j \notin S})]] :
     S \in {P \in SUBSET (1..(Len(d) + Len(e))) : Cardinality(P) = Len(d)}}

\* Every dialogue mixed with a /resume, and some with the one of a command
\* that takes long.
TwoDialogues ==
  UNION {Shuffles(d, <<"/resume">>) : d \in Dialogue}
  \cup UNION {Shuffles(d, <<"/deposit", "y">>) :
               d \in {<<"/pause", "y">>, <<"/virtual", "y">>, <<"/real", "123456">>}}
==============================================================================

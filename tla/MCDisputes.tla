------------------------------ MODULE MCDisputes ------------------------------
EXTENDS Disputes

\* Two validator sets of three that share two keys.
MCValidatorSets == {<<1, 2, 3>>, <<2, 3, 4>>}

ballot(k, vote) == [i \in 1..3 |-> [index |-> i, vote |-> vote[i], signature |-> k[i]]]

\* Every vote of a full set, and lists that are short, unordered, out of range or
\* signed by another.
MCVotes ==
  {ballot(k, vote) : k \in MCValidatorSets, vote \in {<<TRUE, TRUE, TRUE>>,
     <<FALSE, FALSE, FALSE>>, <<TRUE, FALSE, FALSE>>, <<TRUE, TRUE, FALSE>>}}

MCBadVotes ==
  LET b == ballot(<<1, 2, 3>>, <<TRUE, TRUE, TRUE>>)
  IN  {SubSeq(b, 1, 2), <<b[1], b[1], b[2]>>, <<b[1], b[2], [b[3] EXCEPT !.index = 4]>>}

MCVerdict == [target : Reports, age : 0..1, votes : MCVotes]

MCVerdicts ==
  {<<>>} \cup {<<v>> : v \in MCVerdict}
  \cup {<<[target |-> 1, age |-> 0, votes |-> b]>> : b \in MCBadVotes}
  \cup {<<v, w>> \in MCVerdict \X MCVerdict :
          v.age = w.age /\ v.votes = w.votes /\ v.target >= w.target - 1}

MCCulprits ==
  {<<>>} \cup {<<c>> : c \in Culprit}
  \cup {<<c, d>> \in Culprit \X Culprit :
          c.target = d.target /\ c.key = c.signature /\ d.key = d.signature}

MCFaults == {<<>>} \cup {<<f>> : f \in {g \in Fault : g.signature \in {g.key, 1}}}
==============================================================================

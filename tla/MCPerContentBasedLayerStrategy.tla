------------------- MODULE MCPerContentBasedLayerStrategy -------------------
(* Instances of PerContentBasedLayerStrategy for TLC.                      *)
EXTENDS PerContentBasedLayerStrategy

CONSTANTS base, enhanced, other

\* One content in two layers.
MCLayered == {base, enhanced}
MCLayeredContent == [n \in MCLayered |-> 0]
MCLayeredTag == [n \in MCLayered |-> IF n = base THEN 0 ELSE 1]

\* Two results before the first update, then one at a time; none after the last.
MCLearningResults == [k \in 0 .. MaxUpdates |-> IF k \in {0} THEN 2 ELSE IF k = MaxUpdates THEN 0 ELSE 1]

\* Two interests for one content and one for another, in one layer.
MCContents == {base, enhanced, other}
MCContentsContent == [n \in MCContents |-> IF n = other THEN 1 ELSE 0]
MCContentsTag == [n \in MCContents |-> 0]

\* One result of each engine, and no update.
MCOneResult == [k \in 0 .. MaxUpdates |-> 1]
=============================================================================

------------------------- MODULE PlayerLevelHistory -------------------------
(***************************************************************************)
(* The records of a playback, as operators.  A history is a map from       *)
(* segment numbers; where only its keys matter it is the set of them.      *)
(***************************************************************************)
EXTENDS Integers, FiniteSets

NoLevel == -1

\* Keeps the higher level.
SetConsumedPlayerLevel(history, n, l) ==
    IF history[n] < l THEN [history EXCEPT ![n] = l] ELSE history

\* The condition that guards the assignment in the code is always true.
SetPlayerLevel(history, n, l) == [history EXCEPT ![n] = l]

SetRequestedPlayerLevel(requestedKeys, n) == requestedKeys \cup {n}

\* WriteToFile writes a row for each of 0, 1, 2 .. up to the number of levels on
\* record and reads every history at that key: with at(), which throws for a
\* key that is missing.
CanWriteToFile(levelKeys, bufferKeys, requestedKeys) ==
    0 .. Cardinality(levelKeys) - 1 \subseteq levelKeys \cap bufferKeys \cap requestedKeys
=============================================================================

------------------------- MODULE FaceBucketManager -------------------------
(***************************************************************************)
(* The token buckets of one network face, one for each content seen: an    *)
(* interest needs a token of its content, and every few milliseconds the   *)
(* face's share of the link is divided among the buckets that are not      *)
(* full.  Buckets are functions from contents to tokens, in whole units;   *)
(* what a division leaves over stays with the face.                        *)
(***************************************************************************)
EXTENDS Integers, FiniteSets, Functions

CONSTANTS
    TOKEN,          \* units of one token
    BUCKET_SIZE,    \* units a bucket holds
    TOKEN_GEN_RATE  \* units the face gets at a time

ASSUME TokenAssumption == {TOKEN, BUCKET_SIZE, TOKEN_GEN_RATE} \subseteq Nat \ {0}

\* INITIAL_TOKENS: a bucket starts a quarter full.
NewBucket == BUCKET_SIZE \div 4

isFull(tokens) == tokens >= BUCKET_SIZE

addTokens(tokens, n) == IF tokens + n > BUCKET_SIZE THEN BUCKET_SIZE ELSE tokens + n

\* What did not fit.
Overflow(tokens, n) == tokens + n - addTokens(tokens, n)

CanConsumeToken(tokens) == tokens >= TOKEN

getAllNonFullBuckets(bMap) == {c \in DOMAIN bMap : ~isFull(bMap[c])}

\* Mutant of Round: what did not fit is lost.
RoundOnce(s) ==
    LET open == getAllNonFullBuckets(s.bMap)
    IN [bMap |-> [c \in DOMAIN s.bMap |->
                    IF c \in open THEN addTokens(s.bMap[c], s.rest \div Cardinality(open)) ELSE s.bMap[c]],
        rest |-> 0]

\* One round of the loop: what is left is divided again among those not full.
\* (The code divides doubles, and has nothing left but what did not fit.)
Round(s) ==
    LET open == getAllNonFullBuckets(s.bMap)
        share == s.rest \div Cardinality(open)
    IN [bMap |-> [c \in DOMAIN s.bMap |-> IF c \in open THEN addTokens(s.bMap[c], share) ELSE s.bMap[c]],
        rest |-> (s.rest % Cardinality(open))
                    + SumFunction([c \in open |-> Overflow(s.bMap[c], share)])]

\* A round that leaves something to divide filled a bucket, so there are no more
\* rounds than buckets.
newToken(bMap) ==
    LET round[k \in 0 .. Cardinality(DOMAIN bMap)] ==
            IF k = 0 THEN [bMap |-> bMap, rest |-> TOKEN_GEN_RATE]
            ELSE LET s == round[k - 1]
                 IN IF getAllNonFullBuckets(s.bMap) # {} /\ s.rest # 0 THEN Round(s) ELSE s
    IN round[Cardinality(DOMAIN bMap)].bMap
=============================================================================

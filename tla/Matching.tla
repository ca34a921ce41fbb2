------------------------------- MODULE Matching -------------------------------
(***************************************************************************)
(* How the runbook store decides that an utterance is about a runbook:     *)
(* DeterministicSemanticMatcher and its helpers,                           *)
(* src/runbook_voice/runbook_store.py.  A text is the set of its words; a  *)
(* word has a spelling only where a misspelling of it is at stake.         *)
(***************************************************************************)
EXTENDS Integers, SequencesExt

CONSTANTS
    Dictionary,  \* every word a text may hold, in alphabetical order
    Spelling,    \* the letters of a word that a slip may reach
    Alias,       \* the concept that each known term names
    StopWords,   \* words that mean nothing
    Letters,     \* what the words are made of that are compared with each other,
    MaxLetters   \* and how many of them at most
ASSUME MaxLettersAssumption == MaxLetters \in Nat

\* The dictionary names each word once, the known terms and their concepts among them, and
\* what is spelled has letters.
ASSUME DictionaryAssumption ==
    /\ Dictionary \in Seq(STRING)
    /\ \A i, j \in DOMAIN Dictionary : Dictionary[i] = Dictionary[j] => i = j
    /\ DOMAIN Alias \cup Range(Alias) \subseteq Range(Dictionary)
    /\ \A word \in DOMAIN Spelling : Len(Spelling[word]) \in Nat \ {0}

\* The fixed numbers of the source: weights in quarters, threshold in thousandths.
ConceptWeight == 4
ValueWeight == 1
MinimumEvidence == 2
MinFuzzyLength == 6
MaxSlipTenths == 3
Threshold == 480

\* A similarity is a number of tenths.  This is exact for words of up to ten
\* letters compared with one of ten, the only ones the instances let be close.
Tenths == 10

Concepts == {Alias[t] : t \in DOMAIN Alias}
Lesser(a, b) == IF a < b THEN a ELSE b
Greater(a, b) == IF a > b THEN a ELSE b
-----------------------------------------------------------------------------
\* One cell of the table, from the row before, the row before that, and the cell beside it.
Cell(left, right, row, c, previous, beforePrevious, beside) ==
    LET edited == Min({previous[c] + 1, beside + 1,
                       previous[c - 1] + (IF left[row] = right[c] THEN 0 ELSE 1)})
        swapped == /\ row > 1 /\ c > 1
                   /\ left[row] = right[c - 1] /\ left[row - 1] = right[c]
    IN  IF swapped THEN Lesser(edited, beforePrevious[c - 2] + 1) ELSE edited

\* One row: the distance of the first `row` letters of left to each prefix of right.
NextRow(left, right, row, previous, beforePrevious) ==
    LET current[c \in 0..Len(right)] ==
            IF c = 0 THEN row
            ELSE Cell(left, right, row, c, previous, beforePrevious, current[c - 1])
    IN  [c \in 0..Len(right) |-> current[c]]  \* the row as a table of its values

FirstRow(right) == [over |-> FALSE, before |-> <<>>, previous |-> [c \in 0..Len(right) |-> c]]

\* What a row leaves to the next: itself, the one before, and whether all of it is over the
\* limit.
ScannedAtTheEnd(current, limit, rows) == \* a plausible mistake: only its last cell is compared
    [over |-> current[Max(DOMAIN current)] > limit,
     before |-> rows.previous, previous |-> current]
Scanned(current, limit, rows) ==
    [over |-> \A c \in DOMAIN current : current[c] > limit,
     before |-> rows.previous, previous |-> current]

\* A row more, unless every cell of an earlier row was over the limit.
Scan(left, right, limit, row, rows) ==
    IF rows.over THEN rows
    ELSE Scanned(NextRow(left, right, row, rows.previous, rows.before), limit, rows)

Rows(left, right, limit) ==
    LET rows[row \in 0..Len(left)] ==
            IF row = 0 THEN FirstRow(right) ELSE Scan(left, right, limit, row, rows[row - 1])
    IN  rows

Measured(last, right, limit, apart) ==
    IF apart > limit \/ last.over THEN limit + 1 ELSE last.previous[Len(right)]
EditDistance(left, right, limit) ==
    Measured(Rows(left, right, limit)[Len(left)], right, limit,
             Greater(Len(left) - Len(right), Len(right) - Len(left)))

\* How alike two words are: ten tenths, a slip less, or not at all.
LessSlips(distance, tolerance, longest) ==
    IF distance <= tolerance THEN Tenths - (Tenths * distance) \div longest ELSE 0
Similarity(left, right) ==
    LET l == Spelling[left]
        r == Spelling[right]
        longest == Greater(Len(l), Len(r))
        tolerance == (MaxSlipTenths * longest) \div 10
        fuzzy == {left, right} \subseteq DOMAIN Spelling
                 /\ Lesser(Len(l), Len(r)) >= MinFuzzyLength
                 /\ l[1] = r[1] /\ tolerance > 0
    IN  IF left = right THEN Tenths
        ELSE IF fuzzy THEN LessSlips(EditDistance(l, r, tolerance), tolerance, longest) ELSE 0

\* Both tables are kept, as the source keeps them (lru_cache).
Words == Range(Dictionary)
Likeness == [pair \in Words \X Words |-> Similarity(pair[1], pair[2])]

\* The words that a word is like, and of these the closest, in case of a tie the first.
Alike(word, others) == {other \in others : Likeness[<<word, other>>] > 0}
ComesFirst(word, other) ==
    \E i, j \in DOMAIN Dictionary : Dictionary[i] = word /\ Dictionary[j] = other /\ i <= j
Closer(word, one, other) ==
    \/ Likeness[<<word, one>>] > Likeness[<<word, other>>]
    \/ Likeness[<<word, one>>] = Likeness[<<word, other>>] /\ ComesFirst(one, other)
Closest(word, others) ==
    CHOOSE one \in Alike(word, others) : \A other \in others : Closer(word, one, other)

Canonical(word) ==
    IF word \in DOMAIN Alias THEN Alias[word]
    ELSE IF Alike(word, DOMAIN Alias) = {} THEN word ELSE Alias[Closest(word, DOMAIN Alias)]
ConceptOf == [word \in Words |-> Canonical(word)]

\* The words that the matcher reads are in the dictionary, or mean nothing.
Known(text) == text \ StopWords \subseteq Words
Tokens(text) == {ConceptOf[w] : w \in text \ StopWords}
-----------------------------------------------------------------------------
Weight(token) == IF token \in Concepts THEN ConceptWeight ELSE ValueWeight

Weigh(tokens) == Tenths * MapThenSumSet(Weight, tokens)

\* What two texts share: their common tokens, and the leftovers that are nearly the same
\* word, paired greedily in the order of the alphabet, and one to one.
Taken(acc, word, other) ==
    [unpaired |-> acc.unpaired \ {other},
     total |-> acc.total + Likeness[<<word, other>>] * Lesser(Weight(word), Weight(other))]
Paired(acc, word) ==
    IF Alike(word, acc.unpaired) = {} THEN acc
    ELSE Taken(acc, word, Closest(word, acc.unpaired))

Pairing(query, candidate) ==
    LET pairing[n \in 0..Len(Dictionary)] ==
            IF n = 0 THEN [unpaired |-> candidate \ query, total |-> Weigh(query \cap candidate)]
            ELSE IF Dictionary[n] \in query \ candidate
                 THEN Paired(pairing[n - 1], Dictionary[n]) ELSE pairing[n - 1]
    IN  pairing
SharedWeight(query, candidate) == Pairing(query, candidate)[Len(Dictionary)].total

\* 0.7 of coverage and 0.3 of Jaccard similarity, in thousandths; 0 where the
\* two have too little in common to be compared.
Blend(shared, lesser, union) ==
    (1000 * (7 * shared * union + 3 * shared * lesser)) \div (10 * lesser * union)
CompareByQuery(shared, q, c) == \* a plausible mistake: how much of the request is covered
    IF shared < Tenths * MinimumEvidence THEN 0 ELSE Blend(shared, q, q + c - shared)
Compare(shared, q, c) ==
    IF shared < Tenths * MinimumEvidence THEN 0 ELSE Blend(shared, Lesser(q, c), q + c - shared)
Score(query, candidate) ==
    IF candidate = {} THEN 0
    ELSE Compare(SharedWeight(query, candidate), Weigh(query), Weigh(candidate))

NoRunbook == [id |-> "none"]

\* _match_text: the fields of a runbook that the matcher reads.
Text(runbook) == runbook.words \cup runbook.examples

\* The best of the runbooks, the first of equals, if it is good enough.
Better(scores, i, j) == scores[i] > scores[j] \/ (scores[i] = scores[j] /\ i <= j)
Best(scores) ==
    {i \in DOMAIN scores :
        scores[i] >= Threshold /\ \A j \in DOMAIN scores : Better(scores, i, j)}
MatchTokens(query, runbooks) ==
    LET best == Best([i \in DOMAIN runbooks |-> Score(query, Tokens(Text(runbooks[i])))])
    IN  IF query = {} \/ best = {} THEN NoRunbook ELSE runbooks[CHOOSE i \in best : TRUE]
Match(utterance, runbooks) == MatchTokens(Tokens(utterance), runbooks)

-----------------------------------------------------------------------------
(* Reference definitions *)

\* The distance itself: the fewest insertions, deletions, substitutions and swaps of
\* neighbours, no letter being touched twice.
Slip(left, right, i, j) == IF left[i] = right[j] THEN 0 ELSE 1
Swapped(left, right, i, j) ==
    i > 1 /\ j > 1 /\ left[i] = right[j - 1] /\ left[i - 1] = right[j]
Fewest(left, right, d, i, j) ==
    IF i = 0 \/ j = 0 THEN i + j
    ELSE Min({d[<<i - 1, j>>] + 1, d[<<i, j - 1>>] + 1,
              d[<<i - 1, j - 1>>] + Slip(left, right, i, j)}
             \cup (IF Swapped(left, right, i, j) THEN {d[<<i - 2, j - 2>>] + 1} ELSE {}))
Distances(left, right) ==
    LET d[at \in (0..Len(left)) \X (0..Len(right))] == Fewest(left, right, d, at[1], at[2])
    IN  d
Distance(left, right) == Distances(left, right)[<<Len(left), Len(right)>>]

StopsEarlySoundly(left, right, limit) ==
    LET distance == Distance(left, right)
        found == EditDistance(left, right, limit)
    IN  IF distance <= limit THEN found = distance ELSE found > limit

\* So for all the words and limits of an instance.
ScanIsExact ==
    \A left, right \in BoundedSeq(Letters, MaxLetters), limit \in 0..MaxLetters :
        StopsEarlySoundly(left, right, limit)
=============================================================================

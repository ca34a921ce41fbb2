------------------------------ MODULE Suggesting ------------------------------
(***************************************************************************)
(* What the console reads out of a request for the agent that matched it,  *)
(* suggested_slot_values of src/runbook_voice/completed_agents.py.  A text *)
(* is the sequence of its words in lower case; what is read for a slot is  *)
(* such a text, and the empty one if nothing is.                           *)
(***************************************************************************)
EXTENDS Slots

CONSTANTS
    Numerals,  \* the words that are written in digits
    Within,    \* the pairs of a word and a longer one that its letters are in
    WordsOf    \* the words of the examples that have several, or capitals

NumberWords ==
    [zero |-> "0", one |-> "1", two |-> "2", three |-> "3", four |-> "4", five |-> "5",
     six |-> "6", seven |-> "7", eight |-> "8", nine |-> "9", ten |-> "10",
     eleven |-> "11", twelve |-> "12"]
IsNumber(word) == word \in Numerals \cup DOMAIN NumberWords
Number(word) == IF word \in DOMAIN NumberWords THEN NumberWords[word] ELSE word

DayWords == {"today", "tomorrow", "tonight", "monday", "tuesday", "wednesday", "thursday",
             "friday", "saturday", "sunday"}
CityEnds == {"today", "tomorrow", "tonight", "on", "at", "for"}

NoText == <<>>
Phrase(example) == IF example \in DOMAIN WordsOf THEN WordsOf[example] ELSE <<example>>

\* Is a phrase part of a text?  It is searched for in the letters: a word may also be
\* found inside another.
Mentions(words, phrase) ==
    \/ \E i \in 0..Len(words) - Len(phrase) : SubSeq(words, i + 1, i + Len(phrase)) = phrase
    \/ \E w \in Range(words) : Len(phrase) = 1 /\ <<phrase[1], w>> \in Within

\* The first of the words that are at certain places.
FirstAt(words, places) == IF places = {} THEN NoText ELSE <<words[Min(places)]>>

\* "for two", "party of two"; otherwise the example, wherever it occurs.
PartySize(words) ==
    FirstAt(words, {i \in 2..Len(words) :
        /\ IsNumber(words[i])
        /\ \/ words[i - 1] = "for"
           \/ i > 2 /\ words[i - 1] = "of" /\ words[i - 2] = "party"})
IntegerValue(words, phrase) ==
    LET candidate == IF PartySize(words) # NoText THEN PartySize(words)
                     ELSE IF Mentions(words, phrase) THEN phrase ELSE NoText
    IN  IF Len(candidate) = 1 /\ IsNumber(candidate[1]) THEN <<Number(candidate[1])>>
        ELSE NoText

Day(words) == FirstAt(words, {i \in DOMAIN words : words[i] \in DayWords})
\* "at seven", "around 7"; what follows the number (am, pm) is left out.
TimeAlone(words) == \* a plausible mistake: a time in words is not recognised
    FirstAt(words, {i \in 2..Len(words) : words[i - 1] \in {"at", "around"}
                                          /\ words[i] \in Numerals})
Time(words) ==
    FirstAt(words, {i \in 2..Len(words) : /\ words[i - 1] \in {"at", "around"}
                                          /\ IsNumber(words[i]) /\ words[i] # "zero"})

\* All the words after "in" up to the next clause.
City(words) ==
    LET ends(i) == {j \in i..Len(words) : j = Len(words) \/ words[j + 1] \in CityEnds}
        named == {i \in 2..Len(words) :
                     /\ words[i - 1] = "in"
                     /\ \A k \in i..Min(ends(i)) : words[k] \notin Numerals}
    IN  IF named = {} THEN NoText ELSE SubSeq(words, Min(named), Min(ends(Min(named))))

StringValue(name, words, phrase) ==
    IF Mentions(words, phrase) THEN phrase
    ELSE CASE name = "date" -> Day(words)
           [] name = "time" -> Time(words)
           [] name \in {"city", "location"} -> City(words)
           [] OTHER -> NoText

\* A slot with a default, or without an example, is left alone.  The examples of the
\* remaining types are taken to be written as values of them.
Recovered(slot, words) ==
    IF slot.default \/ slot.example = "none" THEN NoText
    ELSE LET phrase == Phrase(slot.example)
         IN  CASE slot.type = "integer" -> IntegerValue(words, phrase)
               [] slot.type = "string" -> StringValue(slot.name, words, phrase)
               [] OTHER -> IF Mentions(words, phrase) THEN phrase ELSE NoText
Suggested(book, words) ==
    [name \in {d.name : d \in {d \in Range(book.slots) : Recovered(d, words) # NoText}}
        |-> Recovered(Definition(book, name), words)]
=============================================================================

------------------------------ MODULE MCLearning ------------------------------
(* Small inputs of real words: requests, steps, documents from outside, and the *)
(* agent that comes with the repository (demo/handwritten_runbook.json).         *)
EXTENDS CompletedAgents, MCSamples

MCNumerals == {"12", "2", "4"}
MCWithin == {<<"2", "12">>}
MCWordsOf ==
    [Friday |-> <<"friday">>, Rome |-> <<"rome">>, Italian |-> <<"italian">>]
    @@ "7:00 PM" :> <<"7:00", "pm">> @@ "12:00 PM" :> <<"12:00", "pm">>
    @@ "los angeles" :> <<"los", "angeles">>

MCRequests == {TableInRome, DinnerInLosAngeles, Misspelled, DinnerAtTwelve, TalkativeDinner,
               Flight}
MCSteps ==
    { TypeParty("2", "ok"), TypeParty("4", "ok"), TypeParty("4", "error"),
      [TypeParty("4", "ok") EXCEPT !.action = "type"],
      TypeRome, TypeItalian, TypeFridayAtSeven,
      Step("fill", "where", Typed("Adriatico", Some("city", "adriatico", "Adriatico")), "ok"),
      Click(1), Click(3), Run({"party_size"}), Run({}) }
MCMaxSteps == [assistant |-> 3, parent |-> 2, artifact |-> 2]
MCOtherWins == {[below |-> FALSE, steps |-> <<Run({"time", "date"})>>, ending |-> "won"],
                [below |-> FALSE, steps |-> <<>>, ending |-> "no success"],
                [below |-> TRUE, ending |-> "won",
                 steps |-> <<TypeParty("4", "ok")>>]}
MCPrefilled == {NoValues, [party_size |-> "integer"], [date |-> "mapping"],
                [party_size |-> "integer", date |-> "text"]}

\* Two documents that load, of which the second refers to a slot that may stay
\* without a value, and one that does not.
Slot(name, type, required) ==
    [name |-> name, type |-> type, required |-> required, default |-> FALSE, prompt |-> TRUE,
     example |-> "none"]
Document(version, slots) ==
    [id |-> "restaurant-reservation", words |-> {"book", "table"}, version |-> version,
     examples |-> {}, slots |-> slots, rank |-> 0,
     steps |-> << [id |-> "book", action |-> "restaurant.book", irreversible |-> TRUE,
                   arguments |-> {"party_size"}, prompt |-> {"party_size"}] >>]
MCPayloads ==
    { Document("1", <<Slot("party_size", "integer", TRUE), Slot("date", "string", FALSE)>>),
      Document("1", <<Slot("party_size", "integer", FALSE), Slot("date", "string", FALSE)>>),
      Document("", <<Slot("party_size", "integer", TRUE)>>) }

Handwritten ==
    LET slots == {"party_size", "cuisine", "city", "date", "time"}
    IN  [id |-> "book-restaurant-table", version |-> "1", rank |-> 0,
         words |-> {"book", "a", "restaurant", "table", "reserve", "or", "for", "dinner"},
         examples |-> {"book", "me", "a", "table", "for", "two", "friday", "at", "seven",
                       "get", "us", "dinner", "reservation", "saturday", "night", "reserve",
                       "somewhere", "italian", "four", "people", "tomorrow", "eight"},
         slots |-> << Slot("party_size", "integer", TRUE), Slot("cuisine", "string", TRUE),
                      Slot("city", "string", TRUE), Slot("date", "string", TRUE),
                      Slot("time", "string", TRUE) >>,
         steps |-> << [id |-> "search", action |-> "restaurant.search", irreversible |-> FALSE,
                       arguments |-> slots, prompt |-> {}],
                      [id |-> "book", action |-> "restaurant.book", irreversible |-> TRUE,
                       arguments |-> slots, prompt |-> slots] >>]
MCCatalogues == {<<>>, <<Handwritten>>}

=============================================================================

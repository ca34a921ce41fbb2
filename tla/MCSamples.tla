------------------------------ MODULE MCSamples -------------------------------
(* Real words, requests and recorded steps, for the modules that learn skills. *)
EXTENDS Integers, TLC

MCDictionary == <<"12", "angeles", "at", "book", "californai", "california", "califronia",
                  "dinner", "eight", "flight", "for", "four", "friday", "get", "in", "italian",
                  "los", "night", "or", "people", "reservation", "reserve", "restaurant",
                  "resturant", "restuarant", "rome", "saturday", "schedule", "seven",
                  "somewhere", "table", "tomorrow", "two", "us">>
MCSpelling == [california |-> <<"c", "a", "l", "i", "f", "o", "r", "n", "i", "a">>,
               californai |-> <<"c", "a", "l", "i", "f", "o", "r", "n", "a", "i">>,
               califronia |-> <<"c", "a", "l", "i", "f", "r", "o", "n", "i", "a">>,
               restaurant |-> <<"r", "e", "s", "t", "a", "u", "r", "a", "n", "t">>,
               restuarant |-> <<"r", "e", "s", "t", "u", "a", "r", "a", "n", "t">>,
               resturant |-> <<"r", "e", "s", "t", "u", "r", "a", "n", "t">>]
MCAlias == [book |-> "schedule", schedule |-> "schedule", reserve |-> "schedule",
            reservation |-> "schedule", dinner |-> "restaurant", restaurant |-> "restaurant",
            table |-> "restaurant", flight |-> "flight"]
MCStopWords == {"for", "a", "to", "the", "me"}

\* What a request says of a slot, and what a typed value reads as.
Reading(key, part) == [key |-> key, part |-> part]
Some(name, key, part) == name :> Reading(key, part)
Plain == ""
TableInRome ==
    [words |-> <<"book", "a", "table", "for", "two", "in", "rome", "at", "seven">>,
     saying |-> <<Plain, Plain, Plain, "party_size", "party_size", "city", "city",
                  "time", "time">>,
     said |-> Some("party_size", "2", "two") @@ Some("city", "rome", "rome")
              @@ Some("time", "7", "seven")]
DinnerInLosAngeles ==
    [words |-> <<"dinner", "for", "two", "in", "los", "angeles", "friday", "at",
                 "seven", "somewhere", "italian">>,
     saying |-> <<Plain, "party_size", "party_size", "city", "city", "city", "date", "time",
                  "time", Plain, "cuisine">>,
     said |-> Some("party_size", "2", "two") @@ Some("cuisine", "italian", "italian")
              @@ Some("city", "los angeles", "los angeles")
              @@ Some("date", "friday", "friday") @@ Some("time", "7", "seven")]
Misspelled ==
    [words |-> <<"book", "resturant", "table", "friday">>,
     saying |-> <<Plain, Plain, Plain, "date">>,
     said |-> Some("date", "friday", "friday")]
DinnerAtTwelve ==
    [words |-> <<"book", "dinner", "friday", "at", "12">>,
     saying |-> <<Plain, Plain, "date", "time", "time">>,
     said |-> Some("date", "friday", "friday") @@ Some("time", "0", "12")]
\* Values for five slots and more outweigh what it is about.
TalkativeDinner ==
    [words |-> <<"book", "us", "a", "table", "for", "two", "people", "friday", "night", "at",
                 "seven", "somewhere", "italian", "in", "los", "angeles", "california">>,
     saying |-> <<Plain, Plain, Plain, Plain, "party_size", "party_size", "party_size", "date",
                  "date", "time", "time", Plain, "cuisine", "city", "city", "city", "city">>,
     said |-> DinnerInLosAngeles.said]
Flight ==
    [words |-> <<"book", "a", "flight", "to", "rome">>,
     saying |-> <<Plain, Plain, Plain, Plain, Plain>>, said |-> [name \in {} |-> "none"]]

\* A browser step that types a text or clicks, and a command in a shell.
Typed(text, reads) == [text |-> text, reads |-> reads]
Step(action, selector, value, outcome) ==
    [kind |-> "browser", action |-> action, selector |-> selector, value |-> value,
     outcome |-> outcome, command |-> FALSE, ran |-> {}, rank |-> 0]
\* NoValue of Distilling.
Nothing == Typed("no value", <<>>)
Click(rank) == [Step("click", "result", Nothing, "ok") EXCEPT !.rank = rank]
Run(ran) == [Step("run", "no selector", Nothing, "ok") EXCEPT
                !.kind = "shell", !.command = TRUE, !.ran = ran]
TypeParty(number, outcome) ==
    Step("fill", "party", Typed(number, Some("party_size", number, number)), outcome)
TypeRome == Step("fill", "where", Typed("Rome", Some("city", "rome", "Rome")), "ok")
TypeFridayAtSeven ==
    Step("fill", "when", Typed("Friday 7:00 PM", Some("date", "friday", "Friday")
                                                 @@ Some("time", "7", "7:00 PM")), "ok")
TypeItalian ==
    Step("fill", "where", Typed("Italian", Some("cuisine", "italian", "Italian")
                                           @@ Some("city", "italian", "Italian")), "ok")
=============================================================================

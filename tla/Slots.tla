-------------------------------- MODULE Slots ---------------------------------
(***************************************************************************)
(* What a runbook's slots admit: the schema gate, the parsing of a spoken  *)
(* reply, the questions left to ask and the final resolution;              *)
(* src/runbook_voice/runbooks.py, dialogue.py.  A value is its kind; a   *)
(* reply is what its text looks like.                                      *)
(***************************************************************************)
EXTENDS SequencesExt

SlotTypes == {"string", "integer", "number", "boolean", "object", "array"}
Kinds == {"text", "integer", "float", "boolean", "mapping", "list"}

\* "blank" is an empty transcript and "unheard" a failure to listen; "bit" is 0 or 1,
\* "endless" is inf or nan, "mapping" and "list" are JSON.
Replies == {"unheard", "blank", "word", "digits", "bit", "decimal", "endless", "yesno",
            "mapping", "list"}
Unparsed == "unparsed"

\* The kinds of value that SlotDefinition.validate lets through.
Admits(type) ==
    CASE type = "string" -> {"text"}
      [] type = "integer" -> {"integer"}
      [] type = "number" -> {"integer", "float"}
      [] type = "boolean" -> {"boolean"}
      [] type = "object" -> {"mapping"}
      [] type = "array" -> {"list"}

\* What a reply denotes when it is read as a value of a type.
Read(type, reply) ==
    CASE type = "string" -> "text"
      [] type \in {"integer", "number"} /\ reply \in {"digits", "bit"} -> "integer"
      [] type = "number" /\ reply = "decimal" -> "float"
      [] type = "boolean" /\ reply \in {"yesno", "bit"} -> "boolean"
      [] type \in {"object", "array"} /\ reply \in {"mapping", "list"} -> reply
      [] type \in {"object", "array"} /\ reply \in {"digits", "bit"} -> "integer"
      [] type \in {"object", "array"} /\ reply \in {"decimal", "endless"} -> "float"
      [] OTHER -> Unparsed

Parse(type, reply) ==
    IF reply \in {"unheard", "blank"} \/ Read(type, reply) \notin Admits(type)
    THEN Unparsed
    ELSE Read(type, reply)
-----------------------------------------------------------------------------
Definition(book, name) == CHOOSE d \in Range(book.slots) : d.name = name
SlotNames(book) == {d.name : d \in Range(book.slots)}

\* Runbook.from_dict: what a document must be to become a runbook at all.
Loads(book) ==
    /\ book.id # "" /\ book.version # ""
    /\ \A d \in Range(book.slots) : d.type \in SlotTypes
    /\ \A i, j \in DOMAIN book.slots : book.slots[i].name = book.slots[j].name => i = j
    /\ \A s \in Range(book.steps) : s.id # "" /\ s.action # ""
    /\ \A i, j \in DOMAIN book.steps : book.steps[i].id = book.steps[j].id => i = j

\* Runbook.to_dict: the fields the schema does not name are dropped.
WrittenBackOptional(book) == \* a plausible mistake: another field is dropped too
    [book EXCEPT !.examples = {},
                 !.slots = [n \in DOMAIN @ |-> [@[n] EXCEPT !.required = FALSE]]]
WithoutExample(d) ==
    [name |-> d.name, type |-> d.type, required |-> d.required, default |-> d.default,
     prompt |-> d.prompt, example |-> "none"]
WrittenBack(book) ==
    [id |-> book.id, words |-> book.words, version |-> book.version, examples |-> {},
     slots |-> [n \in DOMAIN book.slots |-> WithoutExample(book.slots[n])],
     rank |-> book.rank, steps |-> book.steps]

\* Values that come with the call, before any question.
Prefills(book, values) ==
    /\ DOMAIN values \subseteq SlotNames(book)
    /\ \A name \in DOMAIN values : values[name] \in Admits(Definition(book, name).type)

\* The questions to ask: the places of their slots in the order of declaration.
Asked(d) == d.required /\ ~d.default
MissingRequired(book, values) ==
    {i \in DOMAIN book.slots : Asked(book.slots[i]) /\ book.slots[i].name \notin DOMAIN values}

\* Runbook.resolve_slots: may it be done, and the names that get a value.
Resolves(book, values) ==
    /\ Prefills(book, values)
    /\ MissingRequired(book, values) = {}
Resolved(book, values) ==
    DOMAIN values \cup {d.name : d \in {d \in Range(book.slots) : d.default}}

\* substitute_slots on the arguments and the readback of a step.
Substitutes(step, names) == step.arguments \cup step.prompt \subseteq names
=============================================================================

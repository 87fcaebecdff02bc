--------------------------------- MODULE MCMs ---------------------------------
(***************************************************************************)
(* Ms with programs of three kinds: one whose operations have a request or *)
(* not, a response or not, or no result; the one of ussd/service.go, which *)
(* names its operations in upper case; and some that declare a name twice, *)
(* a function with too many arguments or results, or one whose first       *)
(* argument is no context.                                                 *)
(***************************************************************************)
EXTENDS Ms

CONSTANTS REQUEST, RESPONSE, RELEASE, start, count, abort

MCTypes == {REQUEST, RESPONSE, RELEASE}

Operation(name, in, out) == [name |-> name, fnc |-> [ctx |-> TRUE, in |-> in, out |-> out]]

MCPrograms == {
    <<Operation(start, 2, 2), Operation(count, 2, 0), Operation(abort, 1, 1)>>,
    <<Operation(REQUEST, 1, 1), Operation(RESPONSE, 1, 1), Operation(RELEASE, 1, 1)>>,
    <<Operation(start, 2, 1), Operation(start, 2, 1)>>,
    <<Operation(start, 3, 1)>>,
    <<Operation(start, 2, 3)>>,
    <<[name |-> start, fnc |-> [ctx |-> FALSE, in |-> 2, out |-> 1]]>>,
    <<[name |-> start, fnc |-> NoFnc]>>}

Word(stem, upper, extra) ==
    [kind |-> "word", word |-> [stem |-> stem, upper |-> upper, extra |-> extra]]

\* The types a message may state: each name, one in lower case, one with a letter
\* too many in each case, another word, and none.
MCTypeFields ==
    {Word(t, TRUE, FALSE) : t \in MCTypes} \cup
    {Word(RELEASE, FALSE, FALSE), Word(RELEASE, TRUE, TRUE), Word(RELEASE, FALSE, TRUE),
     Word(OtherStem, TRUE, FALSE),
     [kind |-> "absent"], [kind |-> "unquoted"], [kind |-> "empty"]}

Ask(provider, request, replyAddress) ==
    [result |-> FALSE, provider |-> provider, request |-> request,
     replyAddress |-> replyAddress]

Plain == [type |-> [kind |-> "absent"], complete |-> TRUE]

MCMessages ==
    {Ask(start, [type |-> f, complete |-> TRUE], TRUE) : f \in MCTypeFields} \cup
    {Ask(p, Plain, TRUE) : p \in {count, abort, REQUEST, NoName, NoProvider}} \cup
    {Ask(start, Plain, FALSE), Ask(start, NoRequest, TRUE), Ask(abort, NoRequest, TRUE),
     Ask(start, [Plain EXCEPT !.complete = FALSE], TRUE),
     [Ask(start, Plain, TRUE) EXCEPT !.result = TRUE],
     Garbled}

================================================================================

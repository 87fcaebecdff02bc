------------------------------- MODULE UssdItems -------------------------------
(***************************************************************************)
(* The items a USSD service is made of (ussd/item*.go) and what each does  *)
(* when it is executed or given the user's input.  Which items there are,  *)
(* and how they lead to each other, is a parameter; texts are left out, an *)
(* item standing for what it renders.                                      *)
(***************************************************************************)
EXTENDS Integers, Sequences, SessionData

CONSTANTS
    Items,        \* the items of the service
    InitItem,     \* the router every session starts with
    Kind,         \* the Go type of each item
    Codes,        \* USSD strings a user may dial
    Inputs,       \* what a user may type at a prompt
    ParseInt,     \* the number an input spells, 0 if none
    ByCode,       \* router: exact code -> next items
    ByPrefix,     \* router: set of [codes |-> those with the prefix, items |-> next items]
    ByRegex,      \* router: sequence of [codes |-> those that match, item |-> next item]
    Options,      \* menu: next items of each option, <<>> when not implemented
    ItemName,     \* Set and Prompt: the session value it sets
    ItemValue,    \* Set: the value
    FuncEffects,  \* Func: what it may set in the session, or Failed
    Failed        \* a returned error

\* A "none" item implements no processing interface: it has only an ID().
Kinds == {"router", "set", "func", "wait", "menu", "prompt", "final", "none"}

OfKind(k) == {x \in Items : Kind[x] = k}

\* The session values that ussd/user.go keeps for itself.
Reserved == {"current_item_id", "init_request", "next_item_ids", "responder_key"}

ASSUME FlowAssumption ==
    /\ Kind \in [Items -> Kinds]
    /\ InitItem \in OfKind("router")
    /\ Reserved \subseteq Names
    /\ Items \cup Codes \cup Inputs \subseteq Values
    /\ ParseInt \in [Inputs -> Int]
    /\ \A r \in OfKind("router") :
          /\ DOMAIN ByCode[r] \subseteq Codes
          /\ \A c \in DOMAIN ByCode[r] : ByCode[r][c] \in Seq(Items)
          /\ \A p \in ByPrefix[r] : p.items \in Seq(Items)
          /\ \A k \in DOMAIN ByRegex[r] : ByRegex[r][k].item \in Items
    /\ \A x \in OfKind("menu") :
          \A k \in 1 .. Len(Options[x]) : Options[x][k] \in Seq(Items)
    /\ \A x \in OfKind("set") \cup OfKind("prompt") : ItemName[x] \in Names \ Reserved
    /\ \A x \in OfKind("set") : ItemValue[x] \in Values \cup {Nil}
    /\ \A x \in OfKind("func") :
          \A e \in FuncEffects[x] \ {Failed} :
             e \in Data /\ \A n \in Reserved : e[n] = Nil

\* ItemUsrPrompt and ItemUsr, the interfaces proceed() and UserInput() test for.
ItemUsrPrompt == OfKind("menu") \cup OfKind("prompt")

\* itemByID: the items whose constructor registers them.
Registered == OfKind("router") \cup OfKind("final") \cup ItemUsrPrompt

\* The results Router.Exec() may return: an exact code first, then any of the
\* matching prefixes (Go ranges over a map in no fixed order), then the first
\* regular expression that matches.  None of them: "unknown USSD code".
RouterExec(r, code) ==
    LET prefixed == {p \in ByPrefix[r] : code \in p.codes}
        matching == {k \in DOMAIN ByRegex[r] : code \in ByRegex[r][k].codes}
    IN  IF code \in DOMAIN ByCode[r] THEN {ByCode[r][code]}
        ELSE IF prefixed # {} THEN {p.items : p \in prefixed}
        ELSE {<<ByRegex[r][k].item>> : k \in {k \in matching : \A l \in matching : k <= l}}

Chosen(m, input) == ParseInt[input] \in 1 .. Len(Options[m])

\* Process() returns an error, which is shown to the user: only a menu does,
\* for an option without items.  (A prompt refuses what its validators refuse,
\* but nothing in the package can give it one.)
Refuses(x, input) ==
    Kind[x] = "menu" /\ Chosen(x, input) /\ Options[x][ParseInt[input]] = <<>>

\* The items Process() returns otherwise.  A menu that does not understand the
\* input returns itself.
ProcessNext(x, input) ==
    CASE Kind[x] = "prompt" -> <<>>
      [] Kind[x] = "menu" /\ Chosen(x, input) -> Options[x][ParseInt[input]]
      [] OTHER -> <<x>>

\* What Process() does to the session.
ProcessSession(s, x, input) ==
    IF Kind[x] = "prompt" THEN Set(s, ItemName[x], input) ELSE s

================================================================================

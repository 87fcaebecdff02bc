-------------------------------- MODULE Console --------------------------------
(***************************************************************************)
(* The USSD simulator (console/console.go): goroutines that hand lines and *)
(* signals to the main loop over one unbuffered channel, the main loop     *)
(* that runs one dialogue after the other, and a goroutine per dialogue    *)
(* that prints the responses it gets over a channel of that dialogue, and, *)
(* when that is closed, wakes the main loop with an empty line.            *)
(*                                                                         *)
(* The engine is external, since the console calls it by names that it no  *)
(* longer has.  As in ussd/user.go, it is called and returns in the main   *)
(* loop, responds at most once per call, before it returns, and refuses    *)
(* input for which there is no session.                                    *)
(***************************************************************************)
EXTENDS Naturals

CONSTANTS
    Texts,          \* kinds of lines: see below
    Types,          \* types of responses the engine gives
    MaxDialogues    \* bound: dialogues that are started

\* A line is empty, "exit", a USSD code, or another text.  "final" stands for
\* a redirect too, and "other" for a type that the console does not know.
ASSUME ConsoleAssumption ==
    /\ Texts = {"", "exit", "code", "text"}
    /\ Types \subseteq {"prompt", "final", "other"}
    /\ MaxDialogues \in Nat \ {0}

VARIABLES
    main,        \* where the main loop is
    dialogue,    \* sessionNr, of the dialogues that were started
    resChan,     \* the channel of each dialogue
    printer,     \* where its goroutine is; a type when it has such a response
    res,         \* the response that main is sending
    lines,       \* what each source waits to hand to main
    asked,       \* what the screen has asked the user for, since the last line
    session      \* the engine has a session for the user

vars == <<main, dialogue, resChan, printer, res, lines, asked, session>>

Dialogues == 1 .. MaxDialogues
Sources == {"stdin", "signal"}
NoLine == [text |-> "none", asked |-> "none", last |-> FALSE]
Gone == [text |-> "none", asked |-> "none", last |-> TRUE]
Asked == {"nothing", "code", "input"}

TypeOK ==
    /\ main \in {"dial", "start", "continue", "respond", "close", "input", "empty",
                 "failed", "wait", "terminated", "panic"}
    /\ dialogue \in 0 .. MaxDialogues
    /\ resChan \in [Dialogues -> {"none", "open", "closed"}]
    /\ printer \in [Dialogues -> {"none", "recv", "wake", "woken", "done"} \cup Types]
    /\ res \in Types \cup {"none"}
    /\ lines \in [Sources -> [text : Texts, asked : Asked, last : BOOLEAN] \cup {NoLine, Gone}]
    /\ asked \in Asked
    /\ session \in BOOLEAN
    /\ \A d \in Dialogues :
          /\ d <= dialogue <=> resChan[d] # "none"
          /\ printer[d] \in {"wake", "woken", "done"} => resChan[d] = "closed"

Init ==
    /\ main = "dial"
    /\ dialogue = 0
    /\ resChan = [d \in Dialogues |-> "none"]
    /\ printer = [d \in Dialogues |-> "none"]
    /\ res = "none"
    /\ lines = [s \in Sources |-> NoLine]
    /\ asked = "code"
    /\ session = FALSE

Running == main \notin {"terminated", "panic"}

--------------------------------------------------------------------------------
(* The user: lines at any time, the end of the input, and control-C. *)

Enter(s, text, last) ==
    /\ Running /\ lines[s] = NoLine
    /\ lines' = [lines EXCEPT ![s] = [text |-> text, asked |-> asked, last |-> last]]
    /\ asked' = "nothing"
    /\ UNCHANGED <<main, dialogue, resChan, printer, res, session>>

Type == \E text \in Texts : Enter("stdin", text, FALSE)

EndOfInput == Enter("stdin", "exit", TRUE)

Interrupt == Enter("signal", "exit", TRUE)

--------------------------------------------------------------------------------
(* userInputChan: main receives from any goroutine that waits to send. *)

FromUser(text) ==
    \E s \in Sources :
       /\ lines[s].text = text
       /\ lines' = [lines EXCEPT ![s] = IF @.last THEN Gone ELSE NoLine]

FromPrinter(text) ==
    /\ text = ""
    /\ \E d \in Dialogues :
          /\ printer[d] = "wake"
          /\ printer' = [printer EXCEPT ![d] = "woken"]
    /\ UNCHANGED lines

Receive(text) == (FromUser(text) /\ UNCHANGED printer) \/ FromPrinter(text)

\* The main loop begins again and asks for a code.
DialAgain == main' = "dial" /\ asked' = "code"

\* An empty line, or one that is no code.
DialWrong ==
    /\ main = "dial"
    /\ Receive("") \/ Receive("text")
    /\ DialAgain
    /\ UNCHANGED <<dialogue, resChan, res, session>>

Terminate ==
    /\ main = "dial"
    /\ Receive("exit")
    /\ main' = "terminated"
    /\ UNCHANGED <<dialogue, resChan, res, asked, session>>

\* A code: a channel and a goroutine for the dialogue, then UserStart().
StartDialogue ==
    /\ main = "dial" /\ dialogue < MaxDialogues
    /\ FromUser("code")
    /\ LET d == dialogue + 1
       IN  /\ dialogue' = d
           /\ resChan' = [resChan EXCEPT ![d] = "open"]
           /\ printer' = [printer EXCEPT ![d] = "recv"]
    /\ main' = "start"
    /\ UNCHANGED <<res, asked, session>>

--------------------------------------------------------------------------------
(* The engine (external), called by main. *)

\* UserStart() returns an error: the loop begins again, and the goroutine of the
\* dialogue waits for ever.
StartFails ==
    /\ main = "start"
    /\ DialAgain
    /\ UNCHANGED <<dialogue, resChan, printer, res, lines, session>>

\* UserContinue() returns an error, and the session is over.
ContinueFails ==
    /\ main = "continue"
    /\ main' = "failed"
    /\ session' = FALSE
    /\ UNCHANGED <<dialogue, resChan, printer, res, lines, asked>>

InEngine == main = "start" \/ (main = "continue" /\ session)

\* It calls Respond().  The session is over after a final response.
EngineResponds ==
    /\ InEngine
    /\ \E type \in Types :
          /\ res' = type
          /\ session' = (type # "final")
    /\ main' = "respond"
    /\ UNCHANGED <<dialogue, resChan, printer, lines, asked>>

\* It returns without a response (an item that waits for a service).
EngineIsSilent ==
    /\ InEngine
    /\ session' = TRUE
    /\ main' = "input"
    /\ UNCHANGED <<dialogue, resChan, printer, res, lines, asked>>

--------------------------------------------------------------------------------
(* consoleResponder.Respond(): the response is handed over, and the channel *)
(* closed after a final one.  To send on a closed channel is a panic, to    *)
(* close it again as well.                                                  *)

Respond ==
    /\ main = "respond"
    /\ \/ /\ resChan[dialogue] = "open" /\ printer[dialogue] = "recv"
          /\ printer' = [printer EXCEPT ![dialogue] = res]
          /\ main' = IF res = "final" THEN "close" ELSE "input"
       \/ /\ resChan[dialogue] = "closed"
          /\ main' = "panic"
          /\ UNCHANGED printer
    /\ res' = "none"
    /\ UNCHANGED <<dialogue, resChan, lines, asked, session>>

Close(d, next) ==
    /\ main' = IF resChan[d] = "closed" THEN "panic" ELSE next
    /\ resChan' = [resChan EXCEPT ![d] = "closed"]

\* Mutant: a final response leaves the channel open.
RespondLeavesOpen ==
    /\ main = "close"
    /\ main' = "input"
    /\ UNCHANGED <<dialogue, resChan, printer, res, lines, asked, session>>

RespondCloses ==
    /\ main = "close"
    /\ Close(dialogue, "input")
    /\ UNCHANGED <<dialogue, printer, res, lines, asked, session>>

--------------------------------------------------------------------------------
(* The goroutine of a dialogue. *)

\* It prints a response; it closes the channel after one of unknown type.
ShowResponse(d) ==
    /\ Running /\ printer[d] \in Types
    /\ printer' = [printer EXCEPT ![d] = "recv"]
    /\ asked' = IF printer[d] = "prompt" THEN "input" ELSE asked
    /\ IF printer[d] = "other" THEN Close(d, main) ELSE UNCHANGED <<main, resChan>>
    /\ UNCHANGED <<dialogue, res, lines, session>>

\* Mutant: the goroutine leaves its loop after the final response.
OutOfResLoopAtFinal(d) ==
    /\ Running /\ printer[d] \in {"recv", "final"}
    /\ printer[d] = "final" \/ resChan[d] = "closed"
    /\ printer' = [printer EXCEPT ![d] = "wake"]
    /\ UNCHANGED <<main, dialogue, resChan, res, lines, asked, session>>

\* The channel is closed: it wakes the main loop (see FromPrinter).
OutOfResLoop(d) ==
    /\ Running /\ printer[d] = "recv" /\ resChan[d] = "closed"
    /\ printer' = [printer EXCEPT ![d] = "wake"]
    /\ UNCHANGED <<main, dialogue, resChan, res, lines, asked, session>>

\* ended = true, wg.Done().
SetEnded(d) ==
    /\ Running /\ printer[d] = "woken"
    /\ printer' = [printer EXCEPT ![d] = "done"]
    /\ UNCHANGED <<main, dialogue, resChan, res, lines, asked, session>>

--------------------------------------------------------------------------------
(* The input loop of a dialogue. *)

\* Any line but an empty one is given to UserContinue().
InputText ==
    /\ main = "input"
    /\ \E text \in Texts \ {""} : FromUser(text)
    /\ main' = "continue"
    /\ UNCHANGED <<dialogue, resChan, printer, res, asked, session>>

InputEmpty ==
    /\ main = "input"
    /\ Receive("")
    /\ main' = "empty"
    /\ UNCHANGED <<dialogue, resChan, res, asked, session>>

\* "if !ended", UserAbort(); in either case the input loop is left.
AbortUnlessEnded ==
    /\ main = "empty"
    /\ session' = (session /\ printer[dialogue] = "done")
    /\ main' = "wait"
    /\ UNCHANGED <<dialogue, resChan, printer, res, lines, asked>>

\* UserContinue() failed: the channel is closed, the input loop left.
CloseFailed ==
    /\ main = "failed"
    /\ Close(dialogue, "wait")
    /\ UNCHANGED <<dialogue, printer, res, lines, asked, session>>

\* Mutant: main does not wait for the goroutine.
BeginAtOnce ==
    /\ main = "wait"
    /\ DialAgain
    /\ UNCHANGED <<dialogue, resChan, printer, res, lines, session>>

\* wg.Wait()
Wait ==
    /\ main = "wait" /\ printer[dialogue] = "done"
    /\ DialAgain
    /\ UNCHANGED <<dialogue, resChan, printer, res, lines, session>>

--------------------------------------------------------------------------------
Main ==
    \/ DialWrong \/ Terminate \/ StartDialogue
    \/ StartFails \/ ContinueFails \/ EngineResponds \/ EngineIsSilent
    \/ Respond \/ RespondCloses
    \/ InputText \/ InputEmpty \/ AbortUnlessEnded \/ CloseFailed \/ Wait

Printer(d) == ShowResponse(d) \/ OutOfResLoop(d) \/ SetEnded(d)

User == Type \/ EndOfInput \/ Interrupt

Next == Main \/ (\E d \in Dialogues : Printer(d)) \/ User

Spec == Init /\ [][Next]_vars

\* Goroutines run, and the calls of the engine return.  Nobody has to type.
FairSpec == Spec /\ WF_vars(Main) /\ \A d \in Dialogues : WF_vars(Printer(d))

--------------------------------------------------------------------------------
\* Whatever the user types and whenever, only the dialogue that main is in prints
\* anything or wakes main: no response appears behind the next "USSD >", and no
\* wake-up ends the dialogue after.
OneDialogueSpeaks ==
    \A d \in Dialogues :
       printer[d] \in Types \cup {"wake", "woken"} => d = dialogue /\ main \notin {"dial", "start"}

\* The user leaves no prompt with an empty line and enters nothing the screen did
\* not ask for, and the engine accepts the input.
Calm ==
    /\ main # "failed"
    /\ \A s \in Sources :
          lines[s] \notin {NoLine, Gone} =>
             lines[s].asked = "code" \/ (lines[s].asked = "input" /\ lines[s].text # "")

\* The engine has ended the dialogue that main is in.
Over == ~session /\ main \in {"respond", "close", "input", "empty", "wait", "panic"}

\* With a calm user, a dialogue that is over leads back to "USSD >": the wake-up
\* arrives, main does not wait for ever, and no channel is closed twice.
CalmDialoguesReturn == []Calm => (Over ~> main = "dial")

================================================================================

------------------------------ MODULE ConsoleProofs ------------------------------
(***************************************************************************)
(* Proofs that the simulator is type correct and that only the dialogue    *)
(* which its main loop is in speaks, for any number of dialogues and       *)
(* whatever the user types.                                                *)
(***************************************************************************)
EXTENDS Console, TLAPS

Lines == [text : Texts, asked : Asked, last : BOOLEAN] \cup {NoLine, Gone}

\* The goroutine of a dialogue that main has left is done, or waits for ever for a
\* response, on a channel that nobody closes.
Left(d) == printer[d] = "done" \/ (printer[d] = "recv" /\ resChan[d] = "open")

DialogueOK(d) ==
    /\ resChan[d] \in {"none", "open", "closed"}
    /\ printer[d] \in {"none", "recv", "wake", "woken", "done"} \cup Types
    /\ d <= dialogue => printer[d] # "none" /\ resChan[d] # "none"
    /\ d > dialogue => printer[d] = "none" /\ resChan[d] = "none"
    /\ printer[d] \in {"wake", "woken", "done"} => resChan[d] = "closed"
    /\ d < dialogue => Left(d)
    /\ d = dialogue /\ main \in {"dial", "terminated"} => Left(d)
    /\ d = dialogue /\ main = "start" => printer[d] = "recv" /\ resChan[d] = "open"

MainOK ==
    /\ main \in {"dial", "start", "continue", "respond", "close", "input", "empty",
                 "failed", "wait", "terminated", "panic"}
    /\ dialogue \in 0 .. MaxDialogues
    /\ main \notin {"dial", "terminated"} => dialogue # 0
    /\ res \in Types \cup {"none"}
    /\ main = "respond" => res \in Types
    /\ lines \in [Sources -> Lines]
    /\ asked \in Asked
    /\ session \in BOOLEAN

ConsoleInv ==
    /\ MainOK
    /\ resChan = [d \in Dialogues |-> resChan[d]] /\ printer = [d \in Dialogues |-> printer[d]]
    /\ \A d \in Dialogues : DialogueOK(d)

--------------------------------------------------------------------------------
\* No type of response is a place of a goroutine.
LEMMA TypesApart == \A t \in Types : t \notin {"none", "recv", "wake", "woken", "done"}
BY ConsoleAssumption

LEMMA MaxDialoguesType == MaxDialogues \in Nat \ {0}
BY ConsoleAssumption, Zenon

LEMMA Numbers ==
    ASSUME MainOK
    PROVE  /\ MaxDialogues \in Nat /\ dialogue \in Nat /\ Dialogues \subseteq Nat
           /\ dialogue # 0 => dialogue \in Dialogues
BY MaxDialoguesType DEF MainOK, Dialogues

\* The lines stay lines when one is taken.
LEMMA FromUserLines ==
    ASSUME MainOK, NEW text, FromUser(text)
    PROVE  lines' \in [Sources -> Lines]
BY DEF MainOK, FromUser, Lines

\* A step that leaves the dialogues alone.
LEMMA MainStep ==
    ASSUME ConsoleInv, MainOK', UNCHANGED <<dialogue, resChan, printer>>,
           main' = "start" => main = "start",
           main' \in {"dial", "terminated"} =>
              \/ main \in {"dial", "terminated"}
              \/ dialogue \in Dialogues /\ Left(dialogue)
    PROVE  ConsoleInv'
<1>1. ASSUME NEW d \in Dialogues
      PROVE  DialogueOK(d)'
  BY DEF ConsoleInv, DialogueOK, Left
<1> QED
  BY <1>1 DEF ConsoleInv

\* A step that changes the dialogue that main is in.
LEMMA DialogueStep ==
    ASSUME ConsoleInv, MainOK', UNCHANGED dialogue, dialogue # 0,
           main' \notin {"dial", "terminated", "start"},
           NEW p \in {"recv", "wake", "woken", "done"} \cup Types,
           NEW r \in {"open", "closed"},
           p \in {"wake", "woken", "done"} => r = "closed",
           printer' = [printer EXCEPT ![dialogue] = p],
           resChan' = [resChan EXCEPT ![dialogue] = r]
    PROVE  ConsoleInv'
<1>1. PICK e \in Dialogues : e = dialogue /\ e \in Nat
  BY Numbers DEF ConsoleInv
<1>2. ASSUME NEW d \in Dialogues
      PROVE  DialogueOK(d)'
  <2>1. CASE d = e
    <3>1. printer'[d] = p /\ resChan'[d] = r
      BY <1>1, <2>1 DEF ConsoleInv
    <3> QED
      BY <1>1, <2>1, <3>1, TypesApart DEF DialogueOK
  <2>2. CASE d # e
    <3>1. printer'[d] = printer[d] /\ resChan'[d] = resChan[d]
      BY <1>1, <2>2 DEF ConsoleInv
    <3> QED
      BY <1>1, <2>2, <3>1 DEF DialogueOK, ConsoleInv, Left
  <2> QED
    BY <2>1, <2>2
<1> QED
  BY <1>2 DEF ConsoleInv

\* The channel and the goroutine of the dialogue that main is in.
LEMMA InDialogue ==
    ASSUME ConsoleInv, dialogue # 0
    PROVE  /\ dialogue \in Dialogues /\ DialogueOK(dialogue)
           /\ printer[dialogue] \in {"recv", "wake", "woken", "done"} \cup Types
           /\ resChan[dialogue] \in {"open", "closed"}
           /\ printer = [printer EXCEPT ![dialogue] = printer[dialogue]]
           /\ resChan = [resChan EXCEPT ![dialogue] = resChan[dialogue]]
<1>1. dialogue \in Dialogues /\ DialogueOK(dialogue) /\ dialogue \in Nat
  BY Numbers DEF ConsoleInv
<1>2. /\ printer[dialogue] \in {"recv", "wake", "woken", "done"} \cup Types
      /\ resChan[dialogue] \in {"open", "closed"}
  BY <1>1 DEF DialogueOK
<1> QED
  BY <1>1, <1>2 DEF ConsoleInv

\* A goroutine that speaks is that of the dialogue, and main is in it.
LEMMA SpeakerIs ==
    ASSUME ConsoleInv, NEW d \in Dialogues, printer[d] \in Types \cup {"wake", "woken"}
    PROVE  d = dialogue /\ dialogue # 0 /\ main \notin {"dial", "start", "terminated"}
<1>1. d \in Nat /\ dialogue \in Nat /\ d # 0
  BY Numbers DEF ConsoleInv, Dialogues
<1>2. ~Left(d) /\ printer[d] # "none" /\ printer[d] # "recv"
  BY TypesApart DEF Left
<1> QED
  BY <1>1, <1>2 DEF ConsoleInv, DialogueOK

--------------------------------------------------------------------------------
LEMMA ConsoleInit == Init => ConsoleInv
<1> SUFFICES ASSUME Init
             PROVE  ConsoleInv
  OBVIOUS
<1>1. MainOK
  <2>1. lines \in [Sources -> Lines]
    BY DEF Init, Lines
  <2>2. 0 \in 0 .. MaxDialogues
    BY MaxDialoguesType
  <2> QED
    BY <2>1, <2>2 DEF Init, MainOK, Asked
<1>2. ASSUME NEW d \in Dialogues
      PROVE  DialogueOK(d)
  <2>1. d \in Nat /\ d > 0 /\ ~(d <= 0) /\ d # 0
    BY MaxDialoguesType DEF Dialogues
  <2> QED
    BY <2>1 DEF Init, DialogueOK
<1> QED
  BY <1>1, <1>2 DEF Init, ConsoleInv

LEMMA UserStep ==
    ASSUME ConsoleInv, User
    PROVE  ConsoleInv'
<1>1. ASSUME NEW s \in Sources, NEW text \in Texts, NEW last \in BOOLEAN, Enter(s, text, last)
      PROVE  ConsoleInv'
  <2>1. MainOK'
    BY <1>1 DEF Enter, ConsoleInv, MainOK, Lines, Asked
  <2> QED
    BY <1>1, <2>1, MainStep DEF Enter
<1> QED
  BY <1>1, ConsoleAssumption DEF User, Type, EndOfInput, Interrupt, Sources

LEMMA EngineStep ==
    ASSUME ConsoleInv, ContinueFails \/ EngineIsSilent \/ EngineResponds
    PROVE  ConsoleInv'
<1>1. MainOK'
  BY DEF ContinueFails, EngineIsSilent, EngineResponds, InEngine, ConsoleInv, MainOK
<1> QED
  BY <1>1, MainStep DEF ContinueFails, EngineIsSilent, EngineResponds

LEMMA InputStep ==
    ASSUME ConsoleInv, InputText \/ InputEmpty \/ AbortUnlessEnded
    PROVE  ConsoleInv'
<1>1. CASE InputText
  <2>1. MainOK'
    BY <1>1, FromUserLines DEF InputText, ConsoleInv, MainOK
  <2> QED
    BY <1>1, <2>1, MainStep DEF InputText
<1>2. CASE InputEmpty /\ FromUser("") /\ UNCHANGED printer
  <2>1. MainOK'
    BY <1>2, FromUserLines DEF InputEmpty, ConsoleInv, MainOK
  <2> QED
    BY <1>2, <2>1, MainStep DEF InputEmpty
<1>3. CASE InputEmpty /\ FromPrinter("")
  <2>1. PICK d \in Dialogues :
           printer[d] = "wake" /\ printer' = [printer EXCEPT ![d] = "woken"]
    BY <1>3 DEF FromPrinter
  <2>2. /\ main = "input" /\ main' = "empty" /\ UNCHANGED lines
        /\ UNCHANGED <<dialogue, resChan, res, asked, session>>
    BY <1>3 DEF InputEmpty, FromPrinter
  <2>3. d = dialogue /\ dialogue # 0
    BY <2>1, SpeakerIs
  <2>4. resChan[dialogue] = "closed"
    BY <2>1, <2>3 DEF ConsoleInv, DialogueOK
  <2>5. MainOK'
    BY <2>2 DEF ConsoleInv, MainOK
  <2> QED
    BY <2>1, <2>2, <2>3, <2>4, <2>5, InDialogue, DialogueStep
<1>4. CASE AbortUnlessEnded
  <2>1. MainOK'
    BY <1>4 DEF AbortUnlessEnded, ConsoleInv, MainOK
  <2> QED
    BY <1>4, <2>1, MainStep DEF AbortUnlessEnded
<1> QED
  BY <1>1, <1>2, <1>3, <1>4 DEF InputEmpty, Receive

\* At "USSD >", nothing wakes main.
LEMMA DialStep ==
    ASSUME ConsoleInv, DialWrong \/ Terminate \/ StartDialogue
    PROVE  ConsoleInv'
<1>1. ASSUME NEW text, main = "dial", FromPrinter(text)
      PROVE  FALSE
  BY <1>1, SpeakerIs DEF FromPrinter
<1>2. CASE DialWrong
  <2>1. /\ main = "dial" /\ main' = "dial" /\ asked' = "code"
        /\ UNCHANGED <<dialogue, resChan, printer, res, session>>
        /\ FromUser("") \/ FromUser("text")
    BY <1>1, <1>2 DEF DialWrong, DialAgain, Receive
  <2>2. MainOK'
    BY <2>1, FromUserLines DEF ConsoleInv, MainOK, Asked
  <2> QED
    BY <2>1, <2>2, MainStep
<1>3. CASE Terminate
  <2>1. /\ main = "dial" /\ main' = "terminated"
        /\ UNCHANGED <<dialogue, resChan, printer, res, asked, session>>
        /\ FromUser("exit")
    BY <1>1, <1>3 DEF Terminate, Receive
  <2>2. MainOK'
    BY <2>1, FromUserLines DEF ConsoleInv, MainOK
  <2> QED
    BY <2>1, <2>2, MainStep
<1>4. CASE StartDialogue
  <2>1. PICK e : e = dialogue + 1
    OBVIOUS
  <2>2. /\ main = "dial" /\ main' = "start" /\ dialogue < MaxDialogues
        /\ FromUser("code") /\ dialogue' = e
        /\ resChan' = [resChan EXCEPT ![e] = "open"]
        /\ printer' = [printer EXCEPT ![e] = "recv"]
        /\ UNCHANGED <<res, asked, session>>
    BY <1>4, <2>1 DEF StartDialogue
  <2>3. /\ e \in Dialogues /\ e \in Nat /\ e # 0 /\ e <= MaxDialogues
        /\ dialogue \in Nat /\ Dialogues \subseteq Nat
    BY <2>1, <2>2, Numbers DEF ConsoleInv, Dialogues
  <2>4. MainOK'
    <3>1. dialogue' \in 0 .. MaxDialogues /\ dialogue' # 0
      BY <2>2, <2>3
    <3>2. lines' \in [Sources -> Lines]
      BY <2>2, FromUserLines DEF ConsoleInv
    <3> QED
      BY <2>2, <3>1, <3>2 DEF ConsoleInv, MainOK
  <2>5. ASSUME NEW d \in Dialogues
        PROVE  DialogueOK(d)'
    <3>1. CASE d = e
      <4>1. printer'[d] = "recv" /\ resChan'[d] = "open"
        BY <2>2, <3>1 DEF ConsoleInv
      <4> QED
        BY <2>2, <2>3, <3>1, <4>1 DEF DialogueOK
    <3>2. CASE d # e
      <4>1. printer'[d] = printer[d] /\ resChan'[d] = resChan[d]
        BY <2>2, <3>2 DEF ConsoleInv
      <4>2. /\ d <= e => d <= dialogue
            /\ d < e => d < dialogue \/ d = dialogue
            /\ d > e => d > dialogue
        BY <2>1, <2>3, <3>2
      <4>3. DialogueOK(d) /\ (d < dialogue \/ d = dialogue => Left(d))
        BY <2>2 DEF ConsoleInv, DialogueOK
      <4>4. Left(d)' <=> Left(d)
        BY <4>1 DEF Left
      <4> QED
        BY <2>2, <3>2, <4>1, <4>2, <4>3, <4>4 DEF DialogueOK
    <3> QED
      BY <3>1, <3>2
  <2> QED
    BY <2>2, <2>4, <2>5 DEF ConsoleInv
<1> QED
  BY <1>2, <1>3, <1>4

LEMMA LeaveStep ==
    ASSUME ConsoleInv, StartFails \/ Wait
    PROVE  ConsoleInv'
<1>1. /\ main \in {"start", "wait"} /\ main' = "dial" /\ asked' = "code"
      /\ UNCHANGED <<dialogue, resChan, printer, res, lines, session>>
      /\ main = "start" \/ printer[dialogue] = "done"
  BY DEF StartFails, Wait, DialAgain
<1>2. MainOK'
  BY <1>1 DEF ConsoleInv, MainOK, Asked
<1>3. dialogue \in Dialogues /\ DialogueOK(dialogue)
  BY <1>1, InDialogue DEF ConsoleInv, MainOK
<1>4. Left(dialogue)
  BY <1>1, <1>3 DEF Left, DialogueOK
<1> QED
  BY <1>1, <1>2, <1>3, <1>4, MainStep

LEMMA RespondStep ==
    ASSUME ConsoleInv, Respond \/ RespondCloses \/ CloseFailed
    PROVE  ConsoleInv'
<1>1. dialogue # 0 /\ main \in {"respond", "close", "failed"}
  BY DEF Respond, RespondCloses, CloseFailed, ConsoleInv, MainOK
<1>2. /\ printer[dialogue] \in {"recv", "wake", "woken", "done"} \cup Types
      /\ resChan[dialogue] \in {"open", "closed"}
      /\ printer = [printer EXCEPT ![dialogue] = printer[dialogue]]
      /\ DialogueOK(dialogue)
  BY <1>1, InDialogue
<1>3. CASE Respond /\ resChan[dialogue] = "open" /\ printer[dialogue] = "recv"
           /\ printer' = [printer EXCEPT ![dialogue] = res]
           /\ main' = IF res = "final" THEN "close" ELSE "input"
  <2>1. res \in Types
    BY <1>3 DEF Respond, ConsoleInv, MainOK
  <2>2. main' \in {"close", "input"} /\ res' = "none"
        /\ UNCHANGED <<dialogue, resChan, lines, asked, session>>
    BY <1>3 DEF Respond
  <2>3. MainOK'
    BY <1>1, <2>2 DEF ConsoleInv, MainOK
  <2>4. resChan' = [resChan EXCEPT ![dialogue] = "open"]
    BY <1>1, <1>3, <2>2, InDialogue
  <2> QED
    BY <1>1, <1>3, <2>1, <2>2, <2>3, <2>4, TypesApart, DialogueStep
<1>4. CASE Respond /\ main' = "panic" /\ UNCHANGED printer
  <2>1. MainOK'
    BY <1>1, <1>4 DEF Respond, ConsoleInv, MainOK
  <2> QED
    BY <1>4, <2>1, MainStep DEF Respond
<1>5. CASE RespondCloses \/ CloseFailed
  <2>1. /\ main' \in {"panic", "input", "wait"}
        /\ resChan' = [resChan EXCEPT ![dialogue] = "closed"]
        /\ UNCHANGED <<dialogue, printer, res, lines, asked, session>>
    BY <1>5 DEF RespondCloses, CloseFailed, Close
  <2>2. MainOK'
    BY <1>1, <2>1 DEF ConsoleInv, MainOK
  <2> QED
    BY <1>1, <1>2, <2>1, <2>2, DialogueStep
<1> QED
  BY <1>3, <1>4, <1>5 DEF Respond

LEMMA PrinterStep ==
    ASSUME ConsoleInv, NEW d \in Dialogues, Printer(d)
    PROVE  ConsoleInv'
<1>1. d = dialogue /\ dialogue # 0 /\ main \notin {"dial", "start", "terminated", "panic"}
  <2>1. Running /\ (printer[d] \in Types \cup {"woken"}
                      \/ (printer[d] = "recv" /\ resChan[d] = "closed"))
    BY DEF Printer, ShowResponse, OutOfResLoop, SetEnded
  <2>2. CASE printer[d] \in Types \cup {"woken"}
    BY <2>1, <2>2, SpeakerIs DEF Running
  <2>3. CASE printer[d] = "recv" /\ resChan[d] = "closed"
    <3>1. ~Left(d) /\ d \in Nat /\ d # 0 /\ dialogue \in Nat
      BY <2>3, Numbers DEF Left, ConsoleInv, Dialogues
    <3> QED
      BY <2>1, <2>3, <3>1 DEF ConsoleInv, DialogueOK, Running
  <2> QED
    BY <2>1, <2>2, <2>3
<1>2. /\ resChan[dialogue] \in {"open", "closed"}
      /\ resChan = [resChan EXCEPT ![dialogue] = resChan[dialogue]]
      /\ DialogueOK(dialogue)
  BY <1>1, InDialogue
<1>3. CASE ShowResponse(d)
  <2>1. /\ printer' = [printer EXCEPT ![dialogue] = "recv"]
        /\ asked' \in {"input", asked}
        /\ UNCHANGED <<dialogue, res, lines, session>>
    BY <1>1, <1>3 DEF ShowResponse
  <2>2. \/ main' \in {main, "panic"} /\ resChan' = [resChan EXCEPT ![dialogue] = "closed"]
        \/ UNCHANGED <<main, resChan>>
    BY <1>1, <1>3 DEF ShowResponse, Close
  <2>3. MainOK'
    BY <1>1, <2>1, <2>2 DEF ConsoleInv, MainOK, Asked
  <2>4. main' \notin {"dial", "terminated", "start"}
    BY <1>1, <2>2
  <2>5. CASE resChan' = [resChan EXCEPT ![dialogue] = "closed"]
    BY <1>1, <2>1, <2>3, <2>4, <2>5, DialogueStep
  <2>6. CASE UNCHANGED resChan
    BY <1>1, <1>2, <2>1, <2>3, <2>4, <2>6, DialogueStep
  <2> QED
    BY <2>2, <2>5, <2>6
<1>4. CASE OutOfResLoop(d) \/ SetEnded(d)
  <2>1. /\ \E p \in {"wake", "done"} : printer' = [printer EXCEPT ![dialogue] = p]
        /\ resChan[dialogue] = "closed"
        /\ UNCHANGED <<main, dialogue, resChan, res, lines, asked, session>>
    BY <1>1, <1>2, <1>4 DEF OutOfResLoop, SetEnded, DialogueOK
  <2>2. MainOK'
    BY <2>1 DEF ConsoleInv, MainOK
  <2> QED
    BY <1>1, <1>2, <2>1, <2>2, DialogueStep
<1> QED
  BY <1>3, <1>4 DEF Printer

LEMMA ConsoleInvariant == Spec => []ConsoleInv
<1>1. Init => ConsoleInv
  BY ConsoleInit
<1>2. ConsoleInv /\ [Next]_vars => ConsoleInv'
  <2> SUFFICES ASSUME ConsoleInv, [Next]_vars
               PROVE  ConsoleInv'
    OBVIOUS
  <2>1. CASE Main
    BY <2>1, DialStep, LeaveStep, EngineStep, RespondStep, InputStep DEF Main
  <2>2. ASSUME NEW d \in Dialogues, Printer(d)
        PROVE  ConsoleInv'
    BY <2>2, PrinterStep
  <2>3. CASE User
    BY <2>3, UserStep
  <2>4. CASE UNCHANGED vars
    <3>1. MainOK'
      BY <2>4 DEF vars, ConsoleInv, MainOK
    <3> QED
      BY <2>4, <3>1, MainStep DEF vars
  <2> QED
    BY <2>1, <2>2, <2>3, <2>4 DEF Next
<1> QED
  BY <1>1, <1>2, PTL DEF Spec

\* Type correctness: a channel belongs to a dialogue that was started, and its
\* goroutine leaves its loop only when it is closed.
THEOREM SpecTypeOK == Spec => []TypeOK
<1>1. ASSUME ConsoleInv
      PROVE  TypeOK
  <2>1. dialogue \in Nat /\ Dialogues \subseteq Nat
    BY <1>1, Numbers DEF ConsoleInv
  <2>2. \A d \in Dialogues : d <= dialogue \/ d > dialogue
    BY <2>1
  <2> QED
    BY <1>1, <2>2 DEF ConsoleInv, MainOK, DialogueOK, TypeOK, Lines
<1> QED
  BY <1>1, ConsoleInvariant, PTL

\* Only the dialogue that main is in prints a response or wakes main, however fast
\* the user types and whatever calls of the engine fail.
THEOREM SpecOneDialogueSpeaks == Spec => []OneDialogueSpeaks
<1>1. ConsoleInv => OneDialogueSpeaks
  BY SpeakerIs DEF OneDialogueSpeaks
<1> QED
  BY <1>1, ConsoleInvariant, PTL

================================================================================

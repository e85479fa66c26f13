-------------------------- MODULE Rtc6Communicator --------------------------
(***************************************************************************)
(* Rtc6Communicator: connectAndSetupBoard as a sequence of DLL calls, each *)
(* of which may fail, with the early return that follows; the diagnostics  *)
(* of initializeAndShowBoardInfo; the destructor.  Cards may appear and    *)
(* disappear between two calls.  The DLL is not part of the repository:    *)
(* its calls are modelled from the results the code distinguishes.         *)
(*                                                                         *)
(* Assumed of select_rtc: a non-zero answer is the number of a card that   *)
(* is present, and the card the DLL talks to from then on (Rtc6Communica-  *)
(* tor.h: "the card number returned by select_rtc").  It need not be the   *)
(* card asked for: the code stores the answer and compares it with 0 only. *)
(***************************************************************************)
EXTENDS Naturals

CONSTANTS
  BoardIds,    \* ids the constructor may be given, 0 and too large ones included
  MaxCards,    \* bound on the number of cards in the machine
  MaxCalls     \* bound on the calls of connectAndSetupBoard

ASSUME CommunicatorAssumption ==
  BoardIds \subseteq Nat /\ MaxCards \in Nat \ {0} /\ MaxCalls \in Nat \ {0}

VARIABLES
  m_boardId, m_selectedCardNo, m_isDllInitialized, m_isBoardSelected,
  m_isFirmwareLoaded, m_successfullySetup,   \* the members
  step,         \* the call connectAndSetupBoard makes next
  diagnose,     \* it was called by initializeAndShowBoardInfo
  calls,        \* how often it was called
  requested,    \* the board id the constructor was given
  cardCount,    \* the local variable: what countCards returned
  fellShort,    \* history: some call counted cards, but fewer than requested
  dllOpen, cards, current, programmed,
                \* the DLL is open; cards present; the DLL's current card;
                \* cards that have a program loaded
  asked         \* history: the id select_rtc was last called with, 0 before

members == << m_boardId, m_selectedCardNo, m_isDllInitialized, m_isBoardSelected,
              m_isFirmwareLoaded, m_successfullySetup >>

machine == << dllOpen, cards, current, programmed, asked >>

callVars == << diagnose, calls, requested, cardCount, fellShort >>

vars == << members, step, callVars, machine >>

Cards == 1 .. MaxCards

Steps == {"idle", "initializeDll", "countCards", "selectBoard", "loadFirmware",
          "diagnostics", "destroyed"}

\* Every member has its type; the board id is the one the constructor was given, or
\* that of the fallback, board 1 (connectAndSetupBoard).
TypeOK ==
  /\ m_boardId \in {requested, 1} /\ m_selectedCardNo \in Cards \cup {0}
  /\ m_isDllInitialized \in BOOLEAN /\ m_isBoardSelected \in BOOLEAN
  /\ m_isFirmwareLoaded \in BOOLEAN /\ m_successfullySetup \in BOOLEAN
  /\ diagnose \in BOOLEAN /\ dllOpen \in BOOLEAN
  /\ step \in Steps
  /\ calls \in 0 .. MaxCalls
  /\ requested \in BoardIds /\ fellShort \in BOOLEAN
  /\ cards \in 0 .. MaxCards /\ cardCount \in 0 .. MaxCards
  /\ current \in Cards \cup {0}
  /\ programmed \subseteq Cards
  /\ asked \in BoardIds \cup {0, 1}

Init ==
  /\ requested \in BoardIds /\ m_boardId = requested
  /\ m_selectedCardNo = 0
  /\ m_isDllInitialized = FALSE /\ m_isBoardSelected = FALSE
  /\ m_isFirmwareLoaded = FALSE /\ m_successfullySetup = FALSE
  /\ step = "idle" /\ diagnose = FALSE /\ calls = 0 /\ cardCount = 0
  /\ fellShort = FALSE
  /\ dllOpen = FALSE /\ cards \in 0 .. MaxCards /\ current = 0 /\ programmed = {}
  /\ asked = 0
-----------------------------------------------------------------------------
(* The calls of the DLL.                                                   *)

init_rtc6_dll(ok) ==
  /\ dllOpen' = (dllOpen \/ ok)
  /\ UNCHANGED << cards, current, programmed, asked >>

\* The answer is 0 when the call fails, and otherwise the card selected.
select_rtc(id, answer) ==
  /\ answer \in 0 .. cards
  /\ current' = IF answer = 0 THEN current ELSE answer
  /\ asked' = id
  /\ UNCHANGED << dllOpen, cards, programmed >>

\* Loads onto the current card; a failed load leaves no usable program.
load_program_file(ok) ==
  /\ ok => current \in 1 .. cards
  /\ programmed' = IF ok THEN programmed \cup {current} ELSE programmed \ {current}
  /\ UNCHANGED << dllOpen, cards, current, asked >>

free_rtc6_dll ==
  /\ dllOpen' = FALSE
  /\ current' = 0
  /\ UNCHANGED << cards, programmed, asked >>
-----------------------------------------------------------------------------
Return == step' = "idle"

connectAndSetupBoard ==
  /\ step = "idle" /\ calls < MaxCalls
  /\ m_successfullySetup' = FALSE
  /\ calls' = calls + 1
  /\ diagnose' \in BOOLEAN
  /\ step' = "initializeDll"
  /\ UNCHANGED << m_boardId, m_selectedCardNo, m_isDllInitialized,
                  m_isBoardSelected, m_isFirmwareLoaded, requested, cardCount, fellShort,
                  machine >>

\* Mutant: the flag the destructor looks at is not set.
ForgetsInitialized ==
  /\ step = "initializeDll"
  /\ \E ok \in BOOLEAN :
       /\ init_rtc6_dll(ok)
       /\ IF ok THEN step' = "countCards" ELSE Return
  /\ UNCHANGED << members, callVars >>

initializeDll ==
  /\ step = "initializeDll"
  /\ \E ok \in BOOLEAN :
       /\ init_rtc6_dll(ok)
       /\ m_isDllInitialized' = (m_isDllInitialized \/ ok)
       /\ IF ok THEN step' = "countCards" ELSE Return
  /\ UNCHANGED << m_boardId, m_selectedCardNo, m_isBoardSelected,
                  m_isFirmwareLoaded, m_successfullySetup, callVars >>

\* The number of cards, and the history of it.
Counted ==
  /\ cardCount' = cards
  /\ fellShort' = (fellShort \/ (cards > 0 /\ cards < requested))

\* Mutant: a request for the last board falls back to board 1 as well.
DefaultsTooEarly ==
  /\ step = "countCards"
  /\ Counted
  /\ m_boardId' = IF m_boardId >= cardCount' /\ cardCount' > 0 THEN 1 ELSE m_boardId
  /\ IF cardCount' = 0 THEN Return ELSE step' = "selectBoard"
  /\ UNCHANGED << m_selectedCardNo, m_isDllInitialized, m_isBoardSelected,
                  m_isFirmwareLoaded, m_successfullySetup, diagnose, calls,
                  requested, machine >>

\* Mutant: the fallback is the first card counted from 0.
DefaultsToZero ==
  /\ step = "countCards"
  /\ Counted
  /\ m_boardId' = IF m_boardId > cardCount' /\ cardCount' > 0 THEN 0 ELSE m_boardId
  /\ IF cardCount' = 0 THEN Return ELSE step' = "selectBoard"
  /\ UNCHANGED << m_selectedCardNo, m_isDllInitialized, m_isBoardSelected,
                  m_isFirmwareLoaded, m_successfullySetup, diagnose, calls,
                  requested, machine >>

\* countCards, and the fallback to board 1 when there are fewer cards than the
\* requested id.  The fallback is kept for later calls.
countCards ==
  /\ step = "countCards"
  /\ Counted
  /\ m_boardId' = IF m_boardId > cardCount' /\ cardCount' > 0 THEN 1 ELSE m_boardId
  /\ IF cardCount' = 0 THEN Return ELSE step' = "selectBoard"
  /\ UNCHANGED << m_selectedCardNo, m_isDllInitialized, m_isBoardSelected,
                  m_isFirmwareLoaded, m_successfullySetup, diagnose, calls,
                  requested, machine >>

\* Whatever card select_rtc answers is the selected one: nothing compares it with
\* m_boardId.
selectBoard ==
  /\ step = "selectBoard"
  /\ \E answer \in 0 .. cards :
       /\ select_rtc(m_boardId, answer)
       /\ m_selectedCardNo' = answer
       /\ m_isBoardSelected' = (answer # 0)
       /\ IF answer # 0 THEN step' = "loadFirmware" ELSE Return
  /\ UNCHANGED << m_boardId, m_isDllInitialized, m_isFirmwareLoaded,
                  m_successfullySetup, callVars >>

\* Mutant: the error code of load_program_file is ignored.
IgnoresLoadError ==
  /\ step = "loadFirmware"
  /\ \E ok \in BOOLEAN : load_program_file(ok)
  /\ m_isFirmwareLoaded' = TRUE
  /\ m_successfullySetup' = TRUE
  /\ step' = IF diagnose THEN "diagnostics" ELSE "idle"
  /\ UNCHANGED << m_boardId, m_selectedCardNo, m_isDllInitialized,
                  m_isBoardSelected, callVars >>

\* loadFirmware and, when it succeeds, the end of connectAndSetupBoard.
loadFirmware ==
  /\ step = "loadFirmware"
  /\ \E ok \in BOOLEAN :
       /\ load_program_file(ok)
       /\ m_isFirmwareLoaded' = (m_isFirmwareLoaded \/ ok)
       /\ m_successfullySetup' = ok
       /\ IF ok /\ diagnose THEN step' = "diagnostics" ELSE Return
  /\ UNCHANGED << m_boardId, m_selectedCardNo, m_isDllInitialized,
                  m_isBoardSelected, callVars >>

\* printBoardVersions, printBoardSerialNumber, checkGlobalErrorStatus: reads.
showBoardInfo ==
  /\ step = "diagnostics"
  /\ Return
  /\ UNCHANGED << members, callVars, machine >>

destructor ==
  /\ step = "idle"
  /\ IF m_isDllInitialized THEN free_rtc6_dll ELSE UNCHANGED machine
  /\ step' = "destroyed"
  /\ UNCHANGED << members, callVars >>

\* Cards are added, removed or switched off; a removed card loses its program.
CardsChange ==
  /\ step # "destroyed"
  /\ cards' \in 0 .. MaxCards
  /\ programmed' = programmed \cap 1 .. cards'
  /\ UNCHANGED << members, step, callVars, dllOpen, current, asked >>

Gone == step = "destroyed" /\ UNCHANGED vars

Next == \/ connectAndSetupBoard \/ initializeDll \/ countCards \/ selectBoard
        \/ loadFirmware \/ showBoardInfo \/ destructor \/ CardsChange \/ Gone

Spec == Init /\ [][Next]_vars
-----------------------------------------------------------------------------
\* The setup is declared successful only in a state where the DLL is open, the
\* selected card is there, is the one the DLL talks to and has its program, even
\* if cards come and go between the calls and an earlier call failed half-way
\* (connectAndSetupBoard and its early returns).
SetupMeansReady ==
  [][~m_successfullySetup /\ m_successfullySetup' =>
       /\ dllOpen' /\ m_isDllInitialized'
       /\ m_isBoardSelected' /\ m_isFirmwareLoaded'
       /\ m_selectedCardNo' = current'
       /\ current' \in programmed' /\ current' <= cards']_vars

\* Whichever call of several succeeds, it has asked the DLL for the requested board,
\* unless one of the calls, also a failed one, has counted fewer cards than the
\* requested id: from then on every setup asks for board 1, even if all cards are
\* back (connectAndSetupBoard overwrites m_boardId).  Which card the DLL answers
\* with is not compared with it.
SetupAsksForRequestedBoard ==
  m_successfullySetup => asked = IF fellShort THEN 1 ELSE requested

\* A destroyed communicator has released the DLL if it was ever opened, whatever
\* failed afterwards and however often the setup was tried (the destructor).
DllReleased == step = "destroyed" => ~dllOpen

(* The strengthening that makes the properties above inductive.            *)

\* What each step of connectAndSetupBoard may rely on, whatever earlier calls left
\* in the members: the DLL is open from countCards on, and loadFirmware has the
\* card select_rtc answered with as the DLL's current one.
SetupInv ==
  /\ TypeOK
  /\ m_boardId = IF fellShort THEN 1 ELSE requested
  /\ step # "destroyed" => dllOpen = m_isDllInitialized
  /\ step \in {"countCards", "selectBoard", "loadFirmware"} => dllOpen
  /\ step = "loadFirmware" =>
       m_isBoardSelected /\ m_selectedCardNo = current /\ asked = m_boardId
  /\ m_successfullySetup =>
       asked = m_boardId /\ step \in {"idle", "diagnostics", "destroyed"}
  /\ DllReleased
=============================================================================

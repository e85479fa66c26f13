----------------------- MODULE Rtc6CommunicatorProofs -----------------------
(***************************************************************************)
(* Proofs about Rtc6Communicator, for any board ids, cards and calls.      *)
(***************************************************************************)
EXTENDS Rtc6Communicator, TLAPS

USE CommunicatorAssumption DEF Cards, Steps

\* A new communicator, with no call made yet, satisfies the invariant.
LEMMA SetupInit == Init => SetupInv
<1> SUFFICES ASSUME Init PROVE SetupInv
  OBVIOUS
<1>1. TypeOK
  <2>1. /\ m_isDllInitialized \in BOOLEAN /\ m_isBoardSelected \in BOOLEAN
        /\ m_isFirmwareLoaded \in BOOLEAN /\ m_successfullySetup \in BOOLEAN
        /\ diagnose \in BOOLEAN /\ dllOpen \in BOOLEAN /\ fellShort \in BOOLEAN
    BY Zenon DEF Init
  <2>2. QED
    BY <2>1 DEF Init, TypeOK
<1>2. ~fellShort /\ m_boardId = requested /\ ~m_successfullySetup /\ step = "idle"
  BY DEF Init
<1>3. dllOpen = m_isDllInitialized
  BY DEF Init
<1>4. QED
  BY <1>1, <1>2, <1>3 DEF SetupInv, DllReleased

\* Every call of the DLL, whether it succeeds or fails, and every change of the
\* cards in between, keeps the invariant.
LEMMA SetupStep == SetupInv /\ [Next]_vars => SetupInv'
<1> SUFFICES ASSUME SetupInv, [Next]_vars PROVE SetupInv'
  OBVIOUS
<1> USE DEF SetupInv, TypeOK, DllReleased, members, callVars, machine
<1>1. CASE connectAndSetupBoard
  <2>1. ~m_successfullySetup' /\ step' = "initializeDll" /\ calls' \in 0 .. MaxCalls
    BY <1>1 DEF connectAndSetupBoard
  <2>2. TypeOK'
    BY <1>1, <2>1 DEF connectAndSetupBoard
  <2>3. QED
    BY <1>1, <2>1, <2>2 DEF connectAndSetupBoard
<1>2. CASE initializeDll
  BY <1>2 DEF initializeDll, init_rtc6_dll, Return
<1>3. CASE countCards
  <2>1. m_boardId' \in {requested', 1} /\ cardCount' \in 0 .. MaxCards /\ fellShort' \in BOOLEAN
    BY <1>3 DEF countCards, Counted
  <2>2. step' \in {"idle", "selectBoard"} /\ ~m_successfullySetup'
    BY <1>3 DEF countCards, Return
  <2>3. TypeOK'
    BY <1>3, <2>1, <2>2 DEF countCards
  <2>4. m_boardId' = IF fellShort' THEN 1 ELSE requested'
    <3>1. fellShort' <=> (fellShort \/ (cards > 0 /\ cards < requested))
      BY <1>3 DEF countCards, Counted
    <3>2. m_boardId' = IF m_boardId > cards /\ cards > 0 THEN 1 ELSE m_boardId
      BY <1>3 DEF countCards, Counted
    <3>3. CASE fellShort
      BY <3>1, <3>2, <3>3
    <3>4. CASE ~fellShort
      BY <1>3, <3>1, <3>2, <3>4 DEF countCards
    <3>5. QED
      BY <3>3, <3>4
  <2>5. QED
    BY <1>3, <2>2, <2>3, <2>4 DEF countCards
<1>4. CASE selectBoard
  <2>1. PICK answer \in 0 .. cards :
          /\ select_rtc(m_boardId, answer)
          /\ m_selectedCardNo' = answer
          /\ m_isBoardSelected' = (answer # 0)
          /\ step' = IF answer # 0 THEN "loadFirmware" ELSE "idle"
    BY <1>4 DEF selectBoard, Return
  <2>2. ~m_successfullySetup' /\ dllOpen' /\ m_isDllInitialized' = dllOpen'
    BY <1>4, <2>1 DEF selectBoard, select_rtc
  <2>3. answer # 0 => m_selectedCardNo' = current' /\ asked' = m_boardId'
    BY <1>4, <2>1 DEF selectBoard, select_rtc
  <2>4. TypeOK'
    BY <1>4, <2>1 DEF selectBoard, select_rtc
  <2>5. QED
    BY <1>4, <2>1, <2>2, <2>3, <2>4 DEF selectBoard
<1>5. CASE loadFirmware
  BY <1>5 DEF loadFirmware, load_program_file, Return
<1>6. CASE showBoardInfo
  BY <1>6 DEF showBoardInfo, Return
<1>7. CASE destructor
  BY <1>7 DEF destructor, free_rtc6_dll
<1>8. CASE CardsChange
  BY <1>8 DEF CardsChange
<1>9. CASE UNCHANGED vars
  BY <1>9 DEF vars
<1>10. QED
  BY <1>1, <1>2, <1>3, <1>4, <1>5, <1>6, <1>7, <1>8, <1>9 DEF Next, Gone

\* The inductive invariant holds through any number of calls of
\* connectAndSetupBoard, with DLL calls failing at will and select_rtc answering with
\* any card that is present.
THEOREM SetupInvariance == Spec => []SetupInv
<1>1. QED
  BY SetupInit, SetupStep, PTL DEF Spec

\* The members keep their types, and the board id is the requested one or that of
\* the fallback.
THEOREM CommunicatorTypes == Spec => []TypeOK
<1>1. SetupInv => TypeOK
  BY DEF SetupInv
<1>2. QED
  BY <1>1, SetupInvariance, PTL

\* A successful setup has asked for the requested board, or for board 1 once a call
\* has counted fewer cards than requested, whatever card the DLL answered with.
THEOREM RequestedBoard == Spec => []SetupAsksForRequestedBoard
<1>1. SetupInv => SetupAsksForRequestedBoard
  BY DEF SetupInv, SetupAsksForRequestedBoard
<1>2. QED
  BY <1>1, SetupInvariance, PTL

\* The destructor releases the DLL however far the setups got.
THEOREM DllAlwaysReleased == Spec => []DllReleased
<1>1. SetupInv => DllReleased
  BY DEF SetupInv
<1>2. QED
  BY <1>1, SetupInvariance, PTL

\* Success is declared only with the DLL open and the selected card present,
\* current and programmed.
THEOREM SuccessMeansReady == Spec => SetupMeansReady
<1> DEFINE Ready == /\ dllOpen' /\ m_isDllInitialized'
                    /\ m_isBoardSelected' /\ m_isFirmwareLoaded'
                    /\ m_selectedCardNo' = current'
                    /\ current' \in programmed' /\ current' <= cards'
           Declares == ~m_successfullySetup /\ m_successfullySetup'
<1>1. SetupInv /\ [Next]_vars => [Declares => Ready]_vars
  <2> SUFFICES ASSUME SetupInv, [Next]_vars, Declares PROVE Ready
    OBVIOUS
  <2>1. loadFirmware
    BY DEF Next, vars, members, callVars, machine, connectAndSetupBoard,
           initializeDll, countCards, selectBoard, showBoardInfo, destructor,
           CardsChange, Gone
  <2>2. QED
    BY <2>1 DEF loadFirmware, load_program_file, SetupInv, TypeOK, callVars, Return
<1>2. QED
  BY <1>1, SetupInvariance, PTL DEF Spec, SetupMeansReady
=============================================================================

\* Up to three cards and three attempts to set up the board; the constructor is given
\* 0, a card number, or an id above every number of cards.
SPECIFICATION Spec
CONSTANTS
  BoardIds = {0, 1, 2, 3, 4}
  MaxCards = 3
  MaxCalls = 3
INVARIANTS
  TypeOK
  SetupAsksForRequestedBoard
  DllReleased
PROPERTY SetupMeansReady

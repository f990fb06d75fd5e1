\* A ring of four slots, so that three texts may wait; rst is cut to three characters.
CONSTANTS
  MAX_QUEUE_MESSAGES = 4
  MAX_MESSAGE_LENGTH = 4
  Messages <- MCMessages
  Text <- MCText
  NoMessage = NoMessage
  cq = cq
  rst = rst
SPECIFICATION FairSpec
INVARIANTS TextIntact ReceiverInShift
PROPERTIES ImplementsFifo  OffGoesQuiet

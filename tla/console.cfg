SPECIFICATION Spec
CONSTANTS
  Writer = {w1, w2}
  Typed = {"x", "return", "C-d", "C-u", "C-h", "C-p"}
  INPUT_BUF = 3
  UART_TX_BUF_SIZE = 2
  FIFO = 3
  UINT = 6
  START = 4
  MAXREAD = 2
  Traffic <- Budgets
  NULL = NULL
INVARIANTS OutputInOrder NoLostWakeup
PROPERTIES InputAsTyped WritersWoken
CHECK_DEADLOCK FALSE

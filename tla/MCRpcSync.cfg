CONSTANTS
  Tasks = {t1, t2, t3}
  NoTask = NoTask
  MAX_TASKS_NUM = 2
  TidMod = 3
  MaxCalls = 3
  MaxLate = 1
SYMMETRY Symmetry
SPECIFICATION Spec
INVARIANTS TypeOK AnswerIsMine OnlyLateSlotsHarm TableHasRoom
CHECK_DEADLOCK FALSE

CONSTANTS
  w1 = w1
  w2 = w2
  w3 = w3
  Writers = {w1, w2, w3}
  Correctors = {w2, w3}
  NoWriter = NoWriter
  MaxWrites = 4
  q1 = q1
  q2 = q2
  k1 = k1
  t1 = t1
  t2 = t2
  x1 = x1
  x2 = x2
  TaskCallers = {q1, q2}
  TaskKeyOf <- MCTaskKeyOf
  TaskTitles = {t1, t2}
  OpenTasks <- MCOpenTasks
  TaskKinds = {"create", "complete", "complete_set", "list"}
  Deaths = 1
  Utterances <- MCUtterances
  Setups <- MCSetups
SPECIFICATION WaitingSpec
INVARIANTS TablesTypeOK ChainVerifies HeadIsTip CorrectionHasProvenance OneTaskPerKey
  CallsAreBounded WritesAreAccounted
PROPERTIES KeepsLog WritesEnd SetsCompleteTogether TaskRequestsEnd
CHECK_DEADLOCK FALSE

CONSTANTS
  Clients = {c1, c2}
  Nobody = Nobody
  Directories = {d1, d2, r1}
  Remote = {r1}
  CLIENTS = 3
  MAX_CLIENTS = 2
  BUDGET = 4
  STREAM_BUDGET = 4
SPECIFICATION FairSpec
INVARIANTS EveryMemberListed ListedThreadsRun
PROPERTIES AnswersMatch AnswerComes AnswerFromAsked ConnectionAccepted
CHECK_DEADLOCK FALSE

SPECIFICATION FairSpec
CONSTANTS
  Threads = {t1, t2}
  NoThread = NoThread
  Kinds = {"page", "get", "search", "book", "cancel"}
CHECK_DEADLOCK FALSE
INVARIANTS RequestsAtomic AnswersTell
PROPERTIES PagesServed EngineServes

SPECIFICATION Spec
CONSTANTS
  Programs = {"a", "b"}
  CommandLines <- MCCommandLines
  NotGiven = NotGiven
INVARIANTS PartnersHear StrangersUnheard ExitsBeforeThread

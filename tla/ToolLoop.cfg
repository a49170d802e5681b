SPECIFICATION LoopSpec
CONSTANTS
  Tag <- MCTag
  Bodies <- MCBodies
  BadBody = "bad"
  Think = "think"
  Word = "word"
  Tools = {"web_search", "edit_file"}
  ProxyTools = {"web_search"}
  MaxRounds = 2
  MaxReply = 4
INVARIANTS TurnsComplete AnswerComplete GateFaithful DriversAgree

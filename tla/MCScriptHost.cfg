SPECIFICATION FairSpec
CONSTANTS
  Joining = {Alex}
  Playing = {Steve}
  Boot = Main
  Loaders = {Admin}
  PluginFiles <- MCPluginFiles
  MainFile = "main.rhai"
  Scripts <- MCScripts
  NoScript = NoScript
INVARIANTS
  TypeOK
  SeesOneVersion
  AnswerFollowsRules
PROPERTIES
  OrderKept
  EveryAskAnswered
  EveryLoadEnds

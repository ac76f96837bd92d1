SPECIFICATION Spec
CONSTANTS
  p = p
  a = a
  q = q
  Callers = {p, a}
  PolicyCallers = {p}
  Channels = {"ask"}
  ChannelOf <- MCChannelOf
  Questions <- MCQuestions
  Commands <- MCCommands
  Shells <- MCShells
  Policies <- MCPolicies
  NoPolicy = NoPolicy
  Reporters = {r1, r2}
  Missing = Missing
INVARIANTS
  FreshReply
  AloneIsServed
  ReportsKept
PROPERTY AskReturns

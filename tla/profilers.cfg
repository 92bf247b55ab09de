SPECIFICATION FairSpec
CONSTANTS
  http = http
  agent = agent
  Stacks = {http, agent}
  HttpStacks = {http}
  AgentStacks = {agent}
  MaxTicks <- TwiceWhereItMatters
  MaxSamples = 1
  MaxDelay <- AgentBlocksOnce
INVARIANTS TypeOK OnWhileRecording DelayCountedOnce NeverInfinite
PROPERTIES JobsFinish

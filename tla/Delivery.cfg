SPECIFICATION SlicedSpec
CONSTANTS
  Admins = {h1, h2}
  Uploads = {u1, u2}
  Bodies = {b1, b2}
  Hermes = {b2}
  NoBody = NoBody
  Days = {0}
  StartBody = b1
  StartDay = 0
  Links = {"ws", "post"}
  MaxOps = 2
  MaxFaults = 1
  MayFail = TRUE
  MayEdit = TRUE
INVARIANT AgentHonest
PROPERTY ResultNotLost
PROPERTY NoStepBack
PROPERTY EventuallyDelivered

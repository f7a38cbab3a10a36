\* The admin server restarts under a running node.
SPECIFICATION FairSpec
CONSTANTS
    Node = {self, p}
    Self = self
    HandlerErrors = {}
    MaxEpoch = 2
    MaxEvents = 1
PROPERTY RegistersAgain

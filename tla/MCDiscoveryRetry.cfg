\* A peer whose models could not be fetched.
SPECIFICATION FairSpec
CONSTANTS
    Node = {self, p}
    Self = self
    HandlerErrors = {"add"}
    MaxEpoch = 1
    MaxEvents = 2
PROPERTY TriesAgain

\* Two operations for one destination name, others at work there, and failing calls.
SPECIFICATION Spec
CONSTANTS
    Operations <- MCOperations
    Somebody = Somebody
    None = None
    Boot = Boot  Alien = Alien
    MaxVersion = 2
    MaxForeign = 1
    MaxLosses = 2
    MaxPauses = 1
CHECK_DEADLOCK FALSE
INVARIANTS TypeOK CreatedIsOnDisk TakesUpOnlyItsOwn PublishesWhatWasReviewed OneOwnerOfTheName CompleteIsTrue
PROPERTIES NothingIsOverwritten StartedCompletes

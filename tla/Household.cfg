\* Two people and two drinks: the sheet edited and not at first in step with the
\* terminal, the link failing, overviews opened while others are still under way.
SPECIFICATION FairSpec
CONSTANTS
    anna = anna
    ben = ben
    carl = carl
    Person = {anna, ben}
    Former <- Left
    Beer <- Beers
    BeerOf <- Tapped
    Defaults <- CompiledIn
    InitialRows <- One
    OldRows <- OldDrinks
    MaxResidents = 2
    MaxBreakdown = 1
    MaxEdits = 1
    MaxTaps = 2
    MaxQueued = 1
    Env = {"link_fails"}
INVARIANTS
    TypeOK
    ResidentsFollowRevision
    OverviewIsTheirs
    OverviewIsDrawn
PROPERTIES
    LoadingEnds
    CatchesUp

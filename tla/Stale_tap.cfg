\* A sync replaces the list of people while "Wer trinkt?" shows the old one.
SPECIFICATION Spec
CONSTANTS
    anna = anna
    ben = ben
    carl = carl
    Person = {anna, ben}
    Former <- Left
    Beer <- Beers
    BeerOf <- Tapped
    Defaults <- CompiledIn
    InitialRows <- Both
    OldRows <- NoDrinks
    MaxResidents = 2
    MaxBreakdown = 1
    MaxEdits = 1
    MaxTaps = 1
    MaxQueued = 1
    Env = {}
PROPERTIES
    ChargedIsShown

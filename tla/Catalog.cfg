\* Two beers, room for one: edits at the fridge and elsewhere, lost answers, one
\* request executed late, handlers that die and power cuts.
SPECIFICATION Spec
CONSTANTS
    hell = hell
    dunkel = dunkel
    Beer = {hell, dunkel}
    Coded = {hell}
    Price = {1}
    MaxActive = 1
    MaxProducts = 2
    MaxQueued = 2
    InitialSheet <- CompiledIn
    Seed <- CompiledIn
    MaxLate = 1
    MaxEvents = 5
    Env = {"elsewhere", "link_fails", "power_cut", "throws"}
INVARIANTS
    TypeOK
    OneRowPerBeer
    RevisionTells
    WishStaysShown
    ShelfFits

\* Two objects, one of them a monster with the delay of two seconds between
\* its searches.  No symmetry: there is a liveness property.
CONSTANTS
    Objs = {o1, o2}
    Monsters = {o1}
    NoDelay = {}
    Null = Null
SPECIFICATION Spec
INVARIANT ListsAreLive
PROPERTY ImplementsFrames
PROPERTY NothingWaitsForever

\* Two objects that come, go and are replaced; heap entries without an object
\* make the budget end a pass.  No symmetry: there is a liveness property.
CONSTANTS
    Objs = {o1, o2}
    Null = Null
    Intervals = {1, 2}
    MaxRequests = 2
    MaxEntries = 4
SPECIFICATION Spec
INVARIANTS OneEntryEach PointersAreLive
PROPERTIES ImplementsRoll EveryoneIsCalled

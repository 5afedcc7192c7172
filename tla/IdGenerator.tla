---------------------------- MODULE IdGenerator -----------------------------
(***************************************************************************)
(* CID_Generator, the generator of the 16-bit ids that xrServer gives to    *)
(* its entities.  The ids are cut into blocks; a block keeps the offsets    *)
(* of its free ids in an array used as a stack, how many there are, and     *)
(* the time of the last release into it.  A request without an id pops the  *)
(* stack of the block whose last release is the oldest, so that an id just  *)
(* released is not handed out again while clients may still hold packets    *)
(* that name the dead entity.                                               *)
(*   source: xrGame/id_generator.h; callers: xrServer.h, xrServer.cpp,      *)
(*   game_sv_single.cpp (clear_ids), alife_simulator_script.cpp (FreeID     *)
(*   with time 0)                                                           *)
(*                                                                          *)
(* The server's instance is MinValue = 0, MaxValue = 16#fffe, BlockSize =   *)
(* 256: 256 blocks, the last one with 255 ids.                              *)
(***************************************************************************)
EXTENDS Integers, FiniteSets

CONSTANTS MinValue, MaxValue,   \* the first and the last id
          BlockSize,            \* ids in a block (the last may have fewer)
          MaxTime,              \* bound on the clock (a u32 of milliseconds)
          UnstampedFree         \* callers also release with time 0 (A-Life)

ASSUME IdRange == /\ MinValue \in Nat
                  /\ MaxValue \in Nat
                  /\ MinValue <= MaxValue
ASSUME BlockSizeAssumption == BlockSize \in Nat \ {0}
ASSUME MaxTimeAssumption == MaxTime \in Nat
ASSUME UnstampedFreeAssumption == UnstampedFree \in BOOLEAN

Ids        == MinValue .. MaxValue
BlockCount == ((MaxValue - MinValue) \div BlockSize) + 1
Blocks     == 0 .. BlockCount - 1
Offsets    == 0 .. BlockSize - 1
Times      == 0 .. MaxTime

BlockOf(v)  == (v - MinValue) \div BlockSize
OffsetOf(v) == (v - MinValue) % BlockSize
IdAt(b, o)  == MinValue + b * BlockSize + o

(* The ids of block b, and how many of them there are. *)
Capacity(b) == IF b < BlockCount - 1
               THEN BlockSize
               ELSE MaxValue - IdAt(b, 0) + 1

VARIABLES count,      \* count[b]: free ids of block b (m_tCount)
          stack,      \* stack[b][0 .. count[b]-1]: their offsets (m_tpIDs)
          timeID,     \* timeID[b]: time of the last release (m_tTimeID)
          available,  \* blocks with a free id (m_available_count)
          used,       \* the ids the callers hold
          now,        \* Device.TimerAsync()
          fault,      \* the release-build assertion that ended the process
          freedAt     \* history: when each id was last released

generator == <<count, stack, timeID, available>>
vars == <<generator, used, now, fault, freedAt>>

(* The entries of id v in the stack of its block, and the free ids. *)
EntriesOf(v) == {i \in Offsets : /\ i < count[BlockOf(v)]
                                 /\ stack[BlockOf(v)][i] = OffsetOf(v)}
FreeIds == {v \in Ids : EntriesOf(v) # {}}

-----------------------------------------------------------------------------
(* The constructor releases every id in order and then reverses each stack, *)
(* so that the lowest ids of a block are popped first.                      *)
Constructed(b, i) == IF i < Capacity(b) THEN Capacity(b) - 1 - i ELSE 0

FreshCount == [b \in Blocks |-> Capacity(b)]
FreshStack == [b \in Blocks |-> [i \in Offsets |-> Constructed(b, i)]]

Construct == /\ count = FreshCount
             /\ stack = FreshStack
             /\ timeID = [b \in Blocks |-> 0]
             /\ available = BlockCount
             /\ used = {}
             /\ freedAt = [v \in Ids |-> 0]

Init == Construct /\ now = 0 /\ fault = "none"

(* SID_Block::operator<, and the block std::min_element returns: the first  *)
(* one that no other block is less than.                                    *)
LessSwapped(b, c) == count[b] > 0 /\ (timeID[b] > timeID[c] \/ count[c] = 0)

Less(b, c) == count[b] > 0 /\ (timeID[b] < timeID[c] \/ count[c] = 0)

IsMinElement(b) == /\ \A c \in Blocks : ~ Less(c, b)
                   /\ \A c \in Blocks : c < b => \E d \in Blocks : Less(d, c)

(* Entry i of the stack of block b is taken out: the last entry fills its   *)
(* place, and the array keeps what it holds beyond the new count.           *)
(* Slips: the hole is not filled; the block counter is always decremented,  *)
(* or only when the block was already empty.                                *)
TakeEntryLeavingHole(b, i) ==
    /\ count' = [count EXCEPT ![b] = @ - 1]
    /\ available' = IF count[b] = 1 THEN available - 1 ELSE available
    /\ used' = used \cup {IdAt(b, stack[b][i])}
    /\ UNCHANGED <<stack, timeID, now, fault, freedAt>>

TakeEntryAlwaysLess(b, i) ==
    /\ count' = [count EXCEPT ![b] = @ - 1]
    /\ stack' = [stack EXCEPT ![b][i] = stack[b][count[b] - 1]]
    /\ available' = available - 1
    /\ used' = used \cup {IdAt(b, stack[b][i])}
    /\ UNCHANGED <<timeID, now, fault, freedAt>>

TakeEntryLateCount(b, i) ==
    /\ count' = [count EXCEPT ![b] = @ - 1]
    /\ stack' = [stack EXCEPT ![b][i] = stack[b][count[b] - 1]]
    /\ available' = IF count[b] = 0 THEN available - 1 ELSE available
    /\ used' = used \cup {IdAt(b, stack[b][i])}
    /\ UNCHANGED <<timeID, now, fault, freedAt>>

TakeEntry(b, i) ==
    /\ count' = [count EXCEPT ![b] = @ - 1]
    /\ stack' = [stack EXCEPT ![b][i] = stack[b][count[b] - 1]]
    /\ available' = IF count[b] = 1 THEN available - 1 ELSE available
    /\ used' = used \cup {IdAt(b, stack[b][i])}
    /\ UNCHANGED <<timeID, now, fault, freedAt>>

(* R_ASSERT2 ends the process: nothing runs after it. *)
Abort(reason) == /\ fault' = reason
                 /\ UNCHANGED <<generator, used, now, freedAt>>

(* tfGetID without an id. *)
GetAny == /\ fault = "none"
          /\ available > 0
          /\ \E b \in Blocks : IsMinElement(b) /\ TakeEntry(b, count[b] - 1)

GetAnyFailsEarly == /\ fault = "none"
                    /\ available <= 1      \* slip: off by one
                    /\ Abort("exhausted")

GetAnyFails == /\ fault = "none"
               /\ available = 0
               /\ Abort("exhausted")

(* tfGetID of one given id: spawning an entity that already has its id, and *)
(* A-Life switching an object offline or loading it from a saved game.      *)
(* std::find returns the first matching entry. *)
GetGiven(v) == /\ fault = "none"
               /\ \E i \in EntriesOf(v) :
                     /\ \A j \in EntriesOf(v) : i <= j
                     /\ TakeEntry(BlockOf(v), i)

GetGivenFails(v) == /\ fault = "none"
                    /\ EntriesOf(v) = {}
                    /\ Abort("conflict")

(* vfFreeID(v, t).  Callers release an id they hold: entity_Destroy with    *)
(* the current time, the A-Life scripts with time 0.                        *)
Free(v, t) ==
    LET b == BlockOf(v) IN
    /\ fault = "none"
    /\ v \in used
    /\ available' = IF count[b] = 0 THEN available + 1 ELSE available
    /\ stack' = [stack EXCEPT ![b][count[b]] = OffsetOf(v)]
    /\ count' = [count EXCEPT ![b] = @ + 1]
    /\ timeID' = [timeID EXCEPT ![b] = t]
    /\ used' = used \ {v}
    /\ freedAt' = [freedAt EXCEPT ![v] = now]
    /\ UNCHANGED <<now, fault>>

FreeTimes == {now} \cup (IF UnstampedFree THEN {0} ELSE {})

(* clear_ids: restarting the simulator has deleted every holder of an id.   *)
ClearIds == /\ fault = "none"
            /\ count' = FreshCount
            /\ stack' = FreshStack
            /\ timeID' = [b \in Blocks |-> 0]
            /\ available' = BlockCount
            /\ used' = {}
            /\ freedAt' = [v \in Ids |-> 0]
            /\ UNCHANGED <<now, fault>>

(* The clock advances; MaxTime keeps the state space finite. *)
Tick == /\ fault = "none"
        /\ now < MaxTime
        /\ now' = now + 1
        /\ UNCHANGED <<generator, used, fault, freedAt>>

Next == \/ GetAny
        \/ GetAnyFails
        \/ \E v \in Ids : \/ GetGiven(v)
                          \/ GetGivenFails(v)
                          \/ \E t \in FreeTimes : Free(v, t)
        \/ ClearIds
        \/ Tick

Spec == Init /\ [][Next]_vars

-----------------------------------------------------------------------------
(* The counters and the stacks stay inside their ranges; in particular      *)
(* vfFreeID never writes past the array of a block (its VERIFY, line 103)   *)
(* and tfGetFromBlock never drives m_available_count below 0 (line 61).     *)
TypeOK == /\ count \in [Blocks -> 0 .. BlockSize]
          /\ \A b \in Blocks : count[b] <= Capacity(b)
          /\ stack \in [Blocks -> [Offsets -> Offsets]]
          /\ timeID \in [Blocks -> Times]
          /\ available \in 0 .. BlockCount
          /\ used \subseteq Ids
          /\ now \in Times
          /\ fault \in {"none", "exhausted", "conflict"}
          /\ freedAt \in [Ids -> Times]

(* The free entries of a stack are different offsets of the block. *)
EntriesDistinct ==
    \A b \in Blocks : \A i \in Offsets :
        i < count[b] => /\ stack[b][i] < Capacity(b)
                        /\ \A j \in Offsets :
                              j < count[b] /\ j # i => stack[b][j] # stack[b][i]

(* No id is ever both held and free, and none is lost: the stacks and the   *)
(* holders account for every id exactly once, whatever the order in which   *)
(* ids are popped, picked out of the middle of a stack and released.        *)
EachIdOnce == /\ EntriesDistinct
              /\ used = Ids \ FreeIds

(* m_available_count, kept incrementally by both operations, is the number  *)
(* of blocks with a free id: "Not enough IDs" is never raised while one is  *)
(* left, and std::min_element never returns an empty block.                 *)
NonEmpty == {b \in Blocks : count[b] > 0}
AvailableExact == available = Cardinality(NonEmpty)

(* What the blocks are for: an id handed out by tfGetID() was released no   *)
(* later than the latest release into any block that still has a free id.   *)
(* It holds of a server whose callers all pass the current time; the        *)
(* A-Life scripts' FreeID(id, 0) makes a block with fresh releases look old.*)
Quarantine ==
    [][GetAny => \A v \in used' \ used : \A w \in FreeIds : \E x \in Ids :
          BlockOf(x) = BlockOf(w) /\ freedAt[v] <= freedAt[x]]_vars

(* The generator implements the pool its callers assume: ids are handed out *)
(* to one holder at a time and every failure has a cause.                   *)
Pool == INSTANCE IdPool WITH Ids <- Ids, used <- used, fault <- fault
ImplementsPool == Pool!Spec
=============================================================================

----------------------------- MODULE Collections -----------------------------
(***************************************************************************)
(* The containers of src/collections, which share no state: a behaviour    *)
(* follows one of them, chosen at the start.  HashSet.h is not modelled.   *)
(***************************************************************************)
EXTENDS LinkedList, FiniteSets

CONSTANTS
  Capacity, Values, Default, Addresses, Members, Nodes, Walkers

\* malloc returns no null pointer that is used, and memory is finite.
ASSUME NodesAssumption == NULL \notin Nodes /\ IsFiniteSet(Nodes)

VARIABLES
  pointers, positions, order,                       \* Lists
  memory, phase, killed, items,                     \* PositionBucket
  base, attached, bucket, stack, held, inside,      \* BucketList
  index, available, heap, standing, used, tour,     \* ConcurrentSet
  links, value                                      \* either of the last two

rawVars == <<pointers, positions, order>>
fixedVars == <<memory, phase, killed, items>>
bucketOnlyVars == <<base, attached, bucket, stack, held, inside>>
setOnlyVars == <<index, available, heap, standing, used, tour>>
collectionVars == <<rawVars, fixedVars, bucketOnlyVars, setOnlyVars, links, value>>

Raw == INSTANCE Lists
Fixed == INSTANCE PositionBucket WITH call <- killed
Bucket == INSTANCE BucketList WITH list <- links
Set == INSTANCE ConcurrentSet WITH Values <- Members, list <- links,
                                   table <- index, cursor <- standing

NoRaw == pointers = NULL /\ positions = NULL /\ order = NULL

NoFixed == memory = NULL /\ phase = NULL /\ killed = NULL /\ items = NULL

NoBucket ==
  /\ base = NULL /\ attached = NULL /\ bucket = NULL /\ stack = NULL
  /\ held = NULL /\ inside = NULL

NoSet ==
  /\ index = NULL /\ available = NULL /\ heap = NULL /\ standing = NULL
  /\ used = NULL /\ tour = NULL

NoList == links = NULL /\ value = NULL

CollectionsInit ==
  \/ Raw!ListsInit /\ NoFixed /\ NoBucket /\ NoSet /\ NoList
  \/ Fixed!BucketInit /\ NoRaw /\ NoBucket /\ NoSet /\ NoList
  \/ Bucket!BucketListInit /\ NoRaw /\ NoFixed /\ NoSet
  \/ Set!SetInit /\ NoRaw /\ NoFixed /\ NoBucket

CollectionsNext ==
  \/ /\ order # NULL /\ Raw!ListsNext
     /\ UNCHANGED <<fixedVars, bucketOnlyVars, setOnlyVars, links, value>>
  \/ /\ memory # NULL /\ Fixed!BucketNext
     /\ UNCHANGED <<rawVars, bucketOnlyVars, setOnlyVars, links, value>>
  \/ /\ bucket # NULL /\ Bucket!BucketListNext
     /\ UNCHANGED <<rawVars, fixedVars, setOnlyVars>>
  \/ /\ heap # NULL /\ Set!SetNext
     /\ UNCHANGED <<rawVars, fixedVars, bucketOnlyVars>>

CollectionsSpec == CollectionsInit /\ [][CollectionsNext]_collectionVars

\* Both lists hold what was put in and not yet taken out: see Lists; so do the
\* bucket of positions, kills included, and the bucket of pointers, wherever it
\* is mapped: see PositionBucket and BucketList.
ContentsExact ==
  /\ order # NULL => Raw!ListsExact
  /\ memory # NULL => Fixed!PositionsExact
  /\ bucket # NULL => Bucket!PointersExact

\* A killed method loses little: see PositionBucket.
KillLosesLittle == [][memory # NULL => Fixed!AttachKeeps]_collectionVars

\* The set's views agree and its enumerators read no freed node, and an
\* enumeration yields what stays once: see ConcurrentSet.
SetToured == heap # NULL => Set!SetAgrees /\ Set!ToursComplete
==============================================================================

# Verification of the AAF Object Manager

TLA+ models of the parts of the AAF SDK that decide whether a file that was written
can be read again: the storages the bytes are kept on, the page cache in front of
the disk, the protocol by which a document is opened, saved, closed and recognised,
the tree of objects that is loaded piece by piece and saved over itself, the tree
the sets in it are kept in, the layout of streams in an MXF file, and, above them,
the sequences whose length is kept by corrections. TLC checks them on small
instances; TLAPS proves, for every size and under the hypotheses named in section 4,
all the safety properties and refinements that the passing runs check.

## 1. The system

The SDK is a C++ library. A client calls COM interfaces (`com-api`, generated
from `dodo/`); they wrap implementation classes (`ref-impl/src/impl`,
`ImplAAF*`); those keep their state in properties managed by the Object Manager
(`ref-impl/src/OM`, `OM*`), which stores a tree of objects in a file.

    client
      | IAAFFile, IAAFHeader, IAAFMob ...         com-api wrappers
      v
    ImplAAFFile --- ImplAAFDictionary, ImplAAFHeader, content model
      | owns
      v
    OMFile --- OMRootStorable, OMObjectReference, properties
      | asks a factory by encoding
      v
    OMStoredObjectFactory: structured storage | KLV (MXF) | XML
      | keeps bytes on
      v
    OMRawStorage: cached disk | disk | memory | mapped | client's own
      |
      v
    stdio stream

### Components, their state and what makes them correct

| Component | State | Operations | What makes it correct |
|---|---|---|---|
| `OMRawStorage` | bytes, size, extent, position | read, write (at), extend, setPosition, synchronize | it is a flat array of bytes |
| `OMPageCache`, `OMCachedRawStorage`, `OMCachedDiskRawStorage` | table page -> entry, MRU list, MRU short cut, dirty pages; size, extent, valid size | the same, page by page; flush | tables agree; eviction is invisible and loses nothing; synchronize makes durable |
| `OMMemoryRawStorage` | vector of pages, size, position | the same | a request is cut into pages that exist; every byte lands once, in its place |
| `OMDiskRawStorage`, `OMStream` | stdio stream | the same | a write then a read sees the write; setSize |
| `OMFile` | `_isOpen`, `_isClosed`, `_isNew`, `_isValid`, root store | open*, saveFile, close, restore | a failed save never leaves a recognised file |
| `OMSSStoredObjectFactory` | the 16-byte signature in the document | open*, create*, isRecognized, close | signed means saved; a writer hides the document |
| `ImplAAFFile` | `_file`, `_head`, open type | Initialize, Open*, Create*, Save, Close | its state agrees with the OMFile's, on failures too |
| `ImplAAFDictionary` | definitions, `_defRegistrationAllowed` | Lookup*, Register* | registration is off only inside a save |
| `OMStorable`, `OMObjectReference`, reference properties | loaded or not, attached or not, store open or not, in the file or not; next local key | load, setValue, insert, remove, save, detach | one owner per object; when it is loaded cannot be seen; what is not loaded survives |
| `OMSSStoredObject` | sub-storages, index streams, property streams | save, restore | what is saved restores to the same tree |
| `OMMXFStorage`, `OMKLVStoredObject*` | segments of streams, partitions, preallocated space, fix-ups | write, set size, save, restore | segments stay apart, a save writes over no content, a reader gets all of it |
| Containers (`OMListT`, `OMRedBlackTreeT`, ...) | nodes | insert, remove, find, iterate | they are sets, maps and sequences |
| Content model (`ImplAAFMob`, `ImplAAFSequence`, ...) | mobs, slots, components, lengths | append, insert, remove, find the segment at an offset | lengths and positions add up |
| Essence access, plug-ins, codecs | streams, codec state | open, read/write samples, seek | formats |
| `ImplAAFRoot`, COM layer | reference counts | AddRef, Release, wrappers | counts balance |

How they interact: everything is a direct call on the client's thread. There are
no threads or callbacks between these parts. Concurrency is between *processes*
that open the same file, and between the steps of a call and what fails in the
middle of it: an exception, a full disk, a process that ends. The shared state
is the document itself. What is hard:

- a write-back cache, with evictions in the middle of a request, in front of a stream
  with a buffer of its own;
- entries re-keyed in place, an MRU short cut that skips the list;
- unsigned arithmetic at page and size boundaries;
- a signature that is erased by name before the file is opened and rewritten
  by name after it is closed, next to other processes doing the same;
- failures midway: a save that throws, an open that fails after it changed the
  document, a close that cannot write the signature;
- crashes while dirty pages sit in a cache;
- objects loaded when they are first needed, long after the storages around
  them were edited, removed and saved again under names that must stay unique;
- positions computed twice, from sizes when a stream grows and from the file when
  it is saved, that have to agree;
- a search tree that is rebalanced after each removal, from a sentinel that has a
  parent for a while;
- a length that is corrected at each call, and never computed from what it sums.

`PROJECT.json` lists the hazards at their lines, each with the properties that
would catch it.

## 2. The modules

### RawStorage: what a storage promises

The abstract specification, from the interface `OMRawStorage.h`: an array of
bytes, some undefined, with a size, an extent and a position. No pages, no
cache. `Extend` is deliberately loose (size and extent may or may not follow,
bytes at or past the new size may become undefined) since the implementations
differ there.

### CachedRawStorage: the cached disk storage

| TLA+ | C++ |
|---|---|
| `file`, `fileSize` | the bytes behind `OMStream`, as the stream reads them |
| `buffered` | the page of which the buffer of the stdio stream may hold bytes that a crash would lose, or `NoPage` |
| `validSize` | `OMBaseCachedDiskRawStorage::_validSize` |
| `size`, `extent`, `position` | `OMCachedRawStorage::_size`, `_extent`, `_position` |
| `cache`, `mruList`, `mruEntry`, `validPageCount` | the members of `OMPageCache` |
| `pageNumber`, `buffer`, `dirty` | the members of `CacheEntry` |
| `call` | the loop variables of the request in progress |
| `written` | history: bytes that were ever written |

`ReadAt`, `WriteAt`, `Synchronize` and `Close` start a request;
`ReadCachedPage`, `WriteCachedPage` and `FlushPage` are one turn each of its
loop, with everything `cacheEntry` does in that turn (`MruEntry`, `FindEntry`,
`NewEntry`, `ReplaceEntry`, the write-back of a dirty victim, the read of the
new page); `ReadReturn`, `WriteReturn`, `SynchronizeReturn` and `Delete` finish
it. `Read(n)` and `Write(bytes)` are `ReadAt` and `WriteAt` at the position, as
in the code. The subtraction in `readPage` and `writePage` is unsigned:
`Portion` says what a wrap gives. Bytes of a buffer past `_validSize` keep what
the buffer held before, as in the code.

A page that is written goes to the buffer of a stdio stream. `rawReadAt` and
`rawWriteAt` set the position first, and that writes the buffer out (`fseeko`), so it
holds bytes of the last page written at most: `WriteDirty` and `BufferedAfterRead`
keep track of which. `Drain` is the library, which is not in the repository and may
write its buffer out at any time. `synchronize` has two statements, and
`SynchronizeReturn` is the second: after the pages, `fflush`. The destructor does the
same and closes the stream (`Delete`). `SynchronizeMakesDurable` says that, when one
of them returns, every byte that was ever written is in the file as the client saw it
and not in the buffer of the stream any more; it fails both when a page is left out
of the flush and when the `fflush` is (`SynchronizeReturnAtOnce`). What the operating
system does with the bytes after `fflush` is not in the model.

Not in the model: short reads and write errors of stdio (the code asserts they
do not happen), and a crash of the process itself. A crash would lose what
is in the pages and in the buffer; what the durability property says is that after
`synchronize` there is nothing in either that is not in the file.

### MemoryRawStorage: the storage in memory

One step per call, since nothing is called back. `pages` is `_pageVector`. A
request is cut into pieces (`Pieces`: a first part, whole pages, a last part)
exactly as `read` and `write` do; `Gather` and `Scatter` move the bytes. The
assertions of the code are branches that set `failed`, after which nothing
happens. `PageStart` and `Consistent` are products of two `OMUInt32`, modulo
`Word`. `Careful` says that clients keep their positions within the size, which
the precondition of `setPosition` demands, although the comments of `readAt`
and `writeAt` speak of positions greater than the size. The checked instance
keeps sizes below `Word`; at 2^32 the postcondition on the size, a 32-bit
product, fails in builds with assertions.

### DiskRawStorage: the storage without a cache

| TLA+ | C++ |
|---|---|
| `file`, `fileSize` | the file on disk, as the system knows it |
| `buffered` | what the stdio stream holds in its buffer and has not written |
| `position` | the position of the stream |
| `last` | what the stream did since it was positioned, which decides what ISO C lets it do next |
| `mode` | `OMDiskRawStorage::_mode` |
| `asked` | what the client did since it set the position |
| `failed` | the assertion of `OMStream` that failed |
| `written` | history: bytes that were ever written |

`OMDiskRawStorage` hands every call to `OMStream`, and that to stdio, which is not
in the repository: `Drain` is the library that writes part of its buffer whenever it
likes, `Flush` what `fflush`, `fseeko` and `fclose` do, and `Seen` what a read
returns. The rest is the code: `size` flushes before it asks the system, `setSize`
asks for the size, writes a byte at the new end and sets the position back, the
destructor synchronizes first. Durability is not stated again for this storage:
its `synchronize` is the one call of `fflush` (`Flush`), whose effect on the buffer is the
library's and not the repository's.

Two parameters. `Tolerant`: does the library let a read follow a write, and a write
a read, with no positioning between? ISO C does not demand it. `ClientsSeek`: do
clients set the position before they change direction? The cached storage does, since
it uses `readAt` and `writeAt` only. The run takes such clients and a strict library;
with a tolerant library the same holds for any clients.

The model starts from a file that is there. Not modelled: the creation of a file,
which tests for it first and then creates it, temporary files, write-only streams,
and errors of the system.

### AAFFile: the life of a document

Several client processes, each with at most one file object, and one document
with a signature and contents. Contents are versions: each edit makes a new
one, 0 is a document never saved, `Torn` is half a save, `Absent` no document.

| TLA+ | C++ |
|---|---|
| `phase` | how far `ImplAAFFile` and `OMFile` are (`_isOpen`, `_isClosed`, and the point inside a call) |
| `mode`, `isNew`, `isValid` | `OMFile::_mode`, `_isNew`, `_isValid` |
| `holds` | the root storage is open, in its sharing mode |
| `head` | `ImplAAFFile::_head` is set |
| `registration`, `regWasEnabled` | `ImplAAFDictionary::_defRegistrationAllowed` and the local of `Save` |
| `document`, `disk` | the document as processes see it, and as a crash leaves it |

Opening a named file takes the steps `IsAAFFile` (AAFFileIsAAFFile),
`IsRecognized` (OMFile::isRecognized), `Unsign` (the null signature, written by
name), `Attach` (openFile and restoreRoot), `Finish`, `FinishFails` or
`FinishThrows`. On a raw storage it is `Create`, then `OpenCreated` or
`OpenExisting`, then `Finish` or `FinishFails`. `Edit`, `SaveBegin`, `SaveEnd`,
`SaveFails`; `Close` then `Stamp`, `StampNothing` or `StampFails`; `Release`.
`Crash` ends a process at any point; `Evict` writes some of what a cached raw
storage holds to the disk.

A named file has no cache here (`disk = document`): structured storage on a
named file writes through the operating system, which survives the process. A
raw storage belongs to one client. The sharing modes are those
`OMMS_SSStoredObjectFactory::openFile` asks for; `Exclusive` says whether the
platform enforces them.

Where the code asserts, the model takes the exception: assertions throw
`OMAssertionViolation` in builds with `OM_DEBUG`, and the COM wrappers turn it
into a result. Release builds go on without looking.

What overlapping opens may do is split over the runs. `NamedDocument` opens one at a
time: what is proved and checked there (`RecognizedMeansSaved`, `WritersHideDocument`,
`ReadersSeeLastSave`) says nothing of two opens at once, and of a signature that is
written after the root storage was closed only what a single process sees.
`NamedShared` lets opens overlap, and is about the contents only. `NamedRace` is the
run about the signature with overlapping opens; it ends in the violation below.

Not modelled: `OpenTransient`, `SaveCopyAs`, `Revert`, write-only access, a
failure of the root store's `close`, essence written directly to its stream while
the file is open, the early returns of `Save` when there is no identification,
and reads while a lazily loaded file is edited.

### PersistentTree and ObjectTree: the tree of objects

`PersistentTree` is the promise: one tree the program sees and one the file
holds; an edit changes a node of the first, a save copies it over the second, a
reopening brings the second back. That objects are loaded one at a time cannot
be seen in it.

`ObjectTree` is how the object manager keeps it, on the two levels the content
model edits most: the set of mobs of the content storage
(`OMStrongReferenceSetProperty`) and the vector of slots of a mob
(`OMStrongReferenceVectorProperty`).

| TLA+ | C++ |
|---|---|
| `mobs`, `mobsKey` | `ImplAAFContentStorage::_mobs`: its elements by local key, and `_localKey` |
| `Unloaded`, `Void` | `!_isLoaded`; loaded with a null `_pointer` |
| `at` | `_container` and `_name`: the local key under which, and in which object |
| `open`, `exists` | `_store != 0`, `_exists` |
| `slots`, `key` | `ImplAAFMob::_slots` and its `_localKey` |
| `disk` | the storage of the content storage: its index, its first free key, a sub-storage for each mob, in each of these one for each slot |
| `failed` | an exception or an assertion: `openStorage` of what is not there, `createStorage` of what is, a void reference that is saved |

Each operation includes what the object manager does in it: `AddMob` takes the
next local key; `RemoveMob` and `SetMobID` detach the mob, and its slots only
when its store is open, as `OMStorable::detach` does; `LoadSlot` opens the store
of the mob, or creates one; `Save` writes what is loaded into the storages there
are and rewrites the indexes; `Reopen` forgets everything and restores the set
from its index. `LiveTree` and `SavedTree` are the two trees of the promise.

Two things are parameters. `MayReattach`: may an object that was saved be added
again after it was removed (or renamed, which removes and adds it)? In the
passing run clients let go of such objects; `ObjectReattach` shows why.
`MayStreamReplaced`: may something inside a new object be opened before a save,
when that object replaced a saved one under the same name? `store()` then creates
a storage that is there already; with it, `NeverFails` does not hold.

Not modelled: weak references, singletons, the order of a vector, and a save
that fails midway (a failure ends the run; the life cycle models it as `Torn`).

### KeyedSet and RedBlackTree: the tree under the sets

`KeyedSet` is the promise of `OMRedBlackTree.h` and of its iterator, on which `OMSet`
and with it most dictionaries and reference sets rest: items found by their keys,
counted, and visited in order. `RedBlackTree` is the tree.

| TLA+ | C++ |
|---|---|
| `tree` | `_root`; `_left`, `_right`, `_parent`, `_color` of the nodes; `Nil` is `_nil`, with a colour and a parent |
| `entry` | `_key` and `_value` of a node; `None` where no node is allocated |
| `count` | `_count` |
| `call` | the call whose loop is running, the node the loop is at, and the node to delete |
| `asked`, `answer` | the last call and what it returned |

`Insert` and `Remove` link or unlink a node; `InsertTurn` and `RemoveTurn` are one turn
each of the loops of `insert` and `rebalance`; the returns paint the root, or the node
the loop ended at, and delete. What the code spells out for either side is one operator
with a side as its parameter; `Rotated` is both rotations. The keys and values that a
removal copies from one node to another are copied. An iterator is at a node; since
insertions leave nodes alone it is still that of its key at the next step, as long as
nothing was removed in between, which the model takes for granted (a removal may delete
another node than the one its key was in).

### Sequence: components and lengths

`ImplAAFSequence` over a lazily loaded vector. `InsertComponentAt` makes all
checks in their order (attached, data definition, kind, neighbours, material,
position) and the correction of the length, and loads what the checks look at;
`RemoveComponentAt` takes the component out first and then corrects the length,
each of its ways through the code an operator of its own: the last component,
an event that reaches the end, the first event, a segment, a transition. `Save`
and `Reopen` forget what was loaded. `FindSubSegment` is an operator, checked
against the definition it should meet; it gives the component's index, `Nothing`, or
`Itself` for the beginning of a sequence of no length. `loaded` is `_isLoaded` of each
reference; `result` what the call returned; `length` is `_length`.

A component that is in a sequence keeps its length and position: the code does
not follow changes to them. Negative event positions, which the code does not
refuse and from which `FindEventSequenceEnd` does not start its search, are left
out. `SetNthComponent` is left out: it leaves the length alone, and only
`ImplAAFSourceMob` calls it, with a component of its own.

### MXFStreams: where streams are in a file

`OMMXFStorage` as the build defines it (`OM_NEW_STREAM_WRITING`,
`OM_FASTER_STREAM_PARSING`).

| TLA+ | C++ |
|---|---|
| `segments` | `_segments`; `start`, `size`, `origin` are the members of `Segment` |
| `size` | `Stream::_size` |
| `fileSize` | `_fileSize` |
| `disk` | what each address holds: a byte of a stream, a pack, fill, metadata |
| `partitions` | the packs on disk, that a reader follows from the footer |
| `failed` | the assertion or exception that ended the program |
| `restored`, `restoredSize` | `_segments` and `Stream::_size` of a reader of the saved file |

`WriteStreamAt` grows the stream when needed (in place if its last segment is
the last of the file, otherwise by a new segment at the end) and writes the
fragments; `StreamSetSize` cuts, or grows without recording the size; `Save`
writes the metadata, then, for each segment, the pack in front of it and the fill
behind it, with the assertions on the way. Packs and fill go to the disk as
positions the code computes at that moment.

`RestorePartition` is one turn of the loop of `restoreStreams`, in a reader that starts
with no streams (`OM_FASTER_STREAM_PARSING`): past the pack and the fill behind it to the
essence (`IsEssenceOf`), and, at the next pack, `markEssenceSegmentEnd` (`Occupied`) and
`streamRestoreSegment` (`RestoredSegment`, which starts where the segments the stream
has by then end). A change to the file, or another save, ends that reader. The loop
stops marking at the essence, so it never marks the fill behind a segment; the fill
`markEssenceSegmentEnd` compares with is the one in front of it, and what is between
the content and the next pack counts as allocated and as occupied. So a stream is not
restored as it was written. What `RestoreFindsSegments` says is exactly this:

- no assertion of the reader fails, and there is a partition for each segment;
- segment `i` is restored for its stream, from the address it is at, `Zone` longer than
  it was allocated, and its start in the stream is further on by one `Zone` for each
  earlier segment of that stream (`ShiftedByZones`);
- it reads as all the content written to it and, behind that, nothing but fill
  (`ContentThenFill`);
- the stream is as long as its segments, and so longer than it was.

A reader therefore gets all the content, in order, but after the first segment of a
stream not at the positions it was written at. `MXFReread` shows that
(`RestoredInPlace`). The comments do not say which is meant; the branch of the same
function for `OM_NEW_STREAM_PARSING`, which the build leaves out, tries to take the
zone off again (OMMXFStorage.cpp:2477, "HACK4MEIP2").

An address stands for several bytes: `KL` for the 25 of a key and length, `Zone`
for the 32 of `fillBufferZoneSize`, so the sizes of the instance are small and in
the same order as those of the code. Left out: index streams, writes past the
end of a stream, changes to a file after it was opened, and what a failed save
wrote after the metadata.

### The MC modules

`MCCachedRawStorage`, `MCDiskRawStorage` and `MCMemoryRawStorage` define the payloads clients write;
`MCAAFFile` defines the symmetry of interchangeable clients, which the runs
`NamedDocument` and `NamedShared` use; both check safety only, for which it is
sound. `MCRedBlackTree` pairs keys
with values, and tells states apart by the keys in the nodes and not by their addresses
(`ByKey`, a view; `SetReturns` does without). `MCObjectTree` names the objects, `MCSequence` gives kind, length and
position of each component, and `MCMXFStreams` the grids of the streams;
`MXFStreams` too is symmetric in its streams, which have one grid, and checks
invariants only.

## 3. The runs

| Run | Instance | Shows |
|---|---|---|
| `CachedStorage` | 2 cache pages of 2 bytes, file of 3 pages, 3 bytes there at first; weak fairness of a call's own steps | types, table agreement, nothing lost, eviction invisible, nothing left in a page or in the stream's buffer after synchronize, every call returns, refines `RawStorage` |
| `DiskStorage` | file of up to 6 bytes, 0 or 2 there at first; clients that set the position before they change direction, in a library that insists on it | types, no call of the stream fails, refines `RawStorage` |
| `MemoryStorage` | pages of 2 bytes, sizes to 7 | types, no assertion fails, refines `RawStorage` |
| `NamedDocument` | 2 processes that open one at a time, no sharing modes, crashes, 4 versions | recognised means saved, writers hide the document, opens see the last save |
| `NamedShared` | 2 processes with overlapping opens, sharing modes, crashes | readers are isolated |
| `RawDocument` | a raw storage, 5 versions, evictions at any time | closed means durable |
| `ObjectTree` | one mob and two slots, local keys up to 2 in either, two identifications; any number of sessions | nothing fails, what is not loaded is stored, one owner, fresh keys, loading invisible, refines `PersistentTree` |
| `KeyedSet` | seven keys, seven nodes | types and links, red-black balance, refines `KeyedSet` |
| `Sequence` | segments, transitions, events of two types, some without a length, one that cannot be converted | ordering, spacing, the length of components and of events, every offset found |
| `MXFStreams` | two streams on a grid of 6, allocations to 14, metadata that fits | segments apart, streams intact, layout agrees, a reader gets the content of each segment, shifted by the zones before it |

Bounds. Three pages over a cache of two make every way into `cacheEntry`
happen, clean and dirty victims included; requests of 1 and 3 bytes, at a page
boundary and inside a page of 2 bytes, touch whole pages, parts, and several
pages. Two byte
values tell a lost write from a kept one. The cache never looks at bytes or at
more than the page number, so larger instances only repeat these cases, and
the proofs do not depend on the bounds at all. `CachedThrash.cfg`, with one page, is
the instance where every turn evicts; on it the inductive invariant of the proofs, `ValidWriteSize`,
the refinement and `CallsReturn` hold as well. Seven keys in `RedBlackTree` are the
fewest with which a removal climbs twice (a tree of three black levels);
`SetReturns.cfg` has four keys, no view, and weak fairness of the turns, and shows on
them the same and that every call returns (`CallsReturn`). In `DiskRawStorage` writes of one byte and of
three, at and after the position, overlap, touch and leave holes; the buffer holds up to
six bytes and may be written out after any of them; the two sizes of `extend` lie below
and above most files. In `AAFFile` two processes are
what a race takes; four or five versions allow create, save, edit, save, fail,
reopen. Requests past `Limit` and edits past `MaxVersion` are not taken: these
reopen. In `ObjectTree` two local keys are what it takes to take one, save, reopen
and take the next; two mobs with one slot each, and two with two, were checked
too, the latter with one local key for slots. In `Sequence` three components are
what a correction looks at (the one inserted, the one before, the one after) and
ten are to choose from. In `MXFStreams` two streams that alternate give every
arrangement of a last and an earlier segment, the allocations give each three
segments, and a grid of 6 is the smallest that leaves room for a pack, the zone
and two keys.

The bounds in guards are: requests past `Limit` and edits past `MaxVersion` are
not taken, nor is a local key of `MaxKey` or `MaxSlotKey`, a growth past
`MaxAllocated` or a file past `LastAddress`. The `AAFFile` runs have `CHECK_DEADLOCK FALSE`
because a system may really stop: a document that is not recognised cannot be
opened again by name. The runs of `MXFStreams` have it because what is left to do ends
when the bounds are reached, and `ObjectReattach` because it ends with the
exception.

Fairness. `FairSpec` has weak fairness for `Piece \/ Return` only: a call runs
on its own thread, so what is inside a call goes on until it returns. Nothing
makes a client call again. `RedBlackTree` has the same, for its turns.

### Disagreements between the code and what is said of it

Two runs expect a violation; `PROJECT.json` tells them in full.

- `NamedRace`: when opens overlap, a failed save can leave a signed document.
- `ObjectReattach`: a mob whose storage is not open is removed and added again,
  as `SetMobID` does; its loaded slots keep claiming storages they had under the
  old name, and `Save` throws.

The rest have a configuration of their own, to run by hand with
`tlc -config X.cfg M`; each of these ends in a violation too:

| Configuration, module | Property | What it shows |
|---|---|---|
| `CachedTruncate`, MCCachedRawStorage | `ValidWriteSize` | shrinking a cached storage with `extend`, which its comment (OMCachedRawStorage.cpp:206) allows, leaves dirty pages past the extent; `writePage` then asserts or wraps |
| `DiskTruncate`, MCDiskRawStorage | `ExtendSetsSize` | `extend` of a disk storage to a smaller size is documented to truncate (OMDiskRawStorage.cpp:295) and does nothing |
| `DiskAlternate`, MCDiskRawStorage | `NoStreamError` | clients that do not set the position between a read and a write, which the comments of `read` and `write` do not ask of them, meet the rule of ISO C where the library insists on it |
| `MemoryTruncate`, MCMemoryRawStorage | `TruncationSucceeds` | `extend(0)` of a memory storage runs an unsigned loop past page 0 |
| `FileCloseSaves`, MCAAFFile | `CloseSaves` | `Close` is documented to save (AAF.idl:9632) and does not |
| `FileHeader`, MCAAFFile | `OpenFileHasHeader` | after a failed `Open`, `GetHeader` succeeds with nothing |
| `FileRegistration`, MCAAFFile | `RegistrationAllowed` | a save that throws leaves registration disabled for good |
| `SetBackwards`, MCRedBlackTree | `StepsReachItems` | `operator--` from the end of an empty set returns true, before the beginning: its postcondition (OMRedBlackTreeIteratorT.h:268) fails |
| `SequenceRemoval`, MCSequence | `FailureChangesNothing` | `RemoveComponentAt` documents that a failure changes nothing (AAF.idl:24750); one whose new length is refused has removed the component |
| `SequenceUnloaded`, MCSequence | `LengthFollowsComponents` | `removeAt` gives 0 for a component that was never loaded, and the length is left |
| `SequenceMaterial`, MCSequence | `TransitionsHaveMaterial` | the material of a transition is compared with the last component, not its neighbours |
| `MXFSetSize`, MCMXFStreams | `SetSizeTakesEffect` | `streamSetSize` to a larger size does not record it (OMDataStreamProperty.cpp:165, "Size properly set") |
| `MXFUnreadable`, MCMXFStreams | `SavedIsReadable` | a stream whose size was set and that was never written has a segment without a packet, and the file cannot be restored |
| `MXFMetadata`, MCMXFStreams | `StreamIntact` | metadata past the preallocated space is written over the streams before the exception that says so |
| `MXFReread`, MCMXFStreams | `RestoredInPlace` | a stream of two segments is read back with the zone and the fill of the first in front of the second |
| `MXFGrids`, MCMXFStreams | `LayoutAgrees` | streams with different grids: "Consistent origin" fails in a save |

## 4. The proofs

All checked by TLAPS, with no step left out. The proofs about `M` are in `MProofs`,
which extends `M`; each has an inductive invariant `IInv`, a lemma for each action that
says it keeps it, and the theorems at the end. Where the runs check an assumption's
need, the configuration that shows it is named.

### CachedRawStorageProofs

For every page size, cache size, file size and set of requests, assuming
`MayTruncate = FALSE` (no client passes `extend` less than the size; the
configuration `CachedTruncate` shows what happens otherwise) and the assumption
`CacheAssumption` on the constants.

The safety properties are not inductive. `IInv` adds to them: the loop variables
add up to the request and stay in its range (`LoopInRange`); nothing was written
past the size, or past the end of the write in progress (`WrittenInSize`, from
which a dirty page starts before the extent); only a written page of a writable
storage is dirty (`DirtyWasWritten`); flush leaves clean pages behind it
(`FlushedBehind`); and a closed storage has no pages. The core is the lemmas on
`CacheEntry`: it moves the tables consistently (`CacheEntryMovesTable`) and keeps
every byte (`CacheEntryKeepsBytes`), whichever of its four ways it takes. Each
request, turn and return then has a short lemma.

Theorems: `Invariance`, `TypeCorrect`, `CacheIsConsistent`, `NeverLost`,
`AssertionsHold`, `EvictionsAreInvisible`, `SynchronizeIsDurable`,
`StorageImplemented`.

The last is the refinement of `RawStorage`. A write takes effect when it is called
and a read when it returns, and the turns between are stutters; so, in the middle of
a call, the promise's bytes are those of the cache with what is left of the request
laid over them. It rests on `IInv` and on `Progress`: the size a write will reach was
set when it was called (`SizeIsReached`), what a write still has to copy is the rest
of its data from the byte its loop is at (`WriteProgress`), and what a read collected
is what a client would have read there (`ReadProgress`).

### DiskRawStorageProofs

For every size of file and any requests, under `DiskAssumption` alone.

- `TypesCorrect`, and `StorageImplemented`: the bytes that `Seen` gives, of the buffer
  where it covers the file and of the file elsewhere, are the flat array. Neither needs
  `ClientsSeek`. `Drain`, which the library takes whenever it likes, is a stutter, and
  so are the flushes inside the calls; `extend` is the byte it writes at the new end.
- `StreamNeverFails`, assuming `ClientsSeek \/ Tolerant`; `DiskAlternate` shows what
  happens with neither.

The inductive invariant is `TypeOK`, which says how the buffer lies before the
position, with `DirectionIsAsked`: a stream that reads or writes does so because the
client did since it set the position. The calls that move the stream on their own,
`size` and `setSize`, leave it positioned.

### MemoryRawStorageProofs

For every page size and any requests, assuming `Careful` (clients keep their
positions within the size) and `WordIsLarge` (the largest size and a page are below
2^32, so that no product wraps).

`TypesCorrect`, `NoAssertion` and `StorageImplemented`. `NoAssertion` also assumes that
`extend` is not called with zero, of which `MemoryTruncate` shows the reason. The
inductive invariant adds to the types that nothing was written past the size. The
core is the cutting of requests: an address is one offset in one page
(`AddressInPage`, `PageIsUnique`); the pages that `PageTotal` counts are those up to the last
byte (`PageTotalCounts`); the pieces of a request are known (`PiecesAre`), lie on pages
that exist (`RequestIsOnPages`), and every byte of the request is in exactly one
(`EveryByteHasAPiece`). From these `GatherReads` and `ScatterWrites`: what is gathered
is what the flat array holds, and what is scattered changes its bytes and no others.

### ObjectTreeProofs

For any number of mobs, slots and local keys, assuming `~MayReattach` and
`~MayStreamReplaced`, as in the run; `ObjectReattach` shows that the first is needed.

`Invariance`, `TypesCorrect`, `NothingFails`, `UnloadedIsFound`, `OwnedOnce`,
`KeysNeverReused`, `LoadsAreInvisible`, and `DocumentImplemented`, the refinement of
`PersistentTree`. The inductive invariant adds to `OneOwner`, `KeysAreFresh` and
`UnloadedIsStored`:

- `StoresAreFound`: an object with a storage has it where its name leads, and one that
  was never saved has a key that the file does not use, so `Save` creates a
  storage that is not there. This is what attaching a stored object again would break.
- `HiddenApart`: what is in the file only is not in memory as well, and is there once.
  So `LoadMob` and `LoadSlot` bring in an object nobody owns.
- `SavedApart`: the tree in the file has every object once, under its identity, which a
  reopening relies on.

They hold of each other: a save needs the first to give the last, a reopening turns
the last into the second. For the refinement each action has a lemma that says which
node of the live tree it edits (`NodeEdited`, `NodeAdded`, `NodeRemoved`) and that it
leaves the others alone; for a save, that what is not loaded is copied from itself.

### AAFFileProofs

For any number of clients and versions.

- `TypeCorrect`, without further assumptions.
- `RecognizedIsSaved`, `WritersAreAlone`, `OpensSeeLastSave`, `ClosedIsDurable`,
  assuming `Serialized`: no two clients are opening the document at a time, and
  a raw storage does not lose its cache in a crash. `NamedRace` shows that the
  first cannot be dropped. The inductive invariant adds: a valid writer's
  document holds what was last saved (so that stamping it is right), recognition
  holds until the document is attached, a writer's document is there, who holds
  the root storage, and the two kinds of document.
- `ReadersIsolated`, assuming only that the platform enforces the sharing modes:
  opens may overlap and any process may crash. It has an inductive invariant of
  its own (`Sharing`).

### MXFStreamsProofs

For any number of streams, any grids, packs and zones, and any sizes written or
set, assuming `MXFAssumption` (a grid is larger than a pack, the zone and two
keys) and `MetadataFits`: what is saved of metadata, and the fill after it, is
less than the space kept for it. `MXFMetadata` shows that this cannot be dropped.

- `TypeCorrect`, `SegmentsStayApart`, `StreamsStayIntact`. The inductive invariant
  `IInv` adds to the three that the file ends with its last segment or where the
  streams begin, and that every position a stream is allocated for lies in one of
  its segments (`Covered`). The core is `GrowInPlaceKeeps` and
  `GrowBySegmentKeeps`: growth moves nothing, and a new segment is behind all
  others by a grid less a key, which is more than the zone and a pack. From it,
  writes go to addresses of no other stream, and `SavedDiskKeepsContent`: packs
  and fill go to addresses of no content.
- `LayoutAlwaysAgrees`, assuming also `OneGridFits(g)`: all streams have the grid
  `g`, of which the preallocated space is a whole number, and no new stream is
  set to no size. The invariant `Aligned(g)` says that segments end on the grid;
  then the alignment of a save arrives where the growth had put the segment.
  `MXFGrids` shows what happens with two grids.
- `SegmentsAreFound`, for any grids: what a reader of a saved file restores, partition by
  partition, is what section 2 lists: every segment with all its content and only fill
  behind it, at a start that is further on by the zones before. The invariant
  is `SavedLayout` (what is on the disk in front of and behind each segment, and that
  the partitions are those packs, in the order of the segments, with the footer last) with
  `FooterFits`. A save that fails has written only the metadata, in front of all packs,
  so the file stays as the last save left it. `EssenceIsFound` gives the one address at which
  the reader finds the essence of a partition (only fill lies between it and the pack), and
  `RestoredSoFar`, the part of the invariant about the reader, the segments it has after
  each turn, by counting those of each stream. `AddressesSuffice` is about a bound of
  the model: `LastAddress` is at least where the streams begin.

### SequenceProofs

For every set of components, with any kinds, lengths and positions, assuming
`MayRemoveUnloaded = FALSE` (a component is looked at before it is removed;
`SequenceUnloaded` shows what happens otherwise) and the assumption on the constants.

`TypeCorrect`, `EventsStayOrdered`, `LengthReachesEvents`, `AssertionAlwaysHolds`,
`SpacingIsKept`, `OffsetsAreFound` and `LengthStaysInStep`. The inductive invariant `IInv` says of the sequence in memory
and of the one in the file the same things (`Sound`): it holds events only or none,
of one type; events are in the order of their positions; the length covers every
event, and is reached by one of them; a sequence that holds nothing has no length, or
zero. It must be about both, since a reopening brings the second back. The core is
`InsertKeepsEvents` and `RemoveKeepsEvents`: what an insertion or a removal at an
index does to the order and to the end of the events, by the ways `UpdateSequenceLength`
and `UpdateSequenceLengthOnRemove` take.

`Total` and `BeginsAt` are folds over finite sets. `Sum` is what such a fold computes:
`AddingExists` and `AddingsAgree` say that the recursive function inside it exists and
does not depend on the set, `SumWithout` that the order of the members does not matter.
Each takes an induction over subsets, which is done without the library's induction
theorems: of the subsets for which the claim fails, one would have no other inside it
(`Smallest`), and that one is refuted. `BeginningsFollow` and `TotalUpto` then give where
a component begins, `TotalGrows` what one more component adds.

### RedBlackTreeProofs

For any number of nodes, any keys and any values, from the assumption on the constants:
`TreeIsSound` (the inductive invariant), `TypesCorrect` and `TreeIsRedBlack`. The
refinement `SetImplemented` has the hypothesis `~MayStepBackEmpty`, that no client
steps back from the end of an empty set; without it the promise fails, as
`SetBackwards` shows.

`IInv` holds after every turn of every loop. It says three things of the tree, each
stated so that it can be proved without an induction over the tree:

- `Shape`, `Rises` and `Falls`: children and parents name each other, and every set of
  nodes has one whose parent, and one whose children, are not in it. The last two say
  that the links close no loop; a property of all nodes of a tree is then proved by
  taking the nodes that lack it and the one of them that no link leads on from.
- `Ordered`: there are bounds `B` for every node, at most one key on either side, which
  its own key lies between and which, with its key, are those of its children. They
  replace "all keys of the left subtree are smaller", which a rotation changes far
  from where it is; with bounds, only two nodes have other ones after it.
- `Balanced`: there are heights `h`, one for every node, that grow by one at black
  nodes, and red nodes do not meet. While a call is running it may be wrong in one
  place, and the invariant says which: during an insertion (`AtInsertion`) two red nodes
  may meet at the node the loop is at, or the root be red; during a removal
  (`AtRemoval`) a black node is missing above the node the loop is at, which is not red
  unless the loop ends there.

A rotation is treated once, for either side (`TurnedShape`, `TurnedRises`,
`TurnedFalls`, `TurnedOrder`, `TurnedEven`, `TurnedApart`); a turn of a loop composes
rotations and paint, and each case of it moves the wrong place up or ends the call
(`RedUncle`, `InsideTurn`, `OutsideTurn`; `RedSibling`, `NearNephew`, `BlackSibling`,
`FarNephew`).
What the recursive functions of the model compute (`Find`, `LeafFor`, `Outermost`,
`Above`, `BlackHeight`) is derived from the loop-free links: such a function exists
(`ChainEnds`), is the only one (`EndsAreUnique`), and ends where the bounds tell.
For the refinement, `Contents` are the pairs in the nodes of the tree; turns keep them
and are stutters, and `NeighbourIs` and `AboveBounds` say that the next node of the
iterator has the next key.

### Only model-checked

- `CallsReturn` of the cached storage and of the tree of keys: liveness under fairness is
  out of the prover's reach.
- What the two runs that expect a violation check, which is false, and the separate
  configurations below, which show that a hypothesis of a theorem is needed.

### Seeded faults

Definitions marked "Fault:" in the component modules are plausible bugs in the
code they stand next to: a dropped write-back, a promotion that is forgotten, an
extent that is not raised, a signature that is not erased. No specification
uses them; they show that the properties notice.

## 5. Plan

Done: the storage interface, the page cache, the disk and the memory storage, the
life cycle of a file, the tree of objects, the tree of keys, the layout of MXF
streams, sequences; proofs for all of them, with the refinements of the three storages,
of the tree of objects and of the tree of keys. Next, in this order:

1. Weak references and the objects they name, over `ObjectTree`.
2. MXF files that are changed after they were opened, and index streams.

### Not modelled, and why

XML, codecs and essence formats (translations of data with no protocol), the
generated COM layer, metadata tables, utilities and examples, and the structured
storage libraries, which are delivered as binaries. The other containers
(`OMListT`, `OMVectorT`) are sequences wherever they are used here; nothing uses
`OMAVLTreeT`. Most of the source is of
these kinds: generated headers and dictionaries, wrappers and tools. Not modelled
either, though it was seen: `ImplAAFEssenceGroup::RemoveChoiceAt` compares with
`index > count` and so lets through the index one past the end;
`CreateAAFFileOnRawStorage` and `OpenTransient` leak, or delete twice, on their
error paths; an open that fails after the null signature was written leaves an
intact document unrecognised.

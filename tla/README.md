# Verification of ccufl

ccufl is a C library of commonly used structures and functions: lists, queues,
stacks, hash tables, trees, settings, XML and JSON trees, socket transfers,
strings, digests. This directory holds TLA+ models of its parts that keep state,
the TLC runs that check them on small instances, and proofs of what can be proved
for all of them.

    tlc -config Queues.cfg MCQueues         # a run: the .cfg of its name
    tlapm QueuesProofs.tla                  # the proofs; also SListProofs, DictProofs,
                                            # HTabProofs, SetsProofs, LoopsProofs,
                                            # ConnProofs, and Ranking, the lemmas they share

`PROJECT.json` maps every definition to the lines it models and lists the runs,
for each property a slip in the code that the property notices, the hazards of
the code and the properties that watch them.

## The system

Source files are under `src/`. Nothing in the library starts a thread or a
process. Components do not call each other except where the last column says so;
they interact through their client, who owns the memory, supplies callbacks
(hash, compare, delete) and, for the first three, calls from several threads.

| component | state | operations | hard behaviour | uses |
|---|---|---|---|---|
| pqueue | ring of pointers, top, tail, len, spin lock | create, addone, getone, count, init, free | calls of several threads; count without the lock; full and empty | |
| stack | head, nodecount, spin lock, link in the client's nodes | push, pop, top, count, init, free | pop counts after it unlocks; top without the lock | |
| slist | head, tail, nodecount, spin lock, link in the client's nodes | prepend, append, remove, search, getone, traverse, sort, count, init, free | remove counts after it unlocks; returns that keep the lock | |
| dict | buckets, size, used, iterators | add, replace, delete, find, resize, expand, iterate, random key | growth by a counter; iterator that outlives deletes | |
| htab | doubly linked chains, size, items | put, get, remove, foreach, destroy | growth; failing allocation; foreach mixed with other calls | |
| conf | open file, section, table of settings | create, load, get, getstr, destroy | section carried from line to line; a put that fails | htab |
| hashtable | chains in the client's nodes, prime sizes, counters | insert, remove, search, traverse, init, free | rehash in place; refused inserts | |
| rbtree | nodes with parent, colour, two children | insert, delete, search, min, max, successor, predecessor, destroy | fixup loops | |
| tree | nodes of an unbalanced search tree | insert, delete, search | items change nodes; equal keys | |
| conn | descriptor, its mode, the bytes under way | open, peer, cycle, check, read, write | descriptors on failing paths; partial transfers, signals, timeouts, close and reset | util |
| mxml | nodes with five links each | new, add, remove, delete, walk, find, load, save | order of the links' updates; walks that climb | |
| cJSON | items with links, names, texts | create, add, refer, detach, insert, replace, duplicate, delete, parse, print | who owns an item, a name, a text; memory that fails half way; sizes of the printer | |
| adlist, generic_list, arraylist | lists and an array | add, remove, move, search, iterate, copy | deletion under an iterator; growing and shrinking | |
| sds | length and spare room in front of the bytes | new, append, assign, trim, range, split | room kept apart from the memory it describes | |
| ssort | none | four sorts of a client's array | indices that close in on each other | |
| md5, sha1, sha256 | a buffer, counters of bits | init, update, final | pieces that end anywhere in a block; widths of words | |
| uuid, times, tlv, base64 | a clock's last reading | stamps, encoding | | |
| util, log, error | none | wrappers of the system, messages | | |

What makes each component correct:

- pqueue, stack: whatever the interleaving, the calls act as those of a FIFO or
  LIFO, nodes are neither lost nor handed out twice, and the lock comes back.
- slist: the same for its list while its users keep to what it supports.
- dict, htab: calls act as on a map, whatever sizes the table goes through and
  whichever allocation fails; an iteration returns each entry once.
- conf: what is asked for is the last value the file gave it, in its section.
- hashtable, rbtree, tree: calls act as on a set of nodes with keys; the structure's
  own shape (chains, order, colours, links) holds after every step.
- conn: an open keeps no descriptor on any path that fails, and a cycle ends when there
  is a peer; success means the whole buffer, time is bounded, the mode of the socket
  comes back.
- mxml: five links per node agree with one ordered tree, and walks follow it.
- cJSON: each block is freed once, whichever allocation fails; a parse builds what it
  read; what the printer writes fits.
- adlist, generic_list, arraylist, ssort, sds: calls act as on sequences, and the
  memory is what the lengths say.
- digests: what is transformed is the message padded, however it comes in pieces.

## Modules

Eight abstract specifications say what components promise. Each has, in a variable
(`call`, or the program counters of the threads for the first two), the last call with its
arguments and its result, and says what a call with these arguments does and answers. An
implementation that changes another key, node, item or place than the call names, answers
wrongly, or fails where nothing is in the way does not refine it. `ForestSpec` alone has
no answers: its calls return nothing, and which node a remove or a delete acts on is the
implementation's word.

| abstract | promise | implemented by |
|---|---|---|
| `FifoSpec` | bounded FIFO with calls of several threads: an add or a get takes effect at one instant between call and return | `PQueue` |
| `LifoSpec` | the same for a stack | `Stack` |
| `MapSpec` | keys to values: what a call on a key changes, answers, and when it may fail | `Dict`, `HTab` |
| `KeyedSetSpec` | a set of nodes with keys, unique or not; an insert says whether there was room, and is refused for want of it or for a key that is there only | `HashTable`, `RBTree`, `Tree` |
| `ForestSpec` | ordered trees of nodes that are made, moved, freed and loaded | `Mxml` |
| `ItemSpec` | ordered trees; a call acts on the items it names, and one that has none to return leaves nothing behind | `CJson` |
| `ListSpec` | sequences, with an iteration that returns what was there | `ADList`, `GenericList`, `ArrayList`, `SSort` |
| `StringSpec` | a text; what each call makes of it, and where it splits | `Sds` |

Detailed modules:

- **PQueue** (`pqueue.c`). Variables are the fields of `struct pqueue_s`, a
  program counter per thread and who has which node. Each memory access another
  thread could see is an action: `AddStore`, `AddTop`, `AddReturn` are the lines
  of `pqueue_addone`, `GetRead`, `GetTail`, `GetReturn` those of
  `pqueue_getone`. `PQueueInit` and `PQueueFree` keep the loops' starting point
  and their missing wrap.
- **Stack** (`stack.c`). As above; `nodecount--` after the unlock is a load and
  a store, as in the unoptimised build of `Makefile:20`. Chains are real links in
  the clients' nodes.
- **SList** (`slist.c`). A call takes the lock and does its work on the links in one step
  and unlocks in another; the counter is apart. Links may become a cycle: a walk over one
  (`GoesRound`) holds the lock for ever, a sort of one (`SortOverflows`) and a node freed twice
  end the program. Freed memory keeps what it held and may be handed out again while `head`
  or `tail` still points to it. `Programs` says which operations each client's threads call, so one run
  covers clients who may call everything and clients for whom exactness can be
  asked.
- **Dict** (`dict.c`). Buckets are sequences of keys. Expansion keeps the order in
  which entries are moved. `MaxSize` is the largest table that can be had: `_dictAlloc` takes an
  `int` of bytes, so that there is none beyond 2^27 buckets, and a growth past that clears
  what was not allocated and crashes (`GrowthFails`). The narrower types of `dict.c`, `int
  minimal` in `dictResize` and the signed comparison in `dictNext`, have room for sizes to
  2^31 and make no difference below 2^27. Iterator, random probe and deletes interleave.
- **HTab** (`htab.c`). Entries are cells with `prev` and `next`; both allocation
  failures of `htab_put` are actions; `htab_begin` and `htab_next` are the
  loop of the macro `htab_foreach`, between whose steps every other call may come.
- **Conf** (`conf.c`) extends HTab: a line of the file is an action, and a setting is
  `htab_put` itself with its growth and its failures. `said` remembers what the file
  last gave each setting, which the table must agree with. `Lower` stands for `strlower`.
  A line for which memory fails unseen, or whose words are longer than the fixed buffers,
  ends the program (`LineCrashes`).
- **HashTable** (`hashtable.c`). The in-place rehash goes bucket by bucket as the loop
  does (`After`, a recursive function): the nodes that stay keep their order, the others go
  one by one to the front of their bucket, where the loop may meet them again (`Sift`).
- **RBTree** (`rbtree.c`). Inserting and deleting take as many steps as their
  fixup loops have iterations (`job` is the loop's state), so invariants are
  checked in the middle of a fixup. Mirror-image branches are one definition with
  a side as a parameter.
- **Tree** (`tree.c`). An item and the node that holds it are two things, because a
  delete copies its predecessor's item. `BinaryTrees` has what Tree and RBTree share: a
  loop that follows links, and the order of the nodes. The mallocs of `insert2` and
  `dup_node`, whose failure nobody looks for, succeed here.
- **ConnOpen** (`conn.c`, opening). One system call is one step, each may fail, and the
  other side comes up and goes down between them. `conn_cycle` is `conn_peer` with a
  sleep in place of the error. Another thread uses and closes what was returned.
- **Conn** (`conn.c`, transfers, with what they use of `util.c`). A writer and a reader
  on the two ends of a stream; each iteration of a transfer loop is select followed
  by a transfer, either of which may be interrupted, cut short or fail, with ETIMEDOUT too
  where the system has given the peer up. `Narrow` is the conversion to `int` of the counts
  and lengths that `conn_read` and `conn_write` compare; `by` remembers what set errno.
- **Mxml** (`mxml.c`). The five links of `struct mxml_node_s`; the loader takes a token
  at a time; `WalkNext`, `WalkPrev` and `FindElement` are operators over the links.
- **CJson** (`cJSON.c`). Items with their links and flags; who allocated a name (`own`) and
  a text (`text` is the item that did). `malloc` may fail at each place, so that a copy
  or an array is given up after any number of items. The parser takes a token a step.
  `mine` remembers the items the client was given and has not handed on, `misfreed` a free of
  what is no block of the library's; `served` is the last call.
  The printer is a sequence of pieces, each with the room it asks `ensure` for and the
  characters it writes.
- **ADList**, **GenericList**, **ArrayList**, **SSort** (`adlist.c`, `generic_list.h`,
  `arraylist.c`, `ssort.c`). Links are changed field by field as in the code. `due`
  remembers what an iteration has yet to return while its user deletes what it was given.
  `listDup` may run out of memory at any node (`DupFails`) and then releases what it has.
  `ended` is the end of the program: an iterator that `listDup` or `listSearchKey` did not
  get (`NoIterator`), an add of arraylist that finds no memory and exits, a call on the null
  pointer that a failed `realloc` of arraylist left (`Null`, `Ends`).
- **Sds** (`sds.c`). The header and the buffer as far as it is allocated; bytes no one
  wrote are `None`, so that a string that shows one is seen. A text that `sdscpylen` writes
  past the buffer (`Overrun`) ends what the model says.
- **Digest** (`md5.c`, `sha1.c`, `sha256.c`). Buffer, counters and padding; a block is
  what the transform is given, bits are not told apart.

Modules that share nothing are checked by one run where they answer one question:
`MCQueues`, `MCLoops`, `MCSets`, `MCDocuments` and `MCSequences` instantiate several, and a
client uses one of them (`use`) while the others stay as they were created. `MCConf`
has a client of the table or of the settings file above it, and `MCDocuments` adds one of
JSON items.

A definition `X_Y` is a slip one could make in `X`. The specification does not
use it: put in the place of `X`, it breaks the property `PROJECT.json` names, which
shows that the run would have noticed.

## Runs and bounds

Eight runs pass, four show a disagreement. The passing ones explore their whole state space.

| run | what it asks | bounds, and why they are enough |
|---|---|---|
| `Queues` | PQueue: FIFO refinement, one place per node, count, lock, no deadlock. Stack: LIFO refinement, chain equals stack | 2 threads, 3 nodes, 3 slots: the ring wraps, is full with 2 and is contended; two pops and a push overlap, and the stack's count drifts |
| `SList` | lock, exact list, sort | 3 nodes, two equal; a counter to 3; six kinds of clients, among them two threads whose removes race until links form cycles; head, middle and last differ |
| `Dict` | map refinement, used, buckets, iteration | 5 keys in tables of 1, 2, 4: grows twice and cannot grow for the fifth at its limit of 4 (2^27 in the code) |
| `Documents` | HTab: map refinement, double links, foreach. Conf: what the file says. CJson: item refinement, blocks and links, text, sizes | 4 keys, 3 cells, sizes 1, 2, 4; all keys collide at first and split later; two spellings of a section and a name, settings before any section; 4 items, one name, one reference, one literal: a copy of depth three, arrays of two |
| `Sets` | Tree and HashTable: set refinement, shape, loops that count down | 5 items, two keys twice; 4 nodes, sizes 2, 3, 5: nodes move ahead of and behind the rehash; counter to 6 |
| `Loops` | RBTree: set refinement, colours, fixups end. ConnOpen: descriptors, cycles end | 8 keys: trees of height four, every case of both fixups on both sides; 3 descriptors: two kept by the client and one left |
| `Conn` | whole buffers, time, framing, return | an `int` to 2, lengths of 2 and 8 (which narrows to 2), a socket buffer of 1, two writes, one signal |
| `Sequences` | Mxml: forest refinement, links, walks. Containers, sort and string: refinement, shape. Digest: blocks | 3 elements, 2 values, two of one name; 4 nodes and an iterator; 3 entries, 2 heads; a copy given up at each node; arrays to 6, sorts of 5 of 4 numbers; strings of 5; messages of 9 in blocks of 4: every remainder, a length of two words |
| `SList_search_returns` | see Disagreements | a client that appends and searches |
| `SList_remove_returns` | see Disagreements | two threads that remove, one of which appends; 2 nodes |
| `Mxml_load_returns` | see Disagreements | the instance of Mxml in `Sequences` |
| `Digest_counts_bits` | see Disagreements | words of 6 bits for 32, a piece of 9 bytes for one of 2^29 |

Bounds in guards: `MaxCount` of HashTable (the counter drifts upwards without
end), `MaxBytes`, `MaxCalls` and `MaxSignals` of Conn; `MaxLen`, `MaxRefs`, `MaxLiterals`,
`MaxBeside` of CJson; `MaxSize` of ArrayList, `MaxLen` of SSort and Sds, `MaxMsg` of Digest;
`CountMod` is the width of the counters of Stack and SList. Deadlock is not checked
where a process really may stop: after a trap, an exit, a null pointer or a double free
(PQueue, Stack, SList, Dict, Conf, Mxml, ADList, ArrayList, Sds), when a list is freed or its
lock is kept (SList), when both ends are done (Conn), when a message is closed (Digest).

Symmetry is used in `Dict` (the values) and `Documents` (the JSON items), whose properties
are about states and steps. `Dict`, `Documents`, `Sets`, `Loops` and `Sequences` have a view
that leaves out the variables for the last call and its answer: no step reads them, and a property of a step is checked on each step
that is generated, so nothing is missed.

What the deeper properties say:

- `ImplementsFifo`, `StackImplementsLifo`: linearizability; the refinement mapping gives the
  step at which a call takes effect. For the stack it shows that the drifting
  `nodecount` never changes what a pop returns: a pop whose count says 1
  clears `head` and then stores the successor all the same.
- `CountExact` (PQueue): `pqueue_count`, read without the lock, is off by at most the
  one operation inside it.
- `LockBalanced` (SList) is for every client that calls neither `slist_search` nor
  `slist_getone`, whatever races do to the links: a thread has the lock exactly from where its
  call takes it to where the call unlocks, or for ever in a walk that goes round a cycle.
  `ListExact`, which also says that no walk does that, is for clients whose calls cannot
  meet or who only add: where two removes race the list is lost (see below).
- `IterationExact`, `ForeachExact`: an iteration returns each entry that is there all
  along once, though its user deletes the current entry (dict), or puts and
  removes others (htab).
- `ConfExact`: a setting reads as the last line that set it, however its section and name
  are spelled and whatever the table grew to; one whose first line found no memory is missing.
- `ImplementsMap`, `TreeIsSet`, `TreeImplementsSet`, `TableImplementsSet`: each call acts on, and
  answers for, the key or node it was given, and no other. The table's also says that traverse and free of hashtable, which stop on a counter,
  reach every node; the tree's that no delete loses another item than its own.
- `RedBlackButOne`: in every state of a fixup, red-black but for the node the loop
  is at. Black heights are compared as sets of path sums. Between calls,
  `rbtree_successor` and `rbtree_predecessor` give the order of the keys.
- `DescriptorsKept`: the open descriptors are those the client holds and the one of the
  call in progress, whichever system call failed. `CycleReturns` rests on it: a try that
  kept its descriptor would leave none.
- `WaitBounded`, `CallReturns`: one timeout for the whole transfer, however many
  pieces and signals; a timeout is told only when the time is over or when the transfer
  itself failed with ETIMEDOUT, never for an errno left over, and the socket's mode comes
  back. This, `SuccessMeansAll` and `Framed` speak of lengths that `int` holds (see
  Disagreements).
- `Framed`: clients that agree on a length and stop at a failure read whole
  messages, though a write may fail half way.
- `WalksInOrder`: from every node, `mxmlWalkNext` is the next and `mxmlWalkPrev` the
  previous of a preorder walk of its top's subtree, and `mxmlFindElement` the first
  of that name; for tops that have children.
- `NothingLost`: no string dropped, none freed twice, none freed that is not the library's,
  siblings doubly linked, and every item without an owner one the client holds or that
  of the parse, so that a copy, an array or a text given up for want of memory has freed all it made.
  `ImplementsItems` says of the same calls that one with no item to return has changed none. `TextKept`: a parse returns the tree that prints as the tokens it read.
  `PrintFits`: with a buffer of whatever first size nothing is written past what `ensure`
  gave, and each move of the offset finds the zero it looks for.
- `ContainersAreSequences`: moves and replacements of entries, a walk whose body deletes or
  moves the entry it is at, each as on a sequence; a copy given up at any node leaves both lists
  as they were, and with `ContainersIntact` has released its nodes. An array whose `realloc`
  failed, and a string written past its buffer, are exempt from there on.
- `BlocksSpellMessage`: RFC 1321's and FIPS 180's padding, for every remainder and
  every way of cutting the message, whatever the buffer held before.

### Fairness

- PQueue: weak fairness of each thread's next step. A thread that has called keeps
  running; no thread is promised the lock (spin locks are not fair), and
  `NoDeadlock` asks only that one of the waiters gets it.
- SList: strong fairness per thread, so that a waiter is not passed over for ever.
  This is more than a spin lock promises and is assumed for the one
  counterexample: even so a call does not return.
- RBTree: weak fairness of the fixup loop, which is one thread that runs.
- ConnOpen: weak fairness of the thread's own steps and of a refusal; strong fairness of
  an acceptance, since a try may be interrupted before it and repeated: signals do not
  hit every try of a side that stays up; and of `socket`, which may fail at any time but not
  for ever while there are descriptors. `CycleReturns` supposes the side up for good
  and a descriptor left.
- Conn: weak fairness of each loop: a process that can run runs and time passes; signals
  are finitely many (`MaxSignals`), since a call interrupted for ever never returns and
  the code does not claim it.
- The others check safety and state no fairness.

## What is proved

Each theorem below holds for every value of the constants that meets the module's
assumptions: any threads, nodes, keys, hash functions, sizes. In each proof `IInv` is the
inductive invariant: an initial state has it, every step keeps it (one lemma or step per
action), and it implies the property. None of the properties is inductive alone; what had
to be added says why the code works.

**PQueue** (`QueuesProofs`): `TypeCorrect`, `LockIsExclusive`, `CountIsExact`,
`NodesHaveOnePlace`, `RefinesFifo`. That `len` stays in range follows from its being the
number of used slots (`CountExact`) and from the empty slot that `CallsSound` promises to a
thread past its test; that a `get` hands out a node follows from `SlotsSound`, all slots
between tail and top hold nodes. `CallsSound` also ties the local variable of a call to the
slot it works on, which the refinement needs: the abstract get takes effect when `tail`
moves, one step after the slot was read. For `NodesHaveOnePlace`, `PlacesInv` says that no
node has two of the places a node can be in, and each has one. Assumed: create refuses 0
(`MaxLenAssumption`), and `None` and the zeroed lock word are no thread and no node.

**Stack** (`QueuesProofs`, of the module's own specification and, in the last two, of the
composition the run checks): `StackTypeCorrect`, `ChainIsStack`, `StackNodesHavePlaces`,
`RefinesLifo`, `StackIsKept`, `StackIsLifo`. The invariant is `StackInv`. The links spell the history variable `stacked`; between the two stores of a pop `head` is what it was
or null (`HeadSound`), and only the holder of the lock can see that. The counter does not
occur in the invariant but for its range: that it drifts cannot matter.

**SList** (`SListProofs`): `LockIsBalanced` for every client that calls neither search nor
getone, and every race, cycles and reused memory included; `ListIsExact`
and `SortIsRight` for clients whose calls do not meet, or only add. `LockBalanced` needs to
know of each program counter whether the call holds the lock. `ListIsExact` rests on `Exact`: the
links spell the list, the tail, the nodes in use and the counter agree with it but for the
one call that has yet to count. `SortIsRight` is about `slist_sort_internal` for any length:
its recursion is a recursive function on sequences, shown to return the same nodes in order.
Assumed: nodes are finitely many and fewer than the counter can count, keys are numbers.

**Dict** (`DictProofs`): `EntriesWellPlaced`, `IterationIsExact`, `RefinesMap`. `DataSound`
keeps each key in the bucket its hash calls for, once, while `_dictExpand` moves entry by
entry to the front of their new buckets; `IterSound` says what the iterator has yet to
return: the rest of its chain from the successor it remembered and all buckets behind,
although the entry it is at may be gone. Assumed: finitely many keys, both sizes powers of two,
at most 2^31; the run's `MaxSize` stands for 2^27, see the module.

**HTab** (`HTabProofs`): `ChainsStayLinked`, `ForeachIsExact`, `TableRefinesMap`. `TableInv` says
that there is, for each bucket, a sequence of entries that the pointers from it spell both
ways (`Linked`), that these sequences have every allocated entry once and where its hash calls
for it, and that no key is there twice. The sequences are not in the model: they are the
witness with which each change of pointers is followed. `PushIs` and `UnlinkIs` say what
the two changes of pointers do to them, `RehashedIs` follows `htab_resize` entry by entry,
`FoundIs` shows that the search finds the entry with the key. `IterSound` says that what
`htab_foreach` has yet to reach comes later than where it is, in its chain or in a later bucket,
and that what comes later was either there when it began or put since: a put is in front
of its chain, and a removal disturbs no order among the rest (`SameOrder`). Assumed: cells are
finitely many, `None` is no key, value or cell, the initial size is not 0.

**Conf** (`HTabProofs`): `FileIsExact`, for any sections, names and spellings. `ConfInv` has, besides
the property, that what the file said is of settings and that a client of the table has no
file. That the table is a map (`PutIs`) and that two settings have two keys carry it through
growth and failure. Assumed, in `ConfAssumption`: the key of a setting tells its section and name
apart (no colon in either, see Disagreements), and lower case leaves "(null)" as it is.

**HashTable** (`SetsProofs`): `NodesWellPlaced`, `CallsAreThoseOfASet`. The rehash in
place is the heart: `Halfway` says that after m buckets the table has the nodes it had, each
once, and that the buckets the loop has passed, or has added, hold only nodes that belong
there; a node moved ahead of the loop is met again and then stays, one moved behind it is
already home. With `Halfway` after the last bucket, every node is where a search looks. That
traverse and free, which stop at a count, reach every node needs `nodecount` to be no less
than what the table holds: the invariant has it equal to nodes plus refusals. Assumed:
finitely many nodes, the table of primes grows.

**ConnOpen** (`LoopsProofs`): `NoDescriptorLost`. Inductive with what each program
counter says of the descriptor of the call: there is none before socket() and after the close
of a failure, and in between it is open, and in the mode that was asked for. Assumed:
descriptors are finitely many.

**Tree** (`SetsProofs`): `TreeKeepsItsShape`, `TreeRefinesSet`, and `TreeIsWellFormed`, `TreeIsASet`
of the composition the run checks. `TreeInv` says that a set of nodes hangs below each node
(`Spans`): itself and, apart from each other, those below its children; and that the keys on
each side are on that side of its key (`SortedBy`). With the sets named, no recursion over trees is
needed: a search, `_bst_predecessor` and the inorder walk are loops or recursions on a number
that the size of these sets bounds, and an insert adds one node to the sets on one path
(`Grown`), a delete takes one out (`CutOut`). Equal keys may come on either side, so that a delete
takes the first the search meets. Assumed: finitely many cells, integer keys.

**RBTree** (`LoopsProofs`): `RedBlackThroughout`, `RBTreeRefinesSet`. `RBInv` has `Spans` and
`SortedBy` as above, the parent fields as the inverse of the children's, and black heights as
numbers `bh` of the nodes, one more than those of both children where the node is black
(`Even`); a delete's loop has one path, from the job's parent on its node's side, that
counts one more, and reds meet only at the job's node. Each case of the fixups is then
local: `RotateIs` gives the links after a rotation, `RotationTurns` the sets below two nodes,
`EvenWhenTurned`, `EvenWhenFilled`, `EvenWhenBlackened`, `EvenWhenRaised` the heights. A delete with two
children is followed as two changes, the successor cut out of its place and put into the
other's (`CutIs`, `TakesOver`), though the code writes the links in one go (`SuccessorTakesOver`).
That what was taken from was black is what makes the sibling of a delete's loop exist.
Of the last two proofs the fixups' end is not part: that they end rests on fairness.
Assumed: finitely many nodes, different integer keys.

**Conn** (`ConnProofs`): `WaitsWithinTimeout`, `SuccessIsComplete`, `ReadsAreFramed`, for any
lengths, timeouts, room in the socket and number of signals. `TimeSound` has the time left and
the time waited add up to the timeout, `DoneSound` the bytes moved at their places,
`StreamSound` what is written and not read in the socket, in order; `FrameSound` that the reader
stands at a boundary between messages whenever a call begins.

**Ranking** has the lemmas several proofs share: induction over numbers stated with a set that
holds 0 and with each number the next (`Induct`), functions defined by iteration (`Iterate`),
least numbers, the numbering of a finite set's members in an order (`NestedRanks`), and binary
trees told by the sets below their nodes: what grows, is cut, turned or replaced in them.

The library's induction theorems take an operator as a parameter, which the provers here
cannot instantiate. Stated with sets, induction over numbers is within reach, and through it
recursive functions whose recursion goes down by one: `Walk`, `Merge` and `SortInternal` of
SList, `ChainFrom`, `Entries`, `Found` and `Rehashed` of HTab, `After` and `Visited` of
HashTable, `Loop` and `InorderFrom` of BinaryTrees and the sets of black counts in `RedBlackButOne`
are shown to exist and to be what they should be.

Model-checked only: liveness, and what rests on fairness (`NoDeadlock`, `CallReturns`,
`CycleReturns`, `FixupEnds`), which is out of the prover's reach; and the documents, containers,
strings and digests, whose proofs are not written. CJson and Mxml recurse over trees through
operators the provers take no definition of.

## Disagreements

Shown by a run:

- **slist_search keeps the lock** (`slist.c:227`): it returns the node it finds without
  unlocking; the next call spins for ever. Run `SList_search_returns`.
- **slist_remove never returns** (`slist.c:202`): it takes the counter down after it has
  unlocked. Of two removes that overlap the second decides by the old count, and on the last
  node takes the branch for one of several: `head` stays on the freed node. When that address
  is appended again its link points to itself, and the next remove goes round for ever with
  the lock held. Run `SList_remove_returns`.
- **mxmlLoadFile leaves the tree** (`mxml.c:635`): with a given top node it climbs to the
  node below top to return it; a file that is empty, or closes all it opened, leaves it at
  top, and the climb goes past the root to a null pointer. Run `Mxml_load_returns`, whose
  trace is the empty file.
- **md5's words are not of 32 bits** (`md5.h:43`): `UINT4` is `unsigned long int`, 64 bits
  where a long has them, though the comment above says "a 32 bit type". `MD5Update` then
  counts the bits of a long piece in both words. Run `Digest_counts_bits`. The same width
  makes `ROTATE_LEFT` (`md5.c:57`) shift bits instead of rotating them, so that there
  every digest differs from RFC 1321's. The other properties of Digest are
  checked with words of 32 bits.

Modelled as the code has them, and excluded by name in the properties they would break:

- pqueue: `pqueue_init` clears `maxlen` too, so the next add divides by zero
  (`pqueue.c:48`); init and free walk from `top` rather than `tail` and do not wrap
  (`pqueue.c:58`); a ring of n holds n - 1.
- stack: `nodecount` drifts (`stack.c:148`); popping an empty stack dereferences null
  with the lock held, though `stack.c:132` says "If the stack is empty, or data is NULL,
  always fail" (`PopEmpty`); pushing on an empty stack keeps the node's old link
  (`stack.c:117`), so clients clear it; `stack_top` reads head after it unlocks (`stack.c:105`).
- slist: of two removes that overlap the second may see a count of one too many or, where an
  add fell between a load of the counter and its store, one too few, and drop the list (`slist.c:202`, see also above); `tail` is stale after a sort (`slist.c:328`);
  `slist_getone` keeps the lock and refuses the last index (`slist.c:257`, `265`).
- dict: a full table of 2^27 buckets cannot double: the bytes of the next do not fit the `int`
  of `_dictAlloc`, and `dictExpand` clears what it did not get (`dict.c:143`); deleting another entry than the current one while iterating may leave the
  iterator on freed memory (`dict.c:335`).
- htab: `htab_remove` hashes the caller's key after the delete callback may have freed it
  (`htab.c:190`); clients pass keys of their own.
- conf: memory for a line's words is not looked at and they are copied into buffers of a
  fixed size (`conf.c:100`, `LineCrashes`); nobody looks at what `htab_put` returns, and `conf_load` always returns 0 (`conf.c:121`);
  keys before any section are kept under "(null):key"; a section line with text after its
  bracket is no section line.
- hashtable: `nodecount` exceeds the contents after refused inserts (`hashtable.c:170`); a
  traverse callback that removes its node is not supported (`hashtable.c:261`).
- tree: a delete frees the node of another key than the one deleted (`tree.c:262`).
- conn: counts and lengths are compared as `int` (`conn.c:248`), so that a shorter transfer of a
  length beyond it may be reported as `SUCCESS`, where the two differ by a multiple of 2^32, and a whole one as
  `PEERCLOSE`; a transfer of length 0 comes back as `PEERCLOSE` (`conn.c:244`); two writers on
  one socket may leave it in the other's mode (`conn.c:295`), so there is one; bytes
  moved before a failure are not reported; `conn_check` answers 0 while a connect is in
  progress and tells an error once; `conn_cycle` does not end when no descriptor is left.
- mxml: from a top without children a walk goes to the top's own siblings
  (`mxml.c:1712`); a closing tag with nothing open uses a null node in its error message
  (`mxml.c:424`).
- cJSON: an item named by a literal and then copied, referred to or renamed leaks its new
  name or frees the literal (`cJSON.c:682`, `686`, `731`), and `cJSON_ReplaceItemInObject`
  overwrites the new item's name (`cJSON.c:703`): clients do neither (`Plain`; `Careful = FALSE`
  lets them and `NothingLost` fails).
- ssort: `quick_sort` of an empty array reads outside it; clients do not ask.
- arraylist: whether `realloc` failed is not looked at; the objects are lost, a remove says
  TRUE, and the next call that needs one follows a null pointer (`arraylist.c:97`, `144`).
- adlist: `listDup` and `listSearchKey` do not look whether they got an iterator (`adlist.c:194`, `231`).
- sds: `sdssplitlen` makes one empty part of an empty string (`sds.c:283`), where its comment
  promises NULL for a "zero length string" (`sds.c:264`): `StringSpec` says what the code does;
  `sdscpylen` asks for the room beyond what it has, but what is spare is compared with that,
  so that a long text may not fit and is written past the end (`sds.c:147`, `Overrun`); `sdsrange` with a
  start past the end keeps the last character.

Met on the way and outside the models: `CONN_REUSE` is 0, so that no socket is made
reusable; `conf_create` leaks the name and the open file when the table cannot be made, and
`conf_load` its section; "a:b" with "c" is the same setting as "a" with "b:c"; `strtrip` takes
inner blanks with it; `dictReplace` frees the old value before it copies the new
(`dict.c:215`) and `dictGetRandomKey` does not end on a table with buckets and no entry
(`dict.c:359`); `listDup`, with a free method and no dup method,
frees the original's values when a copy fails; `sdscatprintf` reads its arguments again on
the second try (`sds.c:177`); `sha256_update` counts in 32 bits, so that a piece of 4 GiB
never ends (`sha256.c:101`); `base64_decode` counts newlines differently with and without a
result; `tlv_node_decode` compares eight bits of the length only (`tlv.c:36`); in uuid,
`UUIDS_PER_TICK` is not the clock's resolution, so that stamps may repeat and
the random clock sequence alone tells the uuids apart.

## Assumptions

Clients clear the link of a node they push; init, free and destroy are called when no
other call is under way; memory freed in a race of slist keeps its
contents until malloc hands it out again; clients of htab do not remove the entry they are at and
do not make the table grow while they iterate; mxml's clients give children to elements
only and never put a node below or beside itself; cJSON's make no cycle and delete nothing
a reference still shows; an iteration of adlist deletes only what it was given last; an entry
of generic_list is in one list at a time. In Conn, select takes the time it
waited off the timeout (Linux), SIGPIPE is ignored, spurious readiness and failures of
fcntl are left out.

## Not modelled

Printing and saving except cJSON's sizes; key and value copies of dict; the dup, free and
match methods of adlist; the attributes and characters of mxml; escapes and numbers of
cJSON; `sdscmp` and the buffer loop of `sdscatprintf`; the transforms of the digests bit by
bit. Of the components without a module, uuid, tlv and base64 keep no state that calls could
get wrong beyond what is said above, times, util, log and error wrap the system or
hold messages, and the database demos are programs of their own around client libraries.

## Plan

Done: the model of every component of the inventory that is not left out above, its runs, and
the proofs of the queues, lists, tables, trees and the connection listed above.

To be proved next, the most telling first:

1. `ArrayList` and `Sds`: no call outside the block, the room that is promised.
2. CJson and Mxml: the links of siblings and parents, then the trees as was done for RBTree.

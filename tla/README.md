# xdpacket: a TLA+ model

xdpacket is a user-space packet switch for Linux.  A user feeds it YAML documents, over
stdin or a TCP socket, that define *fields* (extents of a packet), *rules* (operations to
match and to write), *interfaces* (raw sockets) and *processes* (which rules an interface's
packets are tried against, and where the packets that match go).  One thread serves
everything from one `epoll` loop.

This directory holds a model of it in TLA+.  TLC checks it on small instances, and TLAPS proves its safety
properties for instances of any size.

## 1. The system

| component | source | state | operations |
|---|---|---|---|
| fields | `src/field.c` | `field_JS`: name -> extent, count | `field_parse` (add, delete, print), `field_get`, `field_release` |
| states, values | `src/memref.c` | `state_JS`: name -> buffer, extent, count; values have no name | `memref_state_get`, `memref_value_new`, `memref_release` |
| operations | `src/operations.c` | heap of `struct op` | `op_new`, `op_free`; `op_match`, `op_write` on packets |
| rules | `src/rule.c` | `rule_JS`: name -> two queues of operations, count | `rule_parse`, `rule_new`, `rule_free`, `rule_get`, `rule_release` |
| routs | `src/rout.c` | heap of (rule, output), with a packed `rout_set` | `rout_new`, `rout_free`; `rout_set_match`, `rout_set_exec` on packets |
| processes | `src/process.c` | `process_JS`: input interface -> queue of routs | `process_parse`, `process_new`, `process_free`; `process_exec` on packets |
| interfaces | `src/iface.c` | `iface_JS`: name -> socket, handler, count | `iface_parse`, `iface_new`, `iface_free`, handler registration, `iface_callback`, `iface_output` |
| checksums | `src/checksums.c` | none | `checksum` |
| values | `src/value.c` | none | `value_parse`, `value_render` |
| stream parser | `src/parse2.c` | a buffer per connection | `parse_callback`, `parse`, `parse_mapping` |
| main | `src/xdpacket.c` | listening sockets, the loop | `netsock`, `netsock_callback`, `main` |
| name tables | `include/judyutils.h` | Judy arrays | insert, get, delete, enqueue, loops |

How they meet:

* `main` waits in epoll_track; a readable stream runs `parse_callback`, a readable raw socket
  runs `iface_callback`.  Either runs to its end before the next event: there are no threads.
* A directive goes from `parse_mapping` to the `*_parse` function of its subsystem.  Rules
  build operations, which take counted references on fields and states.  Processes build
  routs, which take counted references on rules and on output interfaces, and register
  themselves with a counted reference on their input interface.
* The packet path uses none of the names: `iface.context` is the queue of `rout_set`s, a
  `rout_set` holds the two queues of its rule, an operation holds copies of its fields' extents
  and pointers into state buffers.  Only the counts keep all of that allocated and current.
* epoll_track owns sockets and streams: a callback that returns non-zero, or `eptk_remove()`,
  makes it run the destructor it was given (`iface_free`, `parse_free`).

What is hard here is not concurrency but *sequences*: a directive is many small acquisitions,
any of which can fail half way, and the copies the packet path uses stay right only as long as
every refusal and every rollback is right.  The world outside is concurrent: clients write, connect and
hang up between any two steps of a callback, system calls fail, descriptor numbers are used again.  PROJECT.json lists these hazards by line.

What makes each component correct:

* **fields, states, operations**: counts equal the pointers there are; no pointer dangles; a
  shared state has one shape; the copied extents are those of the live fields.
* **rules, routs, processes, interfaces**: counts as above; what a packet can reach is allocated,
  whole and current; what is in use is neither deleted nor replaced; a directive that fails leaves
  nothing behind; an interface that is listed can receive; shutdown finds every count at zero.
* **packet path**: the first rout that matches decides; only the destination of a write changes, and to what the source
  was before it; a packet whose writes fail is not output; fields beyond the packet do not match.
* **stream parser**: the buffer holds what is read and no more; documents are neither split (but at an empty line, see
  `ParseBuffer`), nor lost, nor handed on twice; the thread never waits for one client.
  Every directive of a document is executed once, its errors are answered, and a client that waits for
  its answers has every document loaded.
* **main, descriptors**: no structure holds a descriptor number that has become another's; whatever fails,
  none is lost while serving, and at the end all are closed but those of interfaces whose references were leaked; nobody who
  connects waits for ever, and nobody connected is cut off because of another, unless the program is killed.
* **checksums**: nothing outside the frame is summed; the accumulator holds; a receiver accepts what was
  computed; nothing else of the frame changes; a second pass changes nothing.
* **values**: a number is taken exactly when it fits and is then that number on the wire; no byte is undefined;
  hex digits are the same bytes whether they are read as a number or as a series of digits.

## 2. The modules

| module | models | kind |
|---|---|---|
| `Operands` | field.c, memref.c, op_new/op_free of operations.c | component |
| `Ruleset` | rule.c, rout.c, process.c, iface.c, main's life, on top of `Operands` | composition |
| `Catalog` | what the control interface promises | abstract specification |
| `PacketOps` | op_match, op_write on bytes | operators |
| `PacketEngine` | iface_callback, process_exec, rout_set_match, rout_set_exec, iface_output | component |
| `Switch` | what a process promises of a packet | abstract specification |
| `ParseBuffer` | parse_callback and the client at the other end | component |
| `Repl` | what a client of the control interface is promised | abstract specification |
| `Session` | parse and parse_mapping, on top of `ParseBuffer` | composition |
| `Descriptors` | main, netsock, netsock_callback, and who opens and closes what in parse2.c and iface.c | composition |
| `Checksum` | checksums.c | component |
| `Value` | value.c, as memref_value_new uses it | component |
| `CatalogProofs`, `RulesetProofs`, `PacketProofs`, `SessionProofs`, `ChecksumProofs`, `ValueProofs`, `DescriptorsProofs` | | theorems |
| `Induction` | | lemmas on numbers and sequences for the above |
| `MCOperands`, `MCRuleset`, `MCPacketEngine`, `MCSession`, `MCDescriptors`, `MCChecksum`, `MCValue` | | instances for TLC |

### Operands

`field`, `state` and `op` are partial functions whose domain is what is allocated.  `at`, `cur`
and `args` are the program counter, `ret` and the parameters of the one `op_new()` that may be under way:

| action | code |
|---|---|
| `FieldAdd`, `FieldDel` | `field_new`, and `field_parse` in delete mode with its count check |
| `OpNew` | argument checks and `calloc` of `op_new` |
| `GetDstField`, `GetSrcField`, `GetDst` | the next reference, had |
| `OpNewReturn` | the last reference and the encoded form, returned |
| `OpNewDie` | any reference that cannot be had: `op_free` of the half-made operation |
| `OpFree` | `op_free` by the rule that owns it |

`XDPACKET_DISALLOW_CLOBBER` is defined in `xdpacket.h`, so the branches that replace an existing
object are compiled out and not modelled.  A field's extent is its offset and one opaque
`Shape`, its length and mask, because `memref_state_eq` compares those and nothing else.  Values
are `good` or `bad`.  `LongName` are the names that do not fit `MAXLINELEN`: `nstralloc` reports
them and creation fails.

### Ruleset

`pc` is `loop` between events, and otherwise the function at work.  A directive that builds or
releases several objects takes one step per object, so that failures and rollbacks part way are
behaviours; nothing else runs in between, as in the program.  `queue` is the parser's local
`match_JQ`, `write_JQ` and `rout_JQ`, `left` what remains of queues being released.

| actions | code |
|---|---|
| `RuleBegin`, `OpItem`, `OpItemRefused`, `OpItemStep` | `rule_parse`, item by item |
| `RuleNew`, `RuleNewDie`, `RuleDel`, `ReleaseOp`, `Released` | `rule_new`, `rule_free`, `rule_release_refs` |
| `ProcessBegin`, `RoutItem`, `RoutItemDie` | `process_parse`, `rout_new` |
| `ProcessNew`, `ProcessNewDie`, `ProcessDel`, `ProcessNop`, `ReleaseRout` | `process_new`, `process_free`, `process_release_refs` |
| `IfaceAdd`, `IfaceDel`, `RecvError` | `iface_parse`, `iface_callback` when `recvfrom` fails |
| `Malformed` | the `NB_die` on a member that is neither scalar nor sequence |
| `Kill`, `DieProcess`, `DieRule`, `DieField`, `DieIface` | the end of `main` and the destructors |

`Input` says which irregular directives are fed: `malformed`, a member that is a mapping, and
`rules outside add`, a process mapping with its `rules` when it is deleted or printed.  `Fault` says
which system calls fail.  The run that verifies the counts leaves `Input` empty, since either kind leaks: `leaked_routs` shows it for
`rules outside add`, and `malformed` abandons the queues built before it (rule.c:195, process.c:189) in the same way.
`endings` feeds both.

### Catalog

Four sets and eight atomic operations with no counts and no order: a thing is deleted only if
nobody uses it.  `Ruleset` implements it (`ImplementsCatalog`) under the mapping *fields* =
names in `field`; *rules* = rule -> the fields its operations point at; *routes* = interface ->
the (rule, output) pairs of its process.

### PacketOps and PacketEngine

A byte is the set of its one bits, so that masking is intersection and TLC can use bytes of two bits.
`Where` is `op_pkt_offset`, `Located` the result of `op_common`, `OpMatch` and `OpWrite` the two
operations on a world of one packet and the buffers of states and values.  `OpWrite` keeps the order of
the code: all bytes but the last are copied, then the last is merged, reading what the copy left.
`Defined` and `Overlap` say when C gives the operation a meaning.  Where it does not, the engine
goes to the phase `undefined` and stops: nothing is claimed of what follows.

| action | code |
|---|---|
| `Receive`, `SeeOutgoing` | `iface_callback` of a frame that comes in or goes out |
| `MatchOp`, `Matched`, `Unmatched` | `rout_set_match` operation by operation; `process_exec` running out of routs |
| `WriteOp`, `WriteFails` | `rout_set_exec` operation by operation |
| `Output`, `OutputFails` | `iface_output`: sent, refused by `checksum`, or truncated by `send` |
| `Undefined` | an operation outside of what C defines |

No directive runs while a packet is handled, so the process is a constant of a behaviour.  It holds its
operations directly, which `HotPathLive` and `CachedSetCurrent` of the other modules justify; that
buffers are as long as the fields they are used with (`BuffersFit`) is `SharedStateAgrees`.
`Repaired` is what `checksum` makes of a packet before it is sent; `Checksum` says what that is.  `rst` and `pos` are the
code's two loops; `given` is history, for the refinement, and so are the counters the code does not keep.

`EvenWritesTakeSource` is about the order of copy and merge in `op_write()`: source and destination may be shifted against one
another in the same packet, and still each byte written is what the source was before the write.  It does not use `OpWrite`'s
own expression for the bytes.  Excluded are shifts by which the copy writes the very byte that is merged last.

An operation on two fields of length zero returns before it looks at the offset (operations.c:43) and so matches every
packet, where the manual has it that "a `len` of `0` simply matches whether a packet is at least `offt` long"
(man/xdpacket.md:180).  `ZeroLengthProcesses` have such operations; the model follows the code.  Between fields of different
lengths `op_common()` moves the longer of the two (operations.c:41), each side having been checked for its own: such a write changes
bytes behind its destination, the first of them without the mask that man/xdpacket.md:176 gives to the trailing byte.
`UnevenProcesses` have such operations; the properties of writes except them (`Even`).

`Switch` handles a packet in one step: the first rout whose matches all hold decides, its writes are
applied in order until one cannot be, memory keeps what was written, and the packet is output only if
all were.  `PacketEngine` implements it (`ImplementsSwitch`); while a packet is under way the
mapping shows memory and counters as they were on its arrival.

### ParseBuffer

One connection: `sent` and `wire` are the client and the kernel, `buf`, `buf_len` the code's buffer,
`parsed` and `dropped` what became of the text.  The client writes any number of characters at any time,
between two reads of one callback too, and hangs up when it likes.

| action | code |
|---|---|
| `Send`, `Hangup` | the client (external) |
| `Callback` | `epoll_wait`, level-triggered |
| `Extend`, `Exceeds` | the top of the read loop: room for one more read, or the limit |
| `Read`, `ReadNothing`, `ReadEnd` | `read` returning data, -1 and 0 |
| `Incomplete`, `Parse` | the tail of the buffer is, or is not, the end of a document |

Descriptors are taken to be non-blocking, as the comment on the read loop has it; no code in the repository makes
stdin and accepted connections so, and if epoll_track does not either, `ReadNothing` is a wait for the client.
Three dots are one character, and are only at the end of a document; what the source itself calls a false positive is left out.
Empty lines may be anywhere in a document, as they are in the manual's own examples (man/xdpacket.md:185) and in example/mdns.yaml.
A read that ends behind one makes the buffer look complete, and the document is parsed in two parts: the run
`split_document`.  So does an empty line at the beginning of a document, behind one that ended with a line of dots.
`Unbroken` are the documents without such a place.  `WholeDocuments` says that these are never split, whatever is before and
after them and however the stream is cut.  `parse()` is one step here; `Session` takes it apart.

`Repl` delivers whole documents in order, perhaps several at once, and promises that what was asked is
delivered as long as the client stays and is not in the middle of a document.  `ParseBuffer` implements it
(`ImplementsRepl`): *asked* are the documents sent in full, *delivered* those whose end has been handed to `parse()`;
a client that overruns the buffer, or has a document cut at an empty line, is given up.  Delivered is not executed; that is the subject of `Session`.

### Session

`Session` extends `ParseBuffer`: where that has one step `Parse`, a session loads the text and works through it.
`Tree` says what is in a document: its pairs, each a mode and a list, and in each list its items.

| action | code |
|---|---|
| `Writes`, `Leaves` | the client, who may write on before it is answered (`ahead`) |
| `Buffers` | `parse_callback` between two calls of `parse` |
| `Load`, `LoadRest` | `parse`: the text is loaded, or is what remains of one that was cut or discarded |
| `NotSequence`, `NotMode`, `EnterList`, `MappingDone` | the outer loop of `parse_mapping` |
| `ItemRefused`, `Execute`, `ListDone` | its inner loop; `Execute` is a `*_parse` function, with or without errors |
| `Answer`, `AnswerLost` | the reply, written or not |

`Loads` and `Merged` are libyaml: a load ends at the first line of dots, and mappings with only blank lines between them
are one mapping.  `Loads` goes by the place in the stream: a text that does not begin where a document does is a rest, and
`LoadRest` allows it to be anything that is in a document, or nothing.  So of a text with several dotted documents only the first is executed (a TODO in parse2.c); this can
happen only to a client that writes ahead, which is what `WaitingClientServed` says.  A document that
is no mapping is ignored without an answer (`root = "other"`).  When the client is gone, `write()` raises
SIGPIPE; whether that kills the program (src/README.md:223 says it does) depends on nonlibc, so both outcomes are modelled.

### Descriptors

`table` is the kernel's table of open files, which hands out the lowest free number; `polled` is epoll_track, with what each
destructor will close; `iface` the descriptor kept in `iface_JS`; `busy` the interfaces that are referenced, and `abandoned` those
of which a rout that nobody holds any more has a reference.  The program starts with 0, 1 and 2 open.
`Fault` names the system calls that may fail for no reason of the program's, and the table may be full.

| action | code |
|---|---|
| `Boot`, `BootFails`, `Usage`, `Loop` | `main` up to the loop |
| `Netsock`, `NetsockFails` | `netsock`, one address |
| `Connect`, `Hangup` | the clients (external) |
| `Accept`, `AcceptFails` | `netsock_callback` and `parse_new` |
| `EndOfStream` | `parse_callback` returning 1, and `parse_free` |
| `AnswerLost` | the signal of an answer to a client that has hung up: the kernel closes everything |
| `IfaceNew`, `IfaceNewFails`, `IfaceListed`, `IfaceRegistered`, `IfaceUnregistered` | `iface_new` and the rest of `iface_parse` |
| `Take`, `LetGo`, `IfaceDel`, `RecvError` | `iface_get`, `iface_release`, deletion, `recvfrom` failing |
| `Abandon` | `process_parse` building routs that nobody gets (process.c:177) |
| `Kill`, `FreeAll`, `EptkFree`, `IfaceFreeAll` | the end of `main`, and the destructors |

An abandoned reference lasts to the end: `process_free_all()` does not know of it, and `iface_free()` refuses the interface in
`eptk_free()` and again in the destructor.  `AllClosed` says that these interfaces, each with its socket, are exactly what is left.
A client that hangs up before its answer ends the program (`AnswerLost`; src/README.md:223), so that `ConnectionKept` has to
except that step, and only when *another* client has hung up: one client's hangup may cost all others their connection.

When `accept()` fails, the callback returns 1 and epoll_track closes the *listening* socket: the clients that wait at it are turned
away, and nobody can connect there again until the program is restarted.  That is what the comment in `netsock()` describes
and the model follows it.  (The manual, man/xdpacket.md:28, speaks of two sockets on the loopback; the code opens those given with `-i` only.)

### Checksum

One addition of `ones_sum` is one step, on frames that are sequences of bytes.  `Refusal` keeps the order of the conditions and their
types: the segment's length wraps in 16 bits, what is left of the frame in `size_t`.  A frame shorter than the header
it claims therefore passes; if then something outside the frame would be touched, the model goes to the phase `stray` and nothing is
claimed of what follows.
`Again` is the frame coming back and being output once more.  `ReceiverAccepts` is RFC 1071 as a receiver
computes it, byte by byte in network order, and independent of the code's arithmetic.  Frames of type 0x86DD are refused as
unsupported; version 6 is reached only under the type of IPv4.

### Value

A text is its characters and, for every regular expression it matches, what the parser behind that makes of it.  A byte
has `Radix` values, so that TLC can check eight-byte numbers within its own integers.  `Parser` is the order of the attempts; `Written`
keeps the eight bytes of the stack and which of them are assigned.  A series of hex digits is a text with what either parser makes
of it, which `Typed` relates to one another.  `DigitsExact` says that for digits that fill their field the two agree.  Two things the
model follows that a reader may not expect, and that the two properties except:

* For eight bytes the two types of value.c:145-155 are the other way round, so that negative numbers are refused.
* A text of hex digits matches the expression for integers, so that for lengths of 3, 5, 6 and 7, and whenever the
  number is too large for the field, it is refused, although it should not matter how many there are (value.c:171).

`value_render()` is not modelled: the program shows its result as *bytes* beside the text that was given as *value*
(memref.c:163-169) and reads only the latter back (operations.c:208-234).

## 3. What is checked

| run | question | states |
|---|---|---|
| `operands` | Are counts exact, buffers shared soundly and copied extents current whatever fails? | 276 053 |
| `ruleset` | Does any order of directives, failing items and failing sockets make the packet path dangle, leak, or fail to shut down cleanly, and does it implement the catalog? | 510 065 |
| `endings` | With irregular directives, which leak: does every directive end, does a signal end the program, and is the catalog still implemented? | 322 209 |
| `packets` | Does handling a packet operation by operation amount to the abstract switch, and do writes stay in their destination and take the source as it was? | 20 632 |
| `leaked_routs` | Counterexample: deleting or printing a process with its rules leaks routs. | |
| `zombie_iface` | Counterexample: an interface in use whose socket fails can never be deleted. | |
| `session` | Does the buffer hold, however the stream is cut; is every document that has no empty line in it loaded whole and once, its errors answered, and who waits served? | 86 385 |
| `checksum` | Is what is summed in the frame, and does a receiver accept the result, at the limits of every length? | 21 900 |
| `descriptors` | With a table that fills up and every system call failing: is any descriptor stale, lost or left open but those of abandoned interfaces, is any client cut off by another's failure, and does anybody who connects wait for ever? | 64 759 |
| `value` | Is every byte of a value what the text says, and are digits the same bytes for either parser? | 1 861 |
| `forgotten_document` | Counterexample: a complete document of a multiple of PIPE_BUF bytes is dropped at the end of the stream. | |
| `split_document` | Counterexample: a document is parsed in two parts because a read ended at an empty line of it. | |

The type invariants `OperandsTypeOK`, `RulesetTypeOK`, `EngineTypeOK`, `ParseTypeOK` and `ChecksumTypeOK` are theorems and not repeated in the runs.  Every property of a passing run has a mutant: an operator next to the definition it replaces, with
the comment *Defect*, under which the same run must fail.

**Bounds.**  `operands`: three operations, so that two share a state while a third is half made and
fails; two fields, so that both sides of an operation may differ or coincide; two shapes, so that a
state can be refused; one usable state and one whose name is too long.  One offset: no guard reads it.
`ruleset`: two rules, routs, interfaces and operations are enough for one to be used
while another is built, rolled back or deleted; `OpRequest` holds an operation that succeeds, one that
makes or shares a state, one that fails after it took a field, and one that fails last, with a field
and a state in hand; `f2` has a name that is too long and so never exists.  `MaxItems` bounds the
items of one mapping, and `OpId` and `RoutId` the heap: when it is exhausted no further object is
begun.  `endings` uses one rule and one rout and no symmetry.

`packets`: bytes of two bits, all frames of one to three bytes over three byte values and one of four
bytes; fields at the start, at the end (negative offsets), across both, and beyond the shorter frames;
a state of two bytes and two values of one.  Processes are chosen so that rules shadow one another, a
write fails after others succeeded, source and destination overlap, touch or are shifted, and one packet stores what the next loads;
two frames are enough for that.  `UnevenProcesses` and `ZeroLengthProcesses` are part of the
passing run too: its properties say what holds in spite of them.

`session`: reads of 3 with a limit of 9, so that documents of 3 to 10 characters end before, at and after
a full read, and the longest cannot be buffered; all four ways to end a document; a document with an empty line in it before one without; every way to cut the stream.  Between them the
documents hold every kind of pair and of item, an empty list to print, one that is no mapping and one that is no YAML.

`descriptors`: descriptors 0 to 8, of which six are taken once the program runs; the address, two clients and two interfaces want
five more, so that each kind meets a full table, and the numbers of each are used again by the others.  A second address adds no
kind of step and no other state of the table; the theorems hold for any number.

`checksum`: headers of 20 and 60 bytes, segments of no, an odd and an even number of bytes, shorter than their own header, exactly as
long as the frame and one and more longer; all protocols and one unknown; four fillings; two frames made so that the
checksum comes out as zero and so that the first carry carries again.  Frames are at most 97 bytes: that the
accumulator holds for 65535 is the theorem.

`value`: bytes of four values; every text for lengths of 0 to 17 on both sides of every limit in the code; numbers at
the edges of each type of one, two and four bytes; series of digits for 1 to 17 bytes, leading zeroes among them.

**Fairness.**  The program is one thread that never waits inside a callback: `RulesetFairSpec` has weak fairness on
`Work`, `SessionSpec` on `Thread`, `Descriptors!FairSpec` on `Starting`, `IfaceAdding` and `Ending`, each the program's own steps.
For a client at a listening socket `FairSpec` has strong fairness of `Serve(c)`: it is disabled
while another callback is under way, again and again, but epoll is level-triggered and reports every descriptor that stays ready in
turn, and the kernel's backlog is first in, first out.  Nothing is assumed of the environment: directives, packets, clients, faults
and signals need never come, and a mapping holds at most `MaxItems` items.

**Deadlock** is checked in `operands` and in `descriptors`, where `Stopped` is the end of the process.  It is not checked in `Ruleset`: after
`exit` the program has stopped, and `DirectiveEnds` says that it stops nowhere else.  Nor in `PacketEngine`,
`Checksum` and `Value`, which end when their input is used up, nor in `Session`, which ends when the
client is gone or silent (`WaitingClientAnswered` says that it does not end before).

## 4. What is proved

Every invariant, action property and safety refinement that a passing run checks is a theorem for all
values of the constants, under the assumptions named in the modules.  PROJECT.json lists the theorems; here is what they rest on.

**RulesetProofs, the operands.**  `OperandsSpec => []OperandsInv`, for any set of names, offsets and shapes and any finite set
of heap addresses.  The properties of the run alone are not inductive:

* `FieldRefExact` and `StateRefExact` need `OpNewProgress`, which says what an unfinished
  `op_new()` holds at each of its steps; without it nothing says that `op_free()` gives back what was taken.
* `SharedStateAgrees` needs `UnfinishedAgrees`, the same for the destination state taken but not yet copied from.
* `CachedSetCurrent` needs `FieldRefExact`: a field with users has a positive count, so `FieldDel` is refused.

There is one lemma per action.  The core is arithmetic on cardinalities (`FreedUsers`,
`UsersCounted`): an operation that points at an object with both operands counts, and is
released, twice.  The assumptions are `FiniteHeap`, `NullIsNoName` and `ValueIsNoName`.

**RulesetProofs, the composition.**  `RulesetImplementsOperands` makes all of the above theorems about whole directives
(`RulesetOperandsSafe`).  `RulesetInv` is the inductive invariant of the rest, for any number of rules, interfaces, operations and routs:

* `RefcntExact` needs `RoutsCurrent`: a rout's rule and interface are there, and its two queues are still the rule's.  That in
  turn needs the counts, because they are what refuses the deletion; so the two are proved together.
* Nothing is freed twice because every operation and every rout is on exactly one queue: `OpsOwned` and `RoutsOwned`, which are one
  predicate `Owned` of the queues in the tables, the local queue of the function at work, and the heap.
* `NoLeak` and `CleanExit` need the converse, `NothingLost`, which holds only when no irregular directive is fed
  (`Input = {}`, the hypothesis of `NothingLeaks` and `ExitIsClean`; the run `leaked_routs` shows why).

`FiniteRouts` says that the heap is finite, without which there is nothing to count.  `RulesetImplementsCatalog` shows action by action
that a directive, however many steps it takes and wherever it fails, is one operation of `Catalog` or none: it takes
effect when its object is entered in, or removed from, its table.

**CatalogProofs.**  The catalog is always closed: processes route through rules and interfaces
that exist, rules use fields that exist.  By `RulesetImplementsCatalog` this is so in the program.

**PacketProofs**, for bytes, packets, processes and memories of any size:

* `WrittenThenMatches`: writing a field of the packet from memory through equal masks makes the same operation match.
* `EngineTypes`, `EvenOperationsDefined`: between fields of equal length every byte that is touched
  exists.  The inductive invariant `EngineInv` adds to the types that every buffer is still as long as
  the operations need, which holds because `Patch` never changes a length (`OpWriteTyped`).  The
  assumption it starts from is `BuffersFit`.
* `EngineWritesOnlyDst`: such a write changes nothing but its destination, and of the last byte only the masked bits
  (`WrittenPacket` gives the result byte by byte).
* `EngineWritesTakeSource`: and it puts there what the source was.  The copy moves what its source held, since it reads before it
  writes; the last byte of the source is still what it was unless the distance of the two operands is one that the copy covers
  (`WriteTakesSource`).
* `PacketsAccounted` (`MatchedAccounted`): the lemma on `Total` says that one counter counted up adds one to the sum.
* `EngineImplementsSwitch`.  `SwitchInv` remembers what the loops have done: `Looking`, that every rout before the one at hand has an operation
  that did not match and the operations before the one at hand did; `Writing`, that the world is what applying the first
  operations of the deciding rout gives.  With them the last step of a packet is the one step of `Switch`.

**SessionProofs**, for every `PIPE_BUF` and limit, every script of documents and every way to cut it:

* `ParseSafe`: reads and the terminating zero stay inside the buffer, and only texts within one read of the limit are discarded.  The
  arithmetic core is `OneMore`: a buffer below the limit can grow by a whole read, which is what the assertion
  `parse_buf_max_check` in parse2.h is for.
* `StreamAlwaysConserved`: what was handed on, discarded, buffered and is in the kernel is what was sent.
* `OnlyWholeDocuments`: the `Unbroken` documents are handed on in one piece.  `KeptBefore` is the argument: until something is discarded
  the texts make up the stream, so that a text that ended within a document did so at a place where the stream looks as if it had ended.
  That the *buffer* looked complete is as good (`TextLooksEnded`), although the characters before its tail may have gone with the previous
  text.  The assumption `DocumentsEnd` leaves empty lines free.
* `SessionIsParseBuffer`: every step of `Session` is one of `ParseBuffer`, or leaves its variables alone, so that these theorems carry over.
* `AnswersAlwaysTruthful`: `ToldInv` relates the error count to the items done so far, in the list at hand and in the pairs before it.
* `WaitingClientAlwaysServed`: `ServedInv` says that a client that waits has at most one document under way, so that a text is
  one document, and what is loaded are the first documents in order, as long as none was cut (`Kept`).
* `DocumentsDelivered`: a session starts and moves as `Repl` does.  That is `ImplementsRepl` without its liveness.

**ChecksumProofs**, for every set of frames.  Nothing outside the frame is summed (`SummedInFrame`) and the accumulator stays
below 2^31 (`AccumulatorHolds`).  Neither is inductive alone.  `ChecksumInv` adds `Progress`: while something is summed the frame
is `Sane`, what the checks of `Refusal` established (`AcceptedIsSane`), and stays so because writing a checksum
changes none of the bytes the layout is read from; and what was summed so far is an even number of bytes or everything, on which the
bound on the sum per word rests.

The result is then right (`ReceiverAlwaysAccepts`), touches nothing else (`NothingButChecksums`) and is the same the second time
(`SecondCallChangesNothing`).  The code adds words as the host reads them and a receiver adds bytes in network order;
`Congr` relates the two: 256 times the one is the other but for a multiple of 65535.  `CallInv` holds it
for the frame with its checksums blank, whose sums do not change while the checksums are written, and `ChecksumCompletes` closes the argument
for any sum of 32 bits: with its checksum, or with 0xffff in the place of zero, it is a positive multiple of 65535.

**ValueProofs**, for any even radix, lengths and texts, provided the external parsers return what they document (`TextsAreTyped`: addresses
of their length, numbers of a `long long`).  The core is that `BigEndian` and `Number` undo one another
(`NumberOfDigits`, `DigitsOfNumber`), by induction over the digits.  `NumbersAlwaysExact` follows with `RepresentableIs`, what the two
integer types of each length refuse; `DigitsAlwaysExact` with
the first of them: a series of digits, read as a number and written high byte first, is itself.

**DescriptorsProofs**: `NoStaleDescriptor`, `NoLostDescriptor`, `AllClosed` and `ConnectionKept` for any size of the table and any sets of addresses,
clients and interfaces.  `DescriptorsInv` has three parts: `Sound` is `NoStaleDescriptor` with the types, and that only one
registration, that of stdin, closes a second descriptor; `Opening` says what the local `fresh` of an unfinished `iface_parse()` is, without which
`IfaceRegistered` might register anything; `Ownership` says for every place of `main` who will close what is open, from which the end
follows; it takes that `abandoned` is part of `busy`, and `busy` of what is listed (`UsersAlways`).  There is one lemma per kind of action, and their common core are lemmas on opening a free number and on forgetting a registration.
`ConnectionsKept` follows from `Sound`: what `eptk_remove()` closes is what the registration is of (`ForgetCloses`), and a callback
that forgets a connection has seen its client hang up; the one step left is the signal (`AnswerLostKeeps`).

**Induction.**  What folds over data (checksums, numbers, documents, counters) is written with recursive functions and proved by induction
over numbers and sequences.  The library's induction theorems take the property as an operator, which the provers here cannot
instantiate; those of `Induction` take it as a set, and rest on the library's `WFMin`.

**Model-checked only** are the liveness properties, which need `ENABLED` and so are out of the provers' reach: `DirectiveEnds` (a signal
ends the program, too), `WaitingClientAnswered`, `ClientNotLeftWaiting`, and `Serving`, the liveness in `ImplementsRepl`.

## 5. What is not modelled

* Exhausted memory other than the refusal of an item (`calloc` failing inside `rule_new`,
  `process_new` or a Judy array).
* Emission of YAML, `value_render()` included: no state of the program changes; a failing emission only ends the directive.
* What C gives no meaning to: an interface name longer than `MAXLINELEN`, after which `iface_free()` reads `hwaddr` through a null
  pointer (iface.c:94); an item `{}` of a list, whose first pair is read although there is none (parse2.c:308); a frame that
  claims a longer header than it has bytes, once it has passed (the phase `stray`); operations between fields of different length
  where a side ends (the phase `undefined`).
* Names of interfaces cut to `IFNAMSIZ` by `snprintf` (iface.c:113): the kernel knows no longer ones.
* Blocking descriptors: see `ParseBuffer`.
* libyaml, libJudy, nonlibc, epoll_track: external, kept as described with the modules that use them.
* Build, packaging, tests: no behaviour of the running program.

## 6. Plan

What is left is to carry the theorems of one module to another: that the processes `Ruleset` builds satisfy what `PacketEngine` assumes of
its process (`BuffersFit` from `SharedStateAgrees`).

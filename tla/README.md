# protofish in TLA+

Models, model-checking configurations and machine-checked proofs for
[protofish](../src/README.md), a crate that parses `.proto` files at run time
and decodes, with error recovery, and encodes Protocol Buffer messages of the
types it found there.

All paths of code are below `src/`: `src/src/decode.rs` is the crate's
`src/decode.rs`.

## 1. The system

| Component | State | Operations |
|---|---|---|
| Decoder (`decode.rs`: `MessageInfo::decode`, `Value::decode`, `decode_packed`, `decode_unknown`) | the cursor `data` of every active call, the `MessageValue`s made so far | one turn of the loop: read a tag, choose one of three decoders, read the value, push the field; keep what is left as garbage |
| Varint conversions (`decode.rs:656-758`) | locals of two loops | `into/from_unsigned_varint`, `into/from_signed_varint`, zigzag |
| Encoder (`decode.rs`: `encode` of `MessageValue`, `Value`, `PackedArray`, `UnknownValue`) | the output buffer | one field after the other; the garbage is left out |
| Context (`context/mod.rs`, `context/api.rs`) | vectors of packages, types and services; handles are indices into them; maps from full names to indices | look-ups, which panic on a handle that denotes nothing |
| Context modification (`context/modify_api.rs`) | the context and the message or enum a client is drafting | `insert_package`, `insert_message`, `insert_enum`, `add_field`, `add_oneof` |
| Context builder (`context/builder.rs`) | the trees of declarations, the `BuildCache`, the types and services built so far | `populate`, `take_type`, `take_service`, `build` of types, services and packages, `resolve_type` |
| `.proto` parser (`context/parse.rs`, `proto.pest`) | the files not yet read, the tree of the current one, the records made so far | match a file against the grammar; make the tree a `PackageBuilder` |
| Crate root, prelude, tests | none | |

**How they interact.** Everything is a synchronous call. `Context::parse` runs
the parser on each file and hands the records to the builder; the builder makes
a `Context`. A client may change a context by hand. `decode` borrows a context
and follows the handles in it, recursively, once per nested message; `encode`
writes a `MessageValue` without looking anything up in the context it is given. There are no threads, no I/O
and nothing persistent; the borrow checker excludes changing a context while
`decode` reads it.

**What is hard.** Not interleavings, but long sequences on shared cursors and
tables:

- *Decoder*: three decoders share one cursor, and each has its own exits for
  missing bytes. An exit that leaves the cursor elsewhere makes the loop read
  something else as the next tag, with any consequence. The recursion moves the
  caller's cursor before the callee has run. Correct means: no byte lost, none
  decoded twice, sub-messages in the box of their parent, framing that depends
  on the wire type alone, an end on every input, and no panic.
- *Varints*: shifts and sums in `u64`, conversions to narrower and to signed
  types, two builds that differ in what overflow does. Correct means: the loops
  and conversions are inverse to each other, for which values they are not, and
  what happens on bytes that no encoder wrote.
- *Encoder*: correct relative to the decoder only: what was decoded encodes to
  the same bytes, for partial messages too.
- *Context*: five redundant structures (type vector, name maps, child lists,
  parent handles, member indices) that every operation must keep in agreement.
- *Parser*: a parsing expression grammar never comes back to a choice it has made,
  and blanks are skipped in places nobody wrote down; the code behind it has to
  know every statement the grammar lets through. Correct means: what a file
  declares is what the builder is given, and a file that is not parsed is refused
  for a reason.
- *Builder*: it promises indices before the types exist and takes declarations
  out of the trees while others still look at them. Correct means: references
  are resolved as scoping says, files are accepted exactly when they should be,
  and none of the builder's assertions fires.
- *Modification*: legal calls in any order; refused calls change nothing; the
  result agrees with what parsing would have made.

`PROJECT.json` lists each hazard at its line with the properties for it.

## 2. Modules

| Module | What it is | Code |
|---|---|---|
| `Wire` | where a value in a buffer ends, whether its bytes are there, whether reading it panics; value types and wire types | `decode.rs:173-356`, `509-563`, `671-758`, `context/mod.rs` (`ValueType`) |
| `Varint` | state machine of the varint loops and conversions, one turn per step | `decode.rs:656-758` |
| `Decode` | state machine of decoding, one loop turn per step, recursion as a stack | `decode.rs:173-357`, `503-618` |
| `DecodeProofs` | theorems about `Decode`: types, calls, bytes; framing, tags, the tree of messages, order of steps | |
| `VarintProofs` | theorems about `Varint`: what the loops write and read, and that they are inverse | |
| `RoundTrip` | `Decode` composed with encoding: decode, encode, cut anywhere, decode again | `decode.rs:359-501`, `620-658` |
| `RoundTripProofs` | theorems about `RoundTrip`: what `encode` wrote is read back, whole or cut, and written the same again | |
| `Proto` | the grammar as data, and how pest matches it | `proto.pest` |
| `Parse` | state machine of `Context::parse` before the builder runs, file by file | `context/parse.rs` |
| `Source` | what `.proto` files declare, statement by statement, and which of it does not get through; composed with `Parse` | |
| `Context` | the data of a context, its look-ups and what must hold of it | `context/mod.rs`, `context/api.rs` |
| `Registry` | changing a context by hand, one action per call | `context/modify_api.rs` |
| `ContextProofs` | the type of a context; its members and services by positions | |
| `RegistryProofs` | theorems about `Registry` | |
| `Build` | `ContextBuilder::build`, one declaration per step | `context/builder.rs` |
| `BasicLemmas` | induction, greatest elements, sets in order, sequences put together and where each of them then lies, numbers in groups of seven bits | |
| `BuildProofs` | the inductive invariant of `Build` | |
| `Namespace` | abstract: what a context promises about names | |
| `Lifecycle` | `Build` composed with `Registry`: parse, then change by hand; implements `Namespace` | `context/mod.rs` |
| `LifecycleProofs` | theorems about `Lifecycle`: what holds of every context, the refinement, what build answers and what it makes of the files | |
| `MCDecode`, `MCRoundTrip`, `MCVarint`, `MCParse`, `MCContext` | instances for the model checker | |

    Wire -- Decode -- RoundTrip         Context -- Registry --.
      |                                     |                  Lifecycle --> Namespace
    Varint                                  '------ Build ----'

    Proto -- Parse -- Source

and the proofs, beside what they are about (`BasicLemmas` also serves `VarintProofs`):

    DecodeProofs ---.                   ContextProofs -- RegistryProofs --.
                     RoundTripProofs         |                             LifecycleProofs
    BasicLemmas ----'                        '---------- BuildProofs -----'
                                        BasicLemmas -----'

A definition whose name ends in `_Something` and whose comment begins with
"Bug:" is not part of a specification. It is the definition before which it
stands with a plausible mistake in it, and each property is shown to fail when
one of these takes the place of the real one.

### Decode

`buf` is the byte buffer, `msgs` the `MessageValue`s in the order in which they
are made (boxes are indices), `stack` the active calls of `decode`: the box each
fills, the offset of its `data` slice, and the field its caller will push when
it returns. A field value is kept as its kind, its declared type, the function
that made it and the span of bytes it was made from; the number or text is a
function of these.

| Action | Code path of one turn |
|---|---|
| `DecodeScalar` | `Value::decode` succeeds on a scalar |
| `EnterMessage` | `Value::decode` of a message: length read, cursor moved behind it, recursive call begins |
| `TruncatedValue` | `Value::decode` lacks bytes: `Incomplete` with the rest of the slice, cursor cleared |
| `DecodePacked`, `TruncatedPacked`, `TruncatedElement` | `decode_packed`: complete; array cut off; last element cut off |
| `DecodeUnknown`, `TruncatedUnknown` | `decode_unknown`: complete or invalid wire type; bytes missing, cursor left behind the tag |
| `EndOfMessage`, `Garbage` | the loop is left, the call returns |
| `Panic` | a conversion's `expect` or `unwrap`, arithmetic overflow, or a packed field that is not packable |

The types and the offsets are the code's. The *values* of strings, floats and
numbers are not part of the state. `Wire` says in closed form what the loops of
the code compute; the run `varint` checks the closed form against the loops.

### Integer widths

`Width32`, `Width64`, `Size32`, `Size64` are constants: 32, 64, 4, 8 in the code
and 11, 15, 2, 3 in the runs. Model checking needs small buffers in which every
overflow still fits. 15 = 2 * 7 + 1 keeps the shape of 64 = 9 * 7 + 1: the last
group of the longest varint holds one bit, the next group overflows the shift.
11 keeps a 32-bit type narrower than the 64-bit type by more than a sign bit
and wider than a byte. The proofs hold for all widths that satisfy
`WireAssumption`.

### Proto, Parse, Source

`Grammar` has one entry for each rule of `proto.pest`, written with one operator
for each operator of pest (`S` for `~`, `C` for `|`, `Star`, `Maybe`, `Not`, `R`
for a rule). `Match` interprets it as the code that pest generates does, which is
where the surprises are: a choice is not undone, a keyword matches the beginning of
a word, and blanks are skipped before the last, possibly empty part of a sequence,
which then end up in the span of the pair. Rules that consist of characters are
shortened: a text is a sequence of *atoms*, which are blanks, punctuation, whole
integer literals, escapes and pieces of words. A word is cut where a keyword can end
in it, so that `optionalA` is `option`, `al`, `A`.

`Parse` has an action for matching a file (`MatchFile`), for making its tree a
`PackageBuilder` (`ConvertFile`), for panicking on the way (`PanicOnFile`) and for the
end (`AllConverted`, a `SyntaxError` in `MatchFile`); one operator stands for each
`parse` function of `parse.rs`. `Faulty` lists the pairs that some `unwrap`,
`unreachable!` or `unimplemented!` panics at.

`Source` is independent of the grammar. Each of its constructors (`Field`, `Enum`,
`RpcMethod`, ...) says how a statement of proto3 is written, what it declares and what
becomes of it (its `fates`): kept, or refused, changed or met with a panic, and
whether this takes blanks. Where two rules compete the fates say so; everything else
must be kept exactly.

### Context, Registry, Build

Indices count from 1 (from 0 in the code). A name is the sequence of its
dot-separated parts, so that `format!("{}.{}", a, b)` is concatenation and a
collision between the package `A.B` and the message `B` in the package `A` is
possible, as in the code. Dictionaries are functions.

`Registry` has one action for each call that changes something. A refused
`insert_package`, `add_field` or `add_oneof` leaves everything as it is, and so
is a stuttering step; `insert_message` and `insert_enum` consume the draft when
they refuse it (`RefuseType`). The calls themselves are the operators `add_field`,
`add_oneof`, `insert_package` and `insert_type`. Each returns a set: what the call
makes, or nothing if it is refused, so that a sequence of calls is written as one
operator over another and ends in the empty set where a call of it fails. No call
checks where a handle comes from. A client may use, as a parent and as the type of a
field, any handle the context has given out, the `MessageRef(0)` or `EnumRef(0)` that a
draft has before it is inserted (`Early`; `tests/parse.rs` makes a recursive message
this way), and those of other contexts (`Foreign`).

`Build` keeps the three phases of `build` in its `status`. `agenda` is the
recursion of `populate`; `taken` is the set of declarations that `take_type`
has replaced by a default, of which later readers see only what is left. The
verdict of building a type or a service is the first check that fails, in the
order of the code.

## 3. Runs

No run assumes symmetry. The runs but `parse` and `valid_files` have
`CHECK_DEADLOCK FALSE`: decoding, a round trip, a conversion and a build end, and
stay where they ended. `Source` says so by an action (`Returned`), and is checked for
deadlock.

| Run | Question | Instance |
|---|---|---|
| `decode` | Is decoding arbitrary bytes lossless, properly nested, ordered and finite? | two mutually recursive messages with a scalar, a packed, a string and a message field; all strings of at most 5 bytes over 7 bytes, each at once a tag (of a declared field with its own and with another wire type, of an undeclared field, with an invalid wire type), a length and data. And for each of the 17 types, singular and packed, a message with one such field: its tag with all 8 wire types, behind it up to 4 bytes |
| `round_trip` | Does a message, cut anywhere, survive decoding and encoding? | all strings of at most 4 bytes over 7, and a string field with each of the payloads of at most 4 bytes over 8; every prefix of every encoding |
| `varint` | Are the integer conversions inverse to each other, with and without overflow checks? Is the closed form of `Wire` what the loops compute? | every integer type, values within 4 of each boundary; all strings of at most 4 bytes over 6 |
| `context` | Do parsing and changing a context keep its structures in agreement, and is what is built what was declared? | all pairs of files with up to 2 + 1 of 12 declarations in 3 packages, nested up to 3 deep; then, on three of these contexts, calls by hand until there are 4 types and members (`MaxSize`), with oneofs of up to 2 fields (`MaxListed`) and one foreign handle |
| `parse` | Is what the builder gets what the files declare, and is no file refused without a reason? | every kind of statement in every place it may stand, alone with 6 names, 15 types, 7 numbers, 22 constants, and in pairs from 13; files with two statements and lists of two files; each with blanks everywhere and with none |
| `panics`, `cut_message`, `zigzag`, `packed_uint64`, `oneofs`, `service_type`, `valid_files` | seven claims of the repository that the code does not keep (section 5) | as the passing runs |

**Why the bounds are enough.** In `decode`, three bytes make a message field
with one byte in it, four a message in a message, five leave room for a cut
value in the inner one with something behind it; every action fires, packed
arrays with a cut element and a cut varint among them. In the second family of `decode`,
4 bytes behind the tag are one more than the widest fixed value and than the longest
varint. In `round_trip` the bytes of `TextAlphabet` make characters of one to four bytes
and all that can be wrong with one: a first byte alone, one whose character is cut or goes on
with a byte that is not allowed behind it (224, 237, 240 and 244 each allow others), a byte that only goes
on. `MCValues` reaches each point where a conversion changes its behaviour
(0, the sign bits, the doubling of zigzag, the group boundaries). In `context`
the names `A` and `B` are used for packages, messages, enums and services alike
so that every scope can shadow every other; the pool contains members with equal
numbers, equal names and an alias; three levels of nesting make a message whose
inner type refers past its parent.

In `parse` every kind of statement, literal and option occurs wherever the grammar
allows one, floats with an exponent and `rpc`s with a body among them; pairs of statements
suffice because a body is a repetition of one choice, so that what a statement leaves
behind meets the next one only. 7 and 15 stand for the largest `i64` and `u64`, and
there are literals on both sides of each.

### What the properties say

`Decode`: `TypeOK`; `Calls` (the call stack: boxes in order, cursors inside their
slices, every callee holds the field it returns); `NoByteLost`; `NoByteTwice`
with its reason `FieldsBehindCursor`; `MessagesNest` (each message in exactly one
field of its parent, with the declared type and the bytes of that field);
`SchemaFreeFraming` (the fields tile the message as a reader without the schema
would split it, with the exception below, and a value is `Incomplete` only when its
bytes are missing); `TagSurvives` (what `encode` writes in front of a field is the
tag it had); `OnlyForward` (a returned message never changes, cursors never move
back, each turn makes progress); `Terminates`.

The exception is `DecodedAgain`, and it is exact: a field that is the `Incomplete` of
`decode_unknown` with bytes behind its tag, or of a packed array whose last element is cut
while bytes follow the array. Behind these two, and no other `Incomplete`, the cursor
stands in front of bytes that were kept. That is how the code is; the finding
`cut_message` is its visible consequence.

`RoundTrip`: `PartialMessageSurvives` (what `encode` wrote, cut anywhere, comes
back byte for byte, save for a cut tag), `EncoderOutputIsSafe` (nothing that `encode`
wrote makes `decode` or a second `encode` panic), `TripsEnd`. The first two hold if no
field is `DecodedAgain`, neither in what the first trip decoded (`whole`) nor on the second
trip: bytes that were kept twice are written twice, and may be read as anything.

`Varint`: `ValueSurvives`, `CarriesAllBut` (exactly which values do not get
through), `WritesShortest`, `ClosedForm`, `Ends`.

`Source`: `ParsesBack` (what the builder gets of a file is what the file declares, if
and only if none of its statements has a fate that changes it), `EndsJustly` (a
refusal and a panic have their reason, and the files before it have none).

`Context`, `Registry`, `Build`, `Lifecycle`: `NamesAreKeys` (name map and full
names are inverse), `Forest` (parents, child lists and full names agree),
`ServicesAreFound` (services, the list of their package and `get_service` agree),
`HandlesResolve` (a stored handle makes a look-up panic only if it is one that a client
stored without having got it from this context), `ParsedHandlesResolve` (the handles of
the types that were parsed never do, whatever a client adds; with `BuildsWhatIsDeclared`
this is what `Decode` assumes of its schema), `MembersConsistent`,
`AssertionsHold` (the builder's own assertions), `VerdictJustified` (each error
for its reason, and success only without one), `BuildsWhatIsDeclared` (against a
definition of scoping that does not use the cache, through the public look-ups), `HandBuiltEqualsParsed`
(`tests/create.rs` for every input that one call for each declaration can follow: each of
these calls succeeds, and they lead to the context that was parsed. Left out are inputs of which a call
would be refused, two files of one package or two members of one name or number in a type,
and those with a reference to a later type, of which a client has no handle when it drafts the field), `KeepsNames` (the refinement of
`Namespace`: names are never given away, owners exist before what they own).

### Fairness

`Decode` and `Varint` assume weak fairness of the whole next-state relation and no more,
`RoundTrip` that of the steps of `Decode`: each is one sequential call on one thread,
which keeps being executed. Whether a decoded message is encoded is up to the client. `Source` states no liveness: each step takes one file from a finite
list, and the run explores all of it. `Lifecycle` assumes no fairness: a client need not call anything, and
only safety is stated of it.

## 4. Proofs

`DecodeProofs` proves, for every schema, every set of inputs, all
widths and both builds, all that the runs check of `Decode` but its liveness:

| Theorem | Statement |
|---|---|
| `TypeCorrect` | `Spec => []TypeOK` |
| `CallsCorrect` | `Spec => []Calls` |
| `NothingLost` | `Spec => []NoByteLost` |
| `NothingTwice` | `Spec => []NoByteTwice` |
| `CursorPassed` | `Spec => []FieldsBehindCursor` |
| `TagsKept` | `Spec => []TagSurvives` |
| `FramingCorrect` | `Spec => []SchemaFreeFraming` |
| `NestingCorrect` | `Spec => []MessagesNest` |
| `NeverBack` | `Spec => OnlyForward` |

*Assumptions*: `WireAssumption` (the widths are positive and ordered; the fixed
sizes are at least one byte) and `DecodeAssumption` (inputs are byte sequences;
the schema gives each field a type and a message).

*Argument.* `Inv == TypeOK /\ Calls` is inductive; neither part is alone, since a
cursor must be known to lie inside its slice for the next field to have a type,
and a callee must be known to hold a field for the return to append one. The
eleven actions are first reduced to four shapes (`StepShapes`): a well-read field
is pushed that starts at the old cursor and ends at or behind the new one
(`PushStep`), a call begins on the end of a well-read field (`EnterStep`), a call
returns with the rest of its slice as garbage (`ReturnStep`; for `EndOfMessage` the
rest is empty), or the process panics. This is where the operators of `Wire` are
used: a varint ends in one place or in none, a payload ends in one place or in none,
and where the reader of a typed value ends is where the reader that only knows the
wire type ends (`OneRead`, `OneEnd`, `ScalarEndsAgree`). Each further invariant is
then shown once per shape.

`NoByteLost` is inductive relative to `Inv`: each byte is in one of four places
(a field, the garbage, ahead of the cursor, the field a callee will hand back)
and each shape only moves bytes from one to the next.

`NoByteTwice` speaks of pushed fields only and is not inductive: a new field
starts at the cursor, so one must know that the older ones end there or before.
`Ordered == FieldsBehindCursor /\ NoByteTwice` says so for every active call, with
the pending field of the callee in place of the cursor where there is one.

`TagSurvives` and the part of `SchemaFreeFraming` about one field follow from
`AllRead`: every field of a message and every pending field is `WellRead`, that is,
its tag is spelled in front of it and its end is the one its wire type gives.
That consecutive fields meet needs `Linked`, which says where the *next* field will
start: at the cursor of the innermost call, and for the others where the field
starts that their callee will hand back. `MessagesNest` counts holders and is
strengthened to `Nested`: what a field or a call leads to (`FieldsLead`,
`CallsLead`), that no box is held twice (`HeldOnce`) and none is lost
(`HeldAtAll`). A call that returns moves its box from the stack into a field, and
`CallsLead` is what guarantees that no field held it before. `OnlyForward` needs
only `Inv`, which keeps two calls from filling the same message.

`VarintProofs` proves all invariants of the run `varint`, for every width, every value of
every integer type, all byte strings and both builds:

| Theorem | Statement |
|---|---|
| `VarintAlways` | `Spec => []VarintInv` |
| `SurvivesAlways`, `CarriesAlways` | `Spec => []ValueSurvives`, `Spec => []CarriesAllBut` |
| `ShortestAlways` | `Spec => []WritesShortest` |
| `ClosedFormAlways` | `Spec => []ClosedForm` |

*Assumption*: `VarintAssumption` (a `u32` has more than 8 bits and a `u64` more than a
`u32`; the values tried are values of their types, the byte strings are sequences of bytes).

*Argument.* The provers know no exponents. That `2^n` is positive and doubles with `n` comes
from the library's theorem about the number of subsets (`PowerIs`: the subsets of `1..n+1`
are those of `1..n`, with and without `n+1`), and the rest by induction (`GroupsGrow`).
`VarintInv` follows one number `u` through both loops: after n groups are written, `value` is
`Above(u, n)`, what is left of `u` above them, and after n groups are read, `result` is
`Low(u, n)`, what they carry (`NextTop`, `ReadsOn`). The loop that writes ends with a number
of groups that `Fits`, of which there is only one, so that the bytes are `VarintBytes(u)`
(`LastFits`, `BytesAre`); it cannot be more than `MaxGroups`, so that no shift overflows when
they are read. `ComesBack`, `Accepted` and `NotRaw` are the conversions at both ends. For
bytes of any other origin, `result` is what every function that sums the groups has at `idx`
(`IsResult`); there is such a function (`SumsExist`), hence the one of `VarintValue` is one.

`RoundTripProofs` proves, for every schema, every set of inputs, all widths, both builds and
every prefix of what was encoded, all that the run `round_trip` checks but its liveness:

| Theorem | Statement |
|---|---|
| `TripAlways` | `TripSpec => []TripInv`, the inductive invariant |
| `TripCalls` | `TripSpec => [](TypeOK /\ Calls)` |
| `MessageAlwaysSurvives` | `TripSpec => []PartialMessageSurvives` |
| `OutputAlwaysSafe` | `TripSpec => []EncoderOutputIsSafe` |

*Assumptions*: those of `Decode`; the inputs are any sequences of bytes.

*Argument.* Neither property can be inductive: they compare what is encoded on two trips, and
while the second message is being decoded, nothing remembers what the first one was. `TripInv`
therefore says of the second trip that it is `Reading(E, T)` for some `E` and `T`. `E` are all
the bytes that `encode` wrote, of which `buf` is a prefix; `T` are the *places* in them,
`<<type, place, end>>`, at which a message that was written begins, goes on or ends. `Written`
says that at each place short of the end a field stands that `decode` will read as that field,
and that behind it is another place. `Reading` says that the cursor of each call is at a place
(`Ahead`), or at the end of a cut root; that each tag and each length that was read is
spelled the shortest way, as `encode` spells it (`Spelled`); and that no message but the root
has garbage. Four things have to be shown.

- *What is written is a place, with a field in it* (`FieldAt`, `PlaceRead`, `ReencodeReads`).
  For each shape of value, what `encode` writes is what the decoder of that shape reads, wherever it
  stands: `ReadsBack` for a varint, `DelimitedBack` for a payload, `ArrayBack` for a packed
  array, whose elements begin where the written ones lie (`ElementsLaid`), `TextBack` for a
  string. What `from_utf8_lossy` gives is UTF-8 for whatever bytes (`LossyIsText`: a character that is kept
  is kept as a whole, `Copied`, and what stands in place of the rest is a character), and UTF-8 it leaves alone. `FlattenLaid` and `LaidAt` say where the parts of
  a concatenation lie.
- *Cutting does not matter but at the cut* (`Alike`). Two slices of which one begins with the
  other have the same varints, payloads and arrays, except for the one that the cut goes through, which
  is missing in the shorter one (`EndsAlike` to `PackedAlike`). So a field is the one
  that was written, or the last of all, an `Incomplete` with the rest (`FieldRead`, `RestIsLast`).
- *Decoding keeps it* (`NextReading`), by the shapes of `DecodeProofs`: `PushKeepsReading`,
  `EnterKeepsReading`, `ReturnKeepsReading`. A message that returns leaves no garbage
  because a field stands at every place short of its end (`ReturnsAtEnd`); a panic needs a value that is out of the
  range of its type, and encode writes none (`ReadingIsSafe`).
- *At the end, the same bytes are written* (`BoxRewritten`). The fields of a message tile it
  (`Linked`, of `DecodeProofs`), so the bytes of the fields, put together, are those of the message, if
  each field writes its own (`FieldRewritten`, by `UpInduction` on the fields). A sub-message writes its own by `DownInduction`:
  it is in a later box than its parent (`Rooted`).

That `EncodePanics` is false on the second trip, the other half of `EncoderOutputIsSafe`,
follows from the same lemmas: a value that was read where one was written, or that is the rest
of a cut one, is a value that `encode` can write (`ReadingWritable`, `ReadingEncodes`).

`RegistryProofs` proves, for all names, numbers and bounds and for every sequence of
calls on a context that starts empty:

| Theorem | Statement |
|---|---|
| `IInvAlways` | `RegistrySpec => []IInv` |
| `NamesCorrect` | `RegistrySpec => []NamesAreKeys` |
| `ForestCorrect` | `RegistrySpec => []Forest` |
| `MembersCorrect` | `RegistrySpec => []MembersConsistent` |
| `HandlesCorrect` | `RegistrySpec => []HandlesResolve` |
| `NamesKept` | `RegistrySpec => KeepsNames` |

*Assumption*: `RegistryAssumption` (what the client uses are names and numbers).

*Argument.* `IInv == Typed /\ NamesAreKeys /\ Forest /\ AllMembers /\ AllResolve /\
ServicesHang(ctx)` is inductive. `Typed` is stronger than the type invariant the runs check: a draft has no
inner types, or they would be listed twice once it is inserted. `AllMembers` says by
positions what `MembersAgree` says by look-ups (`MembersFound`), and is kept by
`add_field` and `add_oneof` one clause at a time (`FieldAddedMembers`,
`OneofAddedMembers`). The calls that only change the draft are one case (`DraftStep`).
For the two that change the context, `Grows` says what an older type needs to stay
where it is: handles, names and lists are only added to, and only with handles that
did not exist (`StillHangs`); `OwnersAfter` and `InsertedHangs` say where the new type
goes. `NamesKept` is the refinement: the context's empty map is the initial name space,
`InsertType` is `Insert` with the new full name as its witness, for which the name of
the parent must be a key that leads to the parent (`NamesAreKeys`), and no other call
changes an entry.

`LifecycleProofs` proves, for every list of files, every sequence of
calls after it and all names, numbers and bounds, all that the run `context` checks:

| Theorem | Statement |
|---|---|
| `BuildInvAlways`, `LInvAlways`, `VInvAlways` | the inductive invariants |
| `AssertionsCorrect` | `Spec => []AssertionsHold` |
| `NamesAlways`, `ForestAlways` | `Spec => []NamesAreKeys`, `Spec => []Forest` |
| `ServicesAlways`, `HandlesAlways` | `Spec => []ServicesAreFound`, `Spec => []HandlesResolve` |
| `ParsedHandlesAlways` | `Spec => []ParsedHandlesResolve` |
| `MembersAlways`, `TypesAlways` | `Spec => []MembersConsistent`, `Spec => []TypeOK` |
| `VerdictsCorrect` | `Spec => []VerdictJustified` |
| `BuildsCorrect` | `Spec => []BuildsWhatIsDeclared` |
| `HandBuiltAlways` | `Spec => []HandBuiltEqualsParsed` |
| `NamesKeptAlways` | `Spec => KeepsNames` |

*Assumptions*: `RegistryAssumption` and `BuildAssumption` (the inputs are lists of files of
well-formed declarations, none nested deeper than `MaxDepth`, which is positive). Nothing
bounds the number of files, of declarations or the depth itself.

*Argument.* The difficulty of `build` is that `populate` gives out the index of a type long
before the type exists, and that everything after it relies on these indices. `BuildInv` says
what holds meanwhile:

- `CacheOK`: `cache.types`, `cache.services`, `items` and `items_by_idx` agree, the n-th
  cached type has the index n, and the message around an inner type was cached before it;
- `AgendaOK` and `AllMet`: what is still to be visited is a declaration of the files, under
  the scope it is in, and no declaration is passed over. Without `AllMet` an inner type
  could be missing when its message is built;
- `Progress`: what each phase has left done, in numbers. It turns "every promised index will
  be used" into an equation of two lengths at the end;
- `BuiltOK`: the n-th type built is the one that was promised the index n, with its
  parent, its inner types and its references as the cache had them (`TypeBuilt`).

A declaration is its path, and `Item` descends it; that two paths with the same parent
agree above it is shown by induction on the path (`WalksAgree`, `KnownInner`,
`KnownOuter`). `AssertionsCorrect` follows from `BuildTyped`, whose statuses leave out
`panic`: keeping it means to show for each check of `build` that it does not fail
(`TypeVerdictIs`, `ServiceVerdictIs`). `LInv` adds the invariant `IInv` of the calls, which
`Finish` has to establish (`FinishMakes`): a promise that has been kept for all types
(`Complete`) makes every handle denote a type of its kind, and listing the types by their
parents lists each once. From there on the lemmas of `RegistryProofs` apply.

`NamesKeptAlways` is the refinement for the whole life of a context: `Finish` is `Load`, for
which the parsed name space must be `Rooted` (every owner is there before what it owns),
`InsertType` is `Insert`, and all other steps stutter.

`VerdictJustified` and `BuildsWhatIsDeclared` do not mention the cache: they are about
`Declared`, the declarations found by walking the trees level by level, and `Denoted`, scoping
by definition. `DeclaredAre` shows by induction on the level that `Declared` are the items
that have a path, `AllCached` by induction on the length of the path that the cache holds all
of them once the agenda is empty, and `DenotedAre` that the cache's `Found` then finds what a
name denotes. `VInv == AgendaFresh /\ Reasons /\ Resolved` is inductive relative to `BuildInv`:
no declaration is on the agenda twice or after it was cached, so that a name that is taken
is taken by *another* declaration; each failure has a declaration for its reason; and no
reference of what has been built was lost. For the fields, `Made` says what a built type has
of its declaration, and `Kept` that the calls made later leave it that. `ParsedHandlesAlways`
follows from `Kept` too: the fields that were parsed are still there, and what they denoted
is still at its index (`ParsedFollow`). `HandlesAlways` says less of more fields: for
one that a client adds, `add_field` has checked nothing, and `MayHold` excuses the handles that are not this context's.

`HandBuiltEqualsParsed` compares two programs: `build`, which fills a type from its
declaration at once and lists it by an index promised earlier, and the calls of
`modify_api.rs`, which add one member, then one type, to lists that grow. It needs three
more invariants. `AllCrafted`: in a type whose declaration has no conflicts, the oneofs list
their fields, and the names lead to them, as adding the fields in the order of their numbers
would have it (`MessageCrafted`, `EnumCrafted`). `OrderOK`: of two declarations in one
message the one written first gets the smaller index. `populate` works on a stack, so this
is an invariant of the agenda too (`OrderAfterVisit`): nothing on it comes before what is
cached already, nor before what is above it on the stack. With it the inner types of a
message, listed in the order of the text, are in the order of the insertions
(`InnerTypesOrdered`); `IncreasingIs` says that there is one such order. `Remade`: the
client has left the context as `build` returned it, or has made it larger, so that the
property is about no other. The rest is about the calls alone. `PartOf(t, P)` is the draft
of `t` with the fields `P`, and adding the next field makes it that of one field more
(`FieldByHand`); `At(n)` is the context with n of the types, and inserting the next leads to
`At(n + 1)` (`Staged`: insert_type accepts it, and each owner's list grows or stays as it
should; `HandlesAtHand`: the handles in its fields have been given out by then, or are the early one). That no call is refused is part of each of these steps: what it returns is the set of the one next draft or
context. Two sequences that begin and go on alike end alike (`Agree`): `TypeByHand` and
`ContextByHand`.

*Induction over data*. What a recursive function of the model computes is proved by
`SetInduction` (a set of numbers with 0 and every successor holds all of them), which
follows from the well-foundedness of `<`; the theorem with an operator for its parameter
cannot be instantiated by the provers, the one with a set can. `DownInduction` and
`UpInduction` are its variants from a bound downwards and up to one. A function that is defined by
recursion, or by a fold, is first shown to exist as a set of pairs (`SumsExist`,
`FlatExists`, `EncodingExists`), which makes the one that is chosen one of them.

*Only model-checked*: all liveness (fairness is out of the prover's reach), and the parser,
whose interpreter of the grammar is a `RECURSIVE` operator.

## 5. Findings

| Run | What it shows |
|---|---|
| `panics` | The README promises decoding of invalid messages; a varint too wide for its field's type ends in `expect("Out of range")` (`decode.rs:694`): the run has a `sint32` of 12 bits where `u32` has 11. In a build with overflow checks an overlong varint ends in a shift overflow too. |
| `cut_message` | `lib.rs` shows a cut message that encodes to itself. Cut inside a value that `decode_unknown` reads, its last bytes are decoded, and encoded, twice (`decode.rs:356`): in the run a fixed64 value in a field that is declared otherwise, `<<1, 1>>`, which encodes to `<<1, 1, 1>>`. |
| `zigzag` | The table above `test_zigzag_encoding` includes the extremes of `sint32`; encoding them overflows, from half the range on (`decode.rs:370`). |
| `packed_uint64` | `PackedArray::UInt64` holds any `u64`; an element with the top bit set is encoded but panics when decoded (`decode.rs:291`). |
| `oneofs` | `add_oneof` says it ensures that no field is part of another oneof, and does not (`modify_api.rs:187`). |
| `service_type` | "Service as field type" is reachable (`builder.rs:509`). |
| `valid_files` | The README wants all valid files parsed; a semicolon of its own at the top level panics (`parse.rs:56`), and a blank behind a package name becomes part of the name (`parse.rs:52`). |

## 6. What is not modelled, and why

- Characters: `Proto` works on atoms. Which characters a letter, a digit or a comment
  may have, the byte order mark and a NUL in a string are left out, as is the text of
  a `SyntaxError`.
- The whole of `Context::parse` in one state machine. `Source` ends with the records
  that `Build` begins with, and each is checked for more of them than the other can
  produce; the interpreter of the grammar is too slow to be run in front of every
  build. What goes wrong only in the composition are names with blanks in them, which
  to `Build` are names like any other.
- Floats, beyond their bytes.
- What `decode` does with a schema whose handles denote nothing: the panic of `resolve_message` is
  excluded by `ParsedHandlesResolve` for parsed types and left to the client for others.
- Options are kept only where they decide packing; `extend`, `reserved` and
  imports do not reach the context.
- What a client writes into the public fields of a `MessageInfo` before inserting
  it, and `MessageValue`s made by hand rather than by `decode`, except for the
  integers in `Varint`.
- The memory of the recursion: `decode` has no depth limit and can overflow the
  thread's stack; the model's stack of calls is unbounded.

## 7. Plan

Done, in this order: `Wire`, `Decode`, `Varint`, `RoundTrip`, `DecodeProofs`,
`Context`, `Build`, `Registry`, `Namespace`, `Lifecycle`, `Proto`, `Parse`, `Source`,
`RegistryProofs`, `BuildProofs`, `LifecycleProofs`, `VarintProofs`, `RoundTripProofs`.

What could follow, the most important first:

1. *An abstract reader* (`Framing`): one cursor, one message, a schema-free split
   into fields, and `Decode` projected to one box as its implementation.
2. *`Build` composed with `Decode`*: fields of a schema that `build` made, so that
   packedness and handles are those a parsed file leads to.
3. *Values made by hand*: encoding of `MessageValue`s that did not come from
   `decode`, and clients that write to the public fields of a draft.

## 8. Running

In this directory, for instance:

    tlc -config MCDecode.cfg MCDecode
    tlapm DecodeProofs.tla
    tlapm VarintProofs.tla
    tlapm RoundTripProofs.tla
    tlapm RegistryProofs.tla
    tlapm BuildProofs.tla
    tlapm LifecycleProofs.tla

The longest run takes about a minute, the proofs of a module some minutes. A module's
proofs do not repeat those of the modules it extends: `BasicLemmas` and `ContextProofs`
are checked by themselves.

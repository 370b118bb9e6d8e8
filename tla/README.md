# A verification project for serde-onnx

serde-onnx reads, builds and writes ONNX models in Rust. This directory holds TLA+
specifications of what its code does, TLC configurations that check them on small
instances, and proofs, checked by TLAPS, of what holds for every instance. Paths below are
relative to the repository, as `src/export.rs`; in `PROJECT.json` the repository's root
is written `src/`.

## 1. The system

| Part | Code | State it keeps | Operations |
| --- | --- | --- | --- |
| Graph builder | `src/export.rs` (`GraphBuilder`, `OpSink`, `emit_op`) | the graph under construction, the set of names claimed, the opset imports | `declare_opset`, `input`, `output`, `initializer`, `initializer_tensor`, `push_node`, `emit_op`, `OpSink::emit`, `finish` |
| Export | `src/export.rs` (`export_model`, `ToOnnx`) | none between calls | run the caller's `to_graph`, finish, validate, encode |
| Derive macro | `serde-onnx-macros/` | none (runs at compile time) | takes or refuses a declaration, generates `to_graph` |
| Validation | `src/ir/validate.rs` (`validate_graph`) | the names defined so far, the errors | one pass over the graph, one search for a cycle |
| Cycle search | `src/ir/validate.rs` (`detect_cycle`) | colors, an explicit stack, an iterator position for each node | two nested loops |
| IR | `src/ir/graph.rs`, `types.rs`, `tensor.rs`, `attribute.rs` | plain data with public fields | constructors, accessors |
| Attribute codec | `src/proto/codec.rs` (`encode_attribute`, `decode_attribute`), `attribute_from_fields` | none | convert |
| Tensor codec | `src/proto/codec.rs` (`encode_tensor`, `decode_tensor`, `read_external`) | the external file, outside the program | convert, resolve |
| Numeric conversions | `src/ir/numeric.rs`, `Tensor::to_vec`, `as_slice`, typed arrays of the codec | none | checked casts, narrowing, widening |
| Model codec | `src/proto/codec.rs` (`TryFrom<&ModelProto>`, graphs, value types) | none | version gates, convert |
| Typed operators | `src/ml/` (19 structs with `to_node` and `from_node`) | public fields | convert, recognise |
| Import | `src/import.rs` | the model, its payloads, its warnings | decode, recognise, report |

How they interact. A `ToOnnx` implementation, written by hand or by the derive macro, calls
the builder through `&mut`; typed operators give it nodes (`to_node`); `export_model`
validates what the builder finished and hands it to the codec. In the other direction the
codec makes a `Model` of bytes and import recognises each node as a typed operator or keeps
it as it is. Everything is synchronous and single threaded. Nothing is persisted
but the files the caller writes. The one thing that changes under the program is an external
data file, between the two system calls with which `read_external` measures and reads it.

What is hard here, therefore, is not concurrency (with that one exception) but

- *failure half way*: the builder claims names one at a time and returns at the first
  refusal, so a failed call leaves claims and sometimes initializers behind, and a caller
  that does not stop goes on with such a builder;
- *order*: names are claimed and opsets raised by calls in any order, and derived structs
  share one builder;
- *two versions of one rule*: `to_node` and `from_node`, `encode` and `decode`, `disc` and
  `from_disc`, the builder's claims and the validation, the builder's count of elements and
  the decoder's are written by hand, apart;
- *a hand-made search*: `detect_cycle` replaces recursion by a stack, colors and counters
  that survive from one start to the next;
- *limits of number types*: casts, `as` and rounding between types of different width;
- *absence on the wire*: a protobuf 3 field that is 0 or empty is not there.

What makes each part correct:

| Part | Properties |
| --- | --- |
| Builder | no value has two definitions; what is defined is claimed; composed names are free; imports cover the nodes and only rise; a failed call leaves at most claims and initializers |
| Cycle search | the stack is the gray path; black means closed; the answer is a simple cycle, or there is none; it returns |
| Export | what is exported is in topological order and single assignment; what the builder prevents, validation does not report; a cycle is never the only complaint |
| Derived structs | alone or together, they are exported exactly when their names do not collide, and then side by side |
| Attributes | what was loaded survives; what was saved is not misread, but for values a message says in part only; no choice between two values |
| Operators | to a node and back without loss, derived structs included; what was recognised can be written; nothing is lost in recognition |
| Tensors | what was loaded survives; what the builder took is loaded; data fits the shape; a resolved tensor is what its reference announced |
| Numbers | a vector holds the tensor's own numbers; only what does not fit is refused, and the first such element named; what is saved is loaded |
| Models | a loaded file saved again has the same contents (section 3 lists what is lost) and is then stable; import accounts for each node and attribute; what is not looked into is reported |

## 2. Modules

| Module | Models | State and actions against the code |
| --- | --- | --- |
| `OnnxGraph` | the part of `Graph` that builder and validation use | operators only: defined names, single assignment, defined before use |
| `ValueTable` | abstract: each value gets one definition, for good | `sites` |
| `GraphBuilder` | `GraphBuilder` and `OpSink::emit` | `graph`, `defined`, `opsets` are the struct's fields; `result` is what the last call returned; one action per call |
| `DependencyGraph` | paths and cycles of a table of dependencies | operators only |
| `CycleReport` | abstract: one step that reports some cycle, or none | `status`, `path` |
| `CycleDetection` | `detect_cycle` | `color`, `stack`, `iter_pos` are its locals, `start` its outer loop; one action per way through a loop's body |
| `Validation` | `validate_graph` | an operator from a graph to its set of errors |
| `ExportModel` | `export_model`: composes `GraphBuilder` and `Validation` | adds `phase` (the caller building, then how `export_model` returned) and `report`, the validation's errors |
| `Derive` | the derive macro | operators: which declarations compile, which attributes they stand for |
| `DerivedExport` | the generated `to_graph`s, run one after another on one builder: composes `Derive` and `ExportModel` | adds `structs`, what is exported, and `calls`, how far their `to_graph`s are; one action for each of the three calls `expand` generates |
| `Attributes` | `AttributeValue`, `encode_attribute`, `decode_attribute`, `attribute_from_fields` | operators only |
| `AttributeCodec` | an attribute that is set, saved and loaded | `attr` in memory, `wire` in the file; `loaded` and `saved` record where they came from |
| `OpSchemas` | the 19 operators, as data | one record for each struct |
| `OptionalText` | an `Option<String>` as it is written and read | operators only |
| `OpNodes` | `to_node`, `from_node` (with `AttrTable`), `encode_node`, `decode_node` | operators only, over `OpSchemas` and `Attributes` |
| `OpConversion` | one operator through these steps, edited by the program; or a derived struct's node | `item` is the struct, the node or the file's node, `stage` says which |
| `Tensors` | `encode_tensor`, `decode_tensor`, the lengths `initializer` compares | operators only |
| `TensorCodec` | a tensor built, saved, loaded and resolved | `tensor` in memory, `wire` in the model's file, `fileSize` of the external file, `reading` between the two halves of `read_external` |
| `NumericCast` | `try_cast_lossless`, `to_vec`, `as_slice`, `into_data`, narrowing of typed arrays | `tensor` in memory, `array` in the file, `result` of the last call |
| `ValueTypes` | `encode_value_type`, `decode_value_type` and shapes | operators only; a nested type is the sequence of its layers |
| `ModelCodec` | `encode_model_proto`, `Model::try_from`, `DecodedModel::from_model`: composes `OpNodes`, `Tensors` and `ValueTypes` | `model` in memory, `file`, `imported`; `source` and `saved` record where they came from |
| `CodecLemmas` | nothing | lemmas about the operators of `Tensors`, `ValueTypes`, `Attributes` and `OpNodes`, and about counting up |
| `*Proofs` | nothing | theorems of the module they are named after; `ExportProofs` those of `GraphBuilder`, `ExportModel` and `DerivedExport` |
| `MC*` | nothing | constants for TLC |

Abstractions, and why they do not hide what the properties are about:

- A name is a model value, a string or the tuple that `format!` would have composed
  (`<<"node", index, stem, k>>`); two names are equal in the model exactly if their texts are,
  the callers' names that look like composed ones being those very tuples.
- `GraphBuilder` takes `DeclaredVersions` to be positive, as ONNX versions are; with 0 or less
  `declare_opset` records an import the model has no use for.
- In `GraphBuilder` a caller may go on after a failed call. `export_model` with a `to_graph` that
  uses `?` is the case where it does not; `ExportModel` has both. A derived `to_graph` always stops.
- `emit_op` of an operator that is not one of the library's is the action `Emit`: a node and
  initializers of any composition.
- `Validation` takes the search at its contract (an error exactly if there is a cycle), which
  `CycleDetection` is proved to implement.
- An attribute's content is a number: the integer, 0 or not for a float, a length for a string
  or a list of numbers or strings, an identity for a message or a list of messages. `Broken` is
  content that does not decode; so is a tensor whose data does not fit what is written of its
  shape. NaN is a content that is not 0, as in the code's comparison.
- What is in memory may say more than its message: a tensor with dimensions that are not fixed
  (`encode_tensor` drops them) or with data in another form than its message is read in, a
  `GraphRef` whose `name` is not the name inside its bytes. The content of such a value is a number
  below `Broken` (`SaysMore`), and its message is that of the value with the opposite number, which
  is what is read back. In a file a tensor counts as what `decode_tensor` makes of it.
- `IsStruct` is what the Rust types of the 19 structs say: the plain fields are there, no other
  than the struct's are, and each holds what its type can. What is not in it, `to_node` checks.
- The operators' element-wise values, and which `OpError` is returned, are left out of
  `OpNodes`; the order of attributes is some order, since `from_node` does not look at it.
- `I32Size` stands for 2^32 and is small; what matters is that a number beyond it
  comes back as an element type.
- In `Tensors` a tensor's data is an amount. `UsizeMax` stands for the largest `usize`. A file that
  disappears under `read_external` behaves as one that became too short.
- In `NumericCast` the sizes of the integer types, the numbers a float type holds and its rounding
  are constants. The assumptions on them are what the real types satisfy: the array a type is
  written to has room for it; an f32 is an f64; rounding leaves alone what the type holds and
  makes no fraction of an integer; integers of at most 32 bits are exact in an f64. The instance
  for TLC has the same inclusions with 2 to 8 bits. bf16 is read as f16 is (both through f32), and
  complex and 4-bit data, which `to_vec` refuses, is `String` there. The two zeros are one value.
- In `ModelCodec` a raw message (a subgraph, a function, training info) is `BytesOf` the message;
  programs may also put there bytes that decode to nothing. Names, producers, versions, the doc
  strings of model, graph, nodes, values and tensors, the metadata of model, graph and nodes, and
  device configurations, which both directions copy, are left out. What one direction drops
  is modelled: an attribute's doc string (`doc`) and `ref_attr_name` (`ref`), the metadata of a
  value, and, as one number (`unread`), the metadata, the segment and the unknown entries of a
  tensor.
- In `Derive` the Rust type of a field is the kind of attribute it maps to, or "other".

## 3. Runs

Every run is exhaustive within its bounds. "Violation" runs check one statement of the
repository's own documents that the code does not keep.

| Run | Shows | Bounds, and why they are enough |
| --- | --- | --- |
| `builder` | all orders of the builder's calls keep the eight properties | two nodes of up to two outputs, two initializers, one input and one output, names both free and of the composed form: two definitions are what a collision needs, and a failed call needs one more call after it |
| `cycle` | the search on every table of four nodes with at most two dependencies each, duplicates included (`detect_cycle` makes no dependency of a node on itself) | four nodes give a start inside, before and after a cycle and two paths that meet; the proofs cover the rest |
| `attribute` | two attributes, one after another, of all kinds, values that their message says in part and tensors that do not fit their shape among them, and other producers' protos | two fields at a time are what a conflict needs |
| `int_attribute` (violation) | an Int attribute of value 0 cannot be loaded again | as above |
| `export` | what `export_model` lets pass is single assignment and ordered; one or two derived structs are exported exactly when their names are clear | the smallest graphs with a forward reference, a cycle of two nodes and a shadowing name; two structs with default, equal, empty and composed input names; the proofs cover more |
| `op_conversion` | all 19 operators, from structs with `MaxEdits` edited fields and from files one change off the usual, and derived structs of up to two fields | every rule of an operator relates at most two fields, or one field and the arity |
| `tensor` | save, load and resolve in any order, the external file changing at any point | one element type for each way through the decoder; sizes 0 to 12 bytes give an empty, a fitting, a short and a long file; 63 as the largest `usize` lets small dimensions overflow |
| `tensor_shape` (violation) | data read from a file may disagree with its shape | as above |
| `numeric` | read, keep, save, load and borrow in any order | integers of 2, 4, 6 and 8 bits, floats of 5 and 7 bits of precision, the relations of the real types; every number of the smallest, and of the others those next to a limit or to where rounding sets in |
| `numeric_loss` (violation) | a 64-bit integer is read as a rounded float, without an error | as above |
| `model` | files of other producers and models of programs loaded, imported and saved again | one of each thing a graph or a model can hold and of each way it can be unreadable, several of them at once; versions on both sides of each gate |
| `model_details` (violation) | a file that is loaded and saved has lost the bodies of functions, doc strings of attributes, `ref_attr_name`, metadata of values and tensors, denotations and annotated tensors | one file that has each of them, so that the trace shows every loss |

`CHECK_DEADLOCK FALSE` is said where the program may stop: in `cycle` (the search returns),
in `op_conversion` (a refused struct and an unreadable file are final), in `export`
(`export_model` returns) and in the model runs (a model that programs cannot use is all there is
when a file is unreadable and nothing else). Each property has a mutant of a definition it is
about, listed in `PROJECT.json`, under which TLC finds it violated; the mutants stand in the
modules right above what they are mutants of.

Fairness. Only `CycleDetection` has a liveness property (`Returns`), under `WF_vars(Next)`:
`detect_cycle` is a sequential loop with nothing to wait for, so while an iteration is
possible it is taken. Everything else is a library that waits for its caller, and
the caller need never call.

Findings (details in `PROJECT.json`):

1. Attributes of value 0 cannot be read back (`proto/codec.rs:496-500`; run `int_attribute`).
2. `int32_data` (`proto/codec.rs:748`) and external data (`:905`) are compared with no shape
   (run `tensor_shape`).
3. `round_identifies` compares as f64, which hides what 64-bit integers lose (`ir/tensor.rs:339`;
   run `numeric_loss`).
4. The bodies of functions are dropped on saving (`proto/codec.rs:1172`; run `model_details`).
5. A file that is loaded and saved again has lost the doc strings of its attributes
   (`ir/attribute.rs:155`), their `ref_attr_name` (never read), the metadata of values
   (`proto/codec.rs:428-432`, `533`) and of tensors (`:545-551`, `:633-639`), the denotations of
   types and dimensions (`:975`, `:985`) and the tensors its quantization annotations are
   about (`:1089`), while the specification of the codec wants all fields in memory and the second
   file equal to the first (run `model_details` as well). `MeaningOf`, by which `ResavedKeeps`
   compares the two files, leaves out exactly these, the bodies of functions, fields of attributes
   that are not read (sparse tensors, types, the tag), and the form of a tensor's data.

Deviations the modules state as the code has them, and that have no run of their own:

- `push_node` and `push_emitted` keep the claims of a call they refuse (`export.rs:231`, `277`),
  so that a call repeated after the cause is gone may be refused.
- Graph outputs are never checked (`export.rs:165`): a model is exported whose output names no value.
- `declare_opset` takes versions above those the library's own decoder accepts (`export.rs:122`).
- `ElemType::from_disc` does not know `Int2` (`ir/types.rs:74`); `Cast::from_node` narrows an
  i64 with `as i32` (`ml/aionnx.rs:42`). `KnownElemType` and the exception in
  `RecognitionKeepsAttributes` stand for these two.
- Complex tensors are counted in parts (`proto/codec.rs:709`), so that one with dimensions is
  refused when it is well formed.
- `to_vec` refuses NaN, even for the tensor's own type, as NaN equals nothing.
- Numbers in an `int32_data` or `uint64_data` of another producer that do not fit the element's
  type wrap silently (`proto/codec.rs:724`, `833`).
- The alias "ai.onnx" of the core domain is known to the version gate (`proto/codec.rs:49`) and to
  nothing else.
- A tensor is written without the dimensions that are not fixed (`proto/codec.rs:546`), so that
  another tensor is read back, or none if its data does not fit the rest; a `GraphRef` comes
  back under the name inside its bytes (`proto/codec.rs:363`, `466-469`). `SavedIsNeverMisread`
  excepts both by `WrittenInPart`: what is read back is then only known to be of the same kind.
- Without dimensions, any number of elements passes for a tensor's (`proto/codec.rs:649`, the
  exception in `CheckedTypesFitShape`).

## 4. Proofs

| Module | Inductive invariant | Theorems |
| --- | --- | --- |
| `ExportProofs` | `BuilderInv`, `ExportInv`, `DerivedInv` | every property of the runs `builder` and `export`: the builder in any order of calls, that it implements `ValueTable`, `export_model` for any `to_graph`, any number of derived structs |
| `CycleDetectionProofs` | `SearchInv` | every safety property of the run `cycle`, and that the search implements `CycleReport` |
| `AttributeCodecProofs` | `CodecInv` | every property of the run `attribute` |
| `OpConversionProofs` | `ConversionInv` | every property of the run `op_conversion` |
| `NumericCastProofs` | `NumericInv` | every property of the run `numeric` |
| `TensorCodecProofs` | `Inv` (below) | every property of the run `tensor` |
| `ModelCodecProofs` | `Inv` (below) | every property of the run `model` |

Each theorem holds for every value of the constants that satisfies the named assumptions of its
module. Each inductive invariant, `NamesAheadAreFree` included, was also
checked by TLC on the instance of its run (`CodecInv` with its quantifier instantiated).

### Builder and export (`ExportProofs`)

Assumptions: those of `GraphBuilder` on its constants (names composed for nodes are value names,
what callers pass is of the right type), and that operator, domain and input name of a declaration
are.

`BuilderInv` joins `TypeOK` to `Sound(graph, defined)`: the graph is single assignment and *all it
defines is claimed*. The second half is what makes the first inductive: a call knows that a name
was not claimed, and only through `DefinitionsAreClaimed` that it is not defined. The
lemmas `AddInput`, `AddInitializers` and `AddNode` say that adding definitions under free
names keeps a graph sound, whatever was added to the claims besides; that is why the
claims a failed call leaves behind do no harm here. Each call is one lemma, its success and
its refusal one case each. The properties of the imports go through `ImportsStep`: of imports and
nodes, a step changes neither, or raises one import, or adds a node and raises the import of
its domain; raising lowers none (`RaiseOnlyRaises`).

Three more results about the builder rest on `BuilderInv`.

- `BuilderImplementsTable`: places where names are defined are only added (`CallsAdd`,
  `DefinitionsStay`, `SitesStay`), and single assignment leaves one place for each name
  (`OneSite`), so that every step is one of `ValueTable` or a stutter.
- `FailedCallsAreContained`: what a refused call leaves behind is claims, and initializers behind
  those that were there. Only `push_emitted` can have added initializers by the time it fails
  (`PushEmittedContained`).
- `BuilderNamesAreFree`: that the *next* node's composed names are free is not inductive, as the call
  that uses them makes another node the next. `NamesAheadAreFree` says it of all nodes to come; it
  is kept because a step claims only what its caller names and what it composes for
  its own node (`StepKeepsToItsOwn`), and composed names differ by node (`AutoNamesDiffer`).

`ExportInv` joins `BuilderInv` to what `phase` says of `report`. The work is in
lemmas about `ValidationErrors` of *any* graph in single assignment form: what is accepted is ordered
(`AcceptedIsOrdered`); where nothing is undefined, each node depends only on nodes before it,
so that the dependencies have no cycle (`OrderedIsAcyclic`, by taking the first of any set of nodes,
`FirstPlace`); and no name but the empty one, or an output's, is reported as a duplicate
(`BuiltGraphCollidesNowhere`).

`DerivedInv` adds to `ExportInv` that, until a call is refused, the graph is that of the
first structs (`Progress`), and that with clear names none is refused. One way: clear names are free
when their turn comes (`ClearNamesAreFree`), the composed ones because they differ by node
(`OutputNamesDiffer`), and the graph that results has nothing for validation to find
(`ClearSidesAreValid`). The other way: a graph of all the structs that validation accepts has
clear names, since it is in single assignment form (`SidesAreClear`).

### Cycle search (`CycleDetectionProofs`)

Assumptions: the number of nodes is a natural number. `SearchInv` adds to
the checked invariants that what a gray node has examined is not white
(`Examined`), that a white node's counter is untouched (`WhiteUntouched`), that no black node is on a
cycle (`DoneIsAcyclic`) and that starts already met are not white (`StartsMet`). From these
`AnswerIsRight` follows for any number of nodes, and with it that the search implements
`CycleReport`, the contract `Validation` uses.

### Attributes (`AttributeCodecProofs`)

Assumptions: programs build attribute values, producers write protos. The
two lemmas `DecodedField` (one field alone was read) and `PlainValueIsDurable` (a value with
content that is neither to be repaired nor more than its message says is read back) carry `CodecInv`,
that the file is what was last saved and that whatever was loaded is durable. A value that is
written in part is written as another, plain, value of its kind is; `SavedAttributesAreNotMisread`
applies the second lemma to that one.

### Typed operators (`OpConversionProofs`)

Assumptions: programs start from structs and put into their fields what the Rust types take; other
producers' nodes are nodes of files. The arity of a node, the structs, the files, the declarations
and the number of edits are arbitrary.

About the 19 schemas the proofs need few facts, stated as `IsSound` and proved of each
(`SchemasAreSound`): what must be there on reading is always written, what may not be empty is a
list that must be there, and a plain field that need not be there is one of the parallel arrays. These
are the places where the hand-written `to_node` and `from_node` have to agree.

`StandsFor(node, struct)` is the middle term: the node has each field of the struct once, with its kind
and content, and an operator and arity `to_node` accepts. What `to_node` emits stands for its struct
(`EmittedStandsFor`, with `StructAttributes` for the attributes pushed one by one); so does the node of
a derived struct for its counterpart (`CounterpartStands`, with `DerivedList`: no name is pushed
twice, since `expand` refuses equal names); and whatever stands for a struct is recognised as it
(`StandingIsRecognised`). `ToNodeIsLossless` is the combination.

The other direction, `RecognisedStruct`: what `from_node` returns is a struct, though it does not ask for
the parallel arrays; one that is missing would be empty, and as the lead is not it would not be
parallel. `LoadedStruct`: what was recognised in a *file* can be written, though `from_node` lets an
empty list pass where `to_node` does not (`LinearRegressor`); no list read from a file is empty, as
an empty one is not there. `PortableStays`: a struct whose fields all read back as something, its node
saved and loaded, still stands for it; a field reads back when it is `Lasting`, neither empty nor a
tensor that its message says in part. `ConversionInv` says for each stage which of these holds, the
struct last exported being the witness; that it keeps whether that struct came from a file is
what makes it inductive across `Save` and `Load`.

### Numbers (`NumericCastProofs`)

Assumptions: those on sizes and rounding given in section 2, so that the theorems are
about every width of integer and every float format. `NumericInv` says that numbers stay within
their type, that a result is `to_vec` or `as_slice` of the tensor there is, and that what was saved
is the array in the file. `AcceptedIsExact` comes from `round_identifies`: for what an f64 tells apart, to cast
and to cast back is to have lost nothing. That `OnlyLossIsRefused` is its converse: of an element the type
holds, the cast and the check both succeed. `StoredSurvives` is that wrapping into a type
is the identity on the type, which needs the wider array to have room.

### Tensors (`TensorCodecProofs`)

Assumptions: programs build tensors, other producers write tensor protos, external files have
natural sizes, and the largest `usize` is a natural number. The inductive invariant `Inv` is

- `WireIsSaved`: the file holds the encoding of what was last saved;
- `Provenance`: a loaded tensor is *durable* (`TensorIsDurable`), one the builder took is an initializer,
  and the same of what was saved;
- `ReadingIsAnnounced`: between measuring the external file and reading it, the place and
  length to be read are those of the reference and were within the file.

`LoadedTensorIsDurable` carries `LoadedSurvives`: the amounts on the wire are those that
`decode_tensor` counted, field by field (`DataFound`). `InitializersLoad` is that the builder and the
decoder, which compute the number of elements of a shape in two different ways (one overflowing
to `None`, the other saturating), agree where both are defined (`CountsAgree`). `ReadingIsAnnounced` is
needed for `ResolvedIsAnnounced`: the two system calls are two steps, and the file may
change between them.

### Models (`ModelCodecProofs`)

Assumptions: programs build models, other producers write model protos. The inductive invariant
`Inv` says where the things in memory come from: a loaded model is the decoding of a file
that was readable, the saved file is the encoding of the model in memory at that time, and
what was imported is the model. The properties then are lemmas about one trip through the codec:
`LoadedModelKeeps` (with `NodesKeep`, `TensorsKeep`, `InfosKeep`, `SparseKeep`, `GraphKeeps`,
`TrainingKeeps`, `FunctionsKeepNames`) composes what is known of the parts: `LoadedNodeKeeps`,
`TypeKeeps` and `LoadedTensorIsDurable` of `CodecLemmas`. Of a raw message the lemmas use only that
its bytes are as they were. `RewrittenSaysTheSame` says that a node,
read and written, has the attributes it had, in their order, each with its fields, though not with its
doc string. For import,
`PayloadKeeps` says that what became of a node still accounts for it and for each of its attributes,
and `SubgraphIsSeen` that no attribute with a graph inside goes unreported.

### What is only model-checked

- `Returns`, that the cycle search ends: liveness under fairness is out of the provers' reach.
- The four violations: TLC's counterexamples are the evidence.

Induction over data in its library form is out of reach too. Where a recursive function goes through
a sequence (`FixedDims`, `Expected`, `FixedLen`, `DerivedAttributes`) or a fold through a set
(`AttributesOf`), the proofs state what it yields after `m` steps as a set of numbers `m`
and show the set to be closed under adding one (`CountingUp`, from the least counterexample);
that the function exists at all is `StepByStep`.

## 5. Plan

Done: every part of section 1 that has operations is modelled and checked; the proofs of section 4.

Each property of a passing run is stated by a theorem, `Returns` excepted.

Left:

1. Whether what was exported can be loaded again. The builder's graph (names) and the codec's
   (contents) are abstracted differently, so this needs a graph with both; that the answer is no for
   versions the decoder refuses is listed above.
2. Where element types come from a number in a file (`as i32` in `Cast::from_node`), and the count of
   complex elements: stated as deviations above, without a property of their own.

## 6. Not modelled

- The generated protobuf code and prost: a message is the record of its fields.
- Examples, tests and scripts: read as documentation, they add no operation.
- Byte order, UTF-8, the wording of errors and warnings, and the accessors and the visitor
  of `DecodedModel`, which keep no state.

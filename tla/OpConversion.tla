----------------------------- MODULE OpConversion -----------------------------
(***************************************************************************)
(* One operator on its way between the typed struct, the node of the IR    *)
(* and the node of a file, each step taking what the step before it left:  *)
(* to_node, encode_node, decode_node and make_node_payload. A node may     *)
(* also come from a struct of the program's own that derives OnnxExport.   *)
(***************************************************************************)
EXTENDS OpNodes, Derive

CONSTANTS
  Structs,       \* the structs programs begin with
  Files,         \* the nodes of files that other producers write
  FieldContents, \* by kind, what programs put in the public fields of a struct
  Declarations,  \* the structs that programs derive OnnxExport for
  OwnContents,   \* by kind, what they put in the fields of those
  MaxEdits       \* bound: fields a program changes

ASSUME ConversionAssumption ==
  /\ \A s \in Structs : IsStruct(s)
  /\ \A f \in Files : f \in FileNode
  /\ \A k \in Kind : \A c \in FieldContents[k] : [kind |-> k, content |-> c] \in AttributeValue
  /\ \A d \in Declarations : d \in Declaration
  /\ \A k \in AttrKinds : \A c \in OwnContents[k] : [kind |-> k, content |-> c] \in AttributeValue
  /\ MaxEdits \in Nat

\* Bound: how many inputs and outputs a node is given.
Arity == 0..3

-----------------------------------------------------------------------------
VARIABLES
  stage,     \* what item is: "struct", "node", "file", "raw", or how the step failed
  item,      \* the struct, the node or the file's node
  fromFile,  \* whether item has been in a file since the program last changed it
  exported,  \* the struct last exported and its fromFile; NotExported when there is none
  edits      \* how many fields the program has changed

vars == <<stage, item, fromFile, exported, edits>>

NotExported == [struct |-> [op |-> "none", fields |-> <<>>], fromFile |-> FALSE]

\* The node of the generated to_graph: one input, one output, no field checked.
DerivedNode(declaration, values) ==
  [name |-> NoText, op |-> TextOf(declaration.container, "op"),
   domain |-> TextOf(declaration.container, "domain"), inputs |-> 1, outputs |-> 1,
   attributes |-> DerivedAttributes(declaration, values)]

\* The typed struct of the library that says the same, when there is one that to_node
\* would write with one input and one output.
Counterpart(node) ==
  LET struct == [op |-> node.op, fields |-> [a \in NamesOf(node) |-> ContentOf(node, a)]] IN
  IF /\ node.op \in DOMAIN Schemas
     /\ node.domain = Schemas[node.op].domain
     /\ Schemas[node.op].plain \subseteq NamesOf(node)
     /\ \A i \in DOMAIN node.attributes :
          LET a == node.attributes[i] IN
          a.name \in DOMAIN Schemas[node.op].attrs /\ Schemas[node.op].attrs[a.name] = a.value.kind
     /\ Emittable(struct, 1, 1)
  THEN [struct |-> struct, fromFile |-> FALSE]
  ELSE NotExported

Init ==
  /\ \/ /\ stage = "struct"
        /\ item \in Structs
        /\ exported = NotExported
     \/ /\ stage = "file"
        /\ item \in Files
        /\ exported = NotExported
     \/ /\ stage = "node"
        /\ item \in UNION {{DerivedNode(d, values) : values \in Instances(d, OwnContents)} :
                            d \in {c \in Declarations : Derivable(c)}}
        /\ exported = Counterpart(item)
  /\ fromFile = (stage = "file")
  /\ edits = 0

\* A public field is set.
SetField(a, content) ==
  /\ stage = "struct"
  /\ edits < MaxEdits
  /\ item' = [item EXCEPT !.fields = [b \in DOMAIN @ \cup {a} |-> IF b = a THEN content ELSE @[b]]]
  /\ fromFile' = FALSE
  /\ edits' = edits + 1
  /\ UNCHANGED <<stage, exported>>

\* A field that is an Option is set to None.
ClearField(a) ==
  /\ stage = "struct"
  /\ edits < MaxEdits
  /\ item' = [item EXCEPT !.fields = [b \in DOMAIN @ \ {a} |-> @[b]]]
  /\ fromFile' = FALSE
  /\ edits' = edits + 1
  /\ UNCHANGED <<stage, exported>>

ToNode(inputs, outputs) ==
  /\ stage = "struct"
  /\ IF Emittable(item, inputs, outputs)
     THEN /\ stage' = "node"
          /\ item' = Emitted(item, inputs, outputs)
          /\ exported' = [struct |-> item, fromFile |-> fromFile]
     ELSE /\ stage' = "refused"
          /\ UNCHANGED <<item, exported>>
  /\ fromFile' = FALSE
  /\ UNCHANGED edits

Save ==
  /\ stage = "node"
  /\ stage' = "file"
  /\ item' = EncodeNode(item)
  /\ UNCHANGED <<fromFile, exported, edits>>

Load ==
  /\ stage = "file"
  /\ IF Readable(item)
     THEN /\ stage' = "node"
          /\ item' = DecodeNode(item)
     ELSE /\ stage' = "unreadable"
          /\ UNCHANGED item
  /\ fromFile' = TRUE
  /\ UNCHANGED <<exported, edits>>

\* make_node_payload: the typed struct, or the node kept as it is.
Recognise ==
  /\ stage = "node"
  /\ IF Recognised(item)
     THEN /\ stage' = "struct"
          /\ item' = StructOf(item)
     ELSE /\ stage' = "raw"
          /\ UNCHANGED item
  /\ UNCHANGED <<fromFile, exported, edits>>

Next ==
  \/ /\ stage = "struct"
     /\ LET schema == Schemas[item.op] IN
        \/ \E a \in DOMAIN schema.attrs :
             \E c \in IF a = "to" THEN ElemTypes ELSE FieldContents[schema.attrs[a]] :
               SetField(a, c)
        \/ \E a \in DOMAIN item.fields \ schema.plain : ClearField(a)
        \/ \E inputs, outputs \in Arity : ToNode(inputs, outputs)
  \/ Save
  \/ Load
  \/ Recognise

Spec == Init /\ [][Next]_vars

-----------------------------------------------------------------------------
(* Properties.                                                             *)

\* The ElemType a struct names is one from_disc gives back, and not UNDEFINED.
KnownElemType(struct) == "to" \in DOMAIN struct.fields => struct.fields["to"] \in 1..25

TypeOK ==
  /\ stage \in {"struct", "node", "file", "raw", "refused", "unreadable"}
  /\ stage = "struct" => IsStruct(item)
  /\ stage = "node" => item \in Node
  /\ stage = "file" => item \in FileNode

\* onnx-ml-ops, "Round-trip sem perda por op": of every struct to_node accepts, the
\* node it makes is recognised, and as that struct: all 19 operators, empty arrays and
\* absent defaults included. The same of a derived struct that has a counterpart among
\* them: its node is the counterpart's. (ElemTypes from_disc does not know aside.)
ConversionLossless ==
  stage = "node" /\ ~fromFile /\ exported # NotExported /\ KnownElemType(exported.struct) =>
    Recognised(item) /\ StructOf(item) = exported.struct

\* What was recognised in a file can be written again, and is read from the file as the
\* same struct: a typed operator, once loaded, is safe.
RecognisedSurvives ==
  /\ stage = "struct" /\ fromFile /\ KnownElemType(item) =>
       \A inputs \in Schemas[item.op].inputs \cap Arity :
         Emittable(item, inputs, Schemas[item.op].outputs)
  /\ stage = "file" /\ exported.fromFile /\ KnownElemType(exported.struct) =>
       /\ Readable(item)
       /\ Recognised(DecodeNode(item))
       /\ StructOf(DecodeNode(item)) = exported.struct

\* Nothing a node says is lost on those who look only at the typed struct: each of its
\* attributes is a field, with its content. (Cast's to, when it does not fit an i32, is cut
\* down to one that does, and may name another type.)
RecognitionKeepsAttributes ==
  stage = "node" /\ Recognised(item) =>
    \A i \in DOMAIN item.attributes :
      LET a == item.attributes[i] IN
      (a.name = "to" => a.value.content \in I32)
      => /\ a.name \in DOMAIN StructOf(item).fields
         /\ StructOf(item).fields[a.name] = a.value.content

=============================================================================

------------------------------- MODULE OpNodes -------------------------------
(***************************************************************************)
(* One operator as the typed struct (src/src/ml), as the node of the IR    *)
(* and as the node of a file, and the conversions between them: to_node,   *)
(* encode_node, decode_node, from_node.                                    *)
(*                                                                         *)
(* A struct is its op_type and a function from the fields that are set to  *)
(* their content, an array's being its length (Attributes says what        *)
(* content stands for). A node keeps its name, its domain, how many inputs *)
(* and outputs it has, and its attributes in order, each with its name and *)
(* its doc string. Its own doc string, metadata and device configurations  *)
(* are copied both ways, and left out.                                     *)
(***************************************************************************)
EXTENDS Attributes, OpSchemas, OptionalText, FiniteSetsExt, Sequences

CONSTANT I32Size    \* how many values an i32 has

ASSUME WidthAssumption == I32Size \in Nat /\ I32Size > 2 * 26

\* The discriminants of ElemType, and those of them that from_disc knows.
ElemTypes == 0..26

\* Mutant of FromDisc: the last type it knows is left out as well.
FromDiscShort(v) == v \in 0..24

\* Mutant of FromDisc: any number passes for a type.
FromDiscAny(v) == TRUE

FromDisc(v) == v \in 0..25

I32 == -(I32Size \div 2)..(I32Size \div 2 - 1)

\* to_raw as i32: the low bits, in two's complement.
AsI32(n) == ((n + I32Size \div 2) % I32Size) - I32Size \div 2

\* What operators, domains and attributes are called. (That the names of the schemas are
\* strings is said because no prover knows.)
Name ==
  STRING \cup DOMAIN Schemas
         \cup UNION {{Schemas[op].domain} \cup DOMAIN Schemas[op].attrs : op \in DOMAIN Schemas}

NodeAttribute == [name : Name, value : AttributeValue, doc : Text]

Node ==
  [name : MaybeText, op : Name, domain : Name, inputs : Nat, outputs : Nat,
   attributes : Seq(NodeAttribute)]

\* ref is ref_attr_name: the attribute of the enclosing function that this one stands for.
FileAttribute == [name : Name, proto : Proto, doc : Text, ref : Text]

FileNode ==
  [name : Text, op : Name, domain : Name, inputs : Nat, outputs : Nat,
   attributes : Seq(FileAttribute)]

\* Content of each field is what its Rust type says.
IsStruct(struct) ==
  /\ struct = [op |-> struct.op, fields |-> struct.fields]
  /\ struct.op \in DOMAIN Schemas
  /\ LET schema == Schemas[struct.op] IN
     /\ schema.plain \subseteq DOMAIN struct.fields
     /\ DOMAIN struct.fields \subseteq DOMAIN schema.attrs
     /\ IsFiniteSet(DOMAIN struct.fields)
     /\ struct.fields \in [DOMAIN struct.fields -> Int]
     /\ \A a \in DOMAIN struct.fields :
          [kind |-> schema.attrs[a], content |-> struct.fields[a]] \in AttributeValue
  /\ "to" \in DOMAIN struct.fields => struct.fields["to"] \in ElemTypes

-----------------------------------------------------------------------------
(* The struct's own rules, checked when it is written and when it is read. *)

SetIn(group, fields) == Cardinality(group \cap DOMAIN fields)

\* All arrays present are as long as the lead, which is not empty.
InParallel(group, fields) ==
  /\ fields[group.lead] > 0
  /\ \A a \in group.others \cap DOMAIN fields : fields[a] = fields[group.lead]

Consistent(schema, fields) ==
  /\ \A g \in schema.exactlyOne : SetIn(g, fields) = 1
  /\ \A g \in schema.atMostOne : SetIn(g, fields) <= 1
  /\ \A g \in schema.parallel : InParallel(g, fields)

Filled(names, fields) == \A a \in names : fields[a] > 0

-----------------------------------------------------------------------------
(* to_node.                                                                *)

\* Attribute::new; a doc string is only there when it is set afterwards.
Attr(name, kind, content) ==
  [name |-> name, value |-> [kind |-> kind, content |-> content], doc |-> EmptyText]

\* One attribute for each field set, in some order: from_node does not look at it.
AttributesOf(struct) ==
  FoldSet(LAMBDA a, list : Append(list, Attr(a, Schemas[struct.op].attrs[a], struct.fields[a])),
          <<>>, DOMAIN struct.fields)

Emitted(struct, inputs, outputs) ==
  [name |-> NoText, op |-> struct.op, domain |-> Schemas[struct.op].domain,
   inputs |-> inputs, outputs |-> outputs, attributes |-> AttributesOf(struct)]

\* Mutant of Emittable: every operator takes one input.
EmittableOneInput(struct, inputs, outputs) ==
  LET schema == Schemas[struct.op] IN
  /\ Consistent(schema, struct.fields)
  /\ Filled(schema.filled, struct.fields)
  /\ inputs = 1
  /\ outputs = schema.outputs

\* to_node accepts the struct and the names it is given.
Emittable(struct, inputs, outputs) ==
  LET schema == Schemas[struct.op] IN
  /\ Consistent(schema, struct.fields)
  /\ Filled(schema.filled, struct.fields)
  /\ inputs \in schema.inputs
  /\ outputs = schema.outputs

-----------------------------------------------------------------------------
(* from_node.                                                              *)

NamesOf(node) == {node.attributes[i].name : i \in DOMAIN node.attributes}

ContentOf(node, name) ==
  node.attributes[CHOOSE i \in DOMAIN node.attributes : node.attributes[i].name = name].value.content

\* Mutant of TableRead: attributes the operator does not know are let pass.
TableReadUnfinished(schema, node) ==
  /\ Cardinality(NamesOf(node)) = Len(node.attributes)
  /\ schema.required \subseteq NamesOf(node)
  /\ \A i \in DOMAIN node.attributes :
       LET a == node.attributes[i] IN
       a.name \in DOMAIN schema.attrs => a.value.kind = schema.attrs[a.name]

\* AttrTable: no attribute twice, none missing, each of its kind, none left over.
TableRead(schema, node) ==
  /\ Cardinality(NamesOf(node)) = Len(node.attributes)
  /\ schema.required \subseteq NamesOf(node)
  /\ \A i \in DOMAIN node.attributes :
       LET a == node.attributes[i] IN
       a.name \in DOMAIN schema.attrs /\ a.value.kind = schema.attrs[a.name]

\* The fields read: a plain array that is missing is empty, Cast's to is an ElemType.
FieldsRead(schema, node) ==
  [a \in (NamesOf(node) \cap DOMAIN schema.attrs) \cup schema.plain |->
     IF a \notin NamesOf(node) THEN 0
     ELSE IF a = "to" THEN AsI32(ContentOf(node, a))
     ELSE ContentOf(node, a)]

\* from_node of the operator that make_node_payload picked by domain and op_type.
Recognised(node) ==
  /\ node.op \in DOMAIN Schemas
  /\ LET schema == Schemas[node.op] IN
     /\ node.domain = schema.domain
     /\ node.inputs \in schema.inputs
     /\ node.outputs = schema.outputs
     /\ TableRead(schema, node)
     /\ LET fields == FieldsRead(schema, node) IN
        /\ Consistent(schema, fields)
        /\ Filled(schema.filledOnRead, fields)
        /\ "to" \in DOMAIN fields => FromDisc(fields["to"])

StructOf(node) == [op |-> node.op, fields |-> FieldsRead(Schemas[node.op], node)]

-----------------------------------------------------------------------------
(* The node in a file.                                                     *)

\* encode_attribute sets no ref_attr_name.
InFileAs(attribute) ==
  [name |-> attribute.name, proto |-> EncodeAttribute(attribute.value),
   doc |-> attribute.doc, ref |-> EmptyText]

EncodeNode(node) ==
  [node EXCEPT !.name = TextInFile(@),
               !.attributes = [i \in DOMAIN @ |-> InFileAs(@[i])]]

DecodedAttribute(file, i) == DecodeAttribute(file.attributes[i].proto)

\* decode_node fails, and the whole file with it, when one attribute does.
Readable(file) == \A i \in DOMAIN file.attributes : DecodedAttribute(file, i).outcome = "Ok"

\* attribute_from_fields leaves the doc string empty, and decode_attribute does not look
\* at ref_attr_name.
ReadFrom(name, value) == [name |-> name, value |-> value, doc |-> EmptyText]

DecodeNode(file) ==
  [file EXCEPT !.name = TextInMemory(@),
               !.attributes = [i \in DOMAIN @ |->
                 ReadFrom(@[i].name, DecodedAttribute(file, i).value)]]

=============================================================================

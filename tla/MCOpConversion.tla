---------------------------- MODULE MCOpConversion ----------------------------
(* Every operator, a typical struct and a typical file of it, and the ways off it. *)
EXTENDS OpConversion

FirstOf(group) == CHOOSE a \in group : TRUE

\* A struct that to_node accepts: the plain fields, one of each group, and one more.
TypicalNames(schema) ==
  schema.plain \cup {FirstOf(g) : g \in schema.exactlyOne}

Typical(op) == [op |-> op, fields |-> [a \in TypicalNames(Schemas[op]) |-> 1]]

MCStructs == {Typical(op) : op \in DOMAIN Schemas}

MCFieldContents ==
  [k \in Kind |-> IF k = "Tensor" THEN {-2, 1}
                  ELSE IF k \in Messages THEN {1}
                  ELSE IF k \in Lists THEN {0, 1, 2} ELSE {0, 1}]

MCOwnContents == [k \in AttrKinds |-> {0, 1}]

TypicalNode(op) == Emitted(Typical(op),
                           IF op = "Gather" THEN 2 ELSE 1, Schemas[op].outputs)
TypicalFile(op) == EncodeNode(TypicalNode(op))

WithAttribute(file, name, kind, content) ==
  [file EXCEPT !.attributes = Append(@, InFileAs(Attr(name, kind, content)))]

Without(file, i) == [file EXCEPT !.attributes = SubSeq(@, 1, i - 1) \o SubSeq(@, i + 1, Len(@))]

\* Another producer's file: one attribute more (of any kind, known or not, maybe the
\* second of its name), one less, one retyped, or inputs and outputs of another number.
Variants(file) ==
  LET known == DOMAIN Schemas[file.op].attrs IN
  {file}
  \cup {WithAttribute(file, a, k, c) :
          a \in known \cup {"other"}, k \in {"Int", "Ints", "Tensor", "Graph"}, c \in {1, 2}}
  \cup {WithAttribute(file, a, Schemas[file.op].attrs[a], c) : a \in known, c \in {1, 2}}
  \cup {Without(file, i) : i \in DOMAIN file.attributes}
  \cup {[file EXCEPT !.inputs = n] : n \in Arity}
  \cup {[file EXCEPT !.outputs = n] : n \in Arity}
  \cup {[file EXCEPT !.op = "Other"]}
  \cup {[file EXCEPT !.domain = d] : d \in {"", "ai.onnx.ml"}}

\* What a Cast may ask for: a type, none the library knows, and two beyond an i32.
Wide(content) ==
  [name |-> "", op |-> "Cast", domain |-> "", inputs |-> 1, outputs |-> 1,
   attributes |-> <<InFileAs(Attr("to", "Int", content))>>]

MCFiles ==
  UNION {Variants(TypicalFile(op)) : op \in DOMAIN Schemas}
  \cup {Wide(c) : c \in {1, 25, 26, 27, 63, 64, 65}}

-----------------------------------------------------------------------------
(* Structs that derive OnnxExport: of an operator's own attributes, of others, of    *)
(* attributes named twice, of types that stand for no attribute, of annotations that  *)
(* are missing, empty or given twice.                                                *)

Key(key, text) == [key |-> key, text |-> text]

Declared(op, domain, fields) ==
  [container |-> <<Key("op", op), Key("domain", domain)>>, fields |-> fields]

Field(name, kind, optional) ==
  [annotations |-> <<Key("attr", name)>>, kind |-> kind, optional |-> optional]

Skipped == [annotations |-> <<Key("ty", "none")>>, kind |-> "other", optional |-> FALSE]

FieldChoices(schema) ==
  {Field(a, schema.attrs[a], o) :
     a \in {b \in DOMAIN schema.attrs : schema.attrs[b] \in AttrKinds}, o \in BOOLEAN}
  \cup {Field("other", "Floats", FALSE), Field("", "Ints", FALSE), Skipped,
        [annotations |-> <<Key("attr", "scale"), Key("ty", "floats")>>, kind |-> "Floats", optional |-> FALSE],
        [annotations |-> <<Key("attr", "scale"), Key("ty", "int")>>, kind |-> "Floats", optional |-> FALSE]}

FieldLists(op) ==
  LET choices == FieldChoices(Schemas[op]) IN
  {<<f>> : f \in choices} \cup {<<f, g>> : f, g \in choices}

\* Two fields are all the rules of these operators relate; a tree needs all its arrays.
Derivers == {"Scaler", "Imputer", "OneHotEncoder", "LinearRegressor", "FeatureVectorizer", "Cast"}

Tree ==
  LET names == TreeArrays \cup {"target_ids", "target_nodeids", "target_treeids"} IN
  FoldSet(LAMBDA a, list : Append(list, Field(a, TreeEnsembleRegressor.attrs[a], FALSE)), <<>>, names)

MCDeclarations ==
  UNION {{Declared(op, d, fields) : d \in {"ai.onnx.ml", ""}, fields \in FieldLists(op)} : op \in Derivers}
  \cup {Declared("TreeEnsembleRegressor", "ai.onnx.ml", Tree)}
  \cup {[container |-> c, fields |-> <<Field("scale", "Floats", FALSE)>>] :
           c \in {<<>>, <<Key("op", "Scaler")>>,
                  <<Key("op", "Other"), Key("domain", "ai.onnx.ml"), Key("op", "Scaler")>>,
                  <<Key("op", "Scaler"), Key("domain", "ai.onnx.ml"), Key("name", "s")>>}}
=============================================================================

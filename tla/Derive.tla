-------------------------------- MODULE Derive --------------------------------
(***************************************************************************)
(* #[derive(OnnxExport)] (src/serde-onnx-macros/src/lib.rs): which structs *)
(* it takes, and the operator, the names and the attributes that the code  *)
(* it generates uses.                                                      *)
(*                                                                         *)
(* A declaration is what is written at the struct: the annotations of the  *)
(* container, pairs of key and text in the order they are read, and for    *)
(* each named field its annotations, the kind of attribute its Rust type   *)
(* stands for ("other" when none does) and whether it is an Option. What   *)
(* is no struct with named fields does not compile, nor does #[onnx] in    *)
(* any other form.                                                         *)
(***************************************************************************)
EXTENDS Integers, Sequences, FiniteSetsExt

Annotation == [key : STRING, text : STRING]

Declaration ==
  [container : Seq(Annotation),
   fields : Seq([annotations : Seq(Annotation), kind : STRING, optional : BOOLEAN])]

\* infer_kind, and the names from_ty_name has for them.
KindNamed ==
  [floats |-> "Floats", float |-> "Float", ints |-> "Ints", int |-> "Int",
   strings |-> "Strings", string |-> "String"]

AttrKinds == {KindNamed[n] : n \in DOMAIN KindNamed}

ContainerKeys == {"op", "domain", "input"}
FieldKeys == {"attr", "ty"}

\* The places where a key is given; of several, the last one counts.
Given(annotations, key) == {i \in DOMAIN annotations : annotations[i].key = key}

TextOf(annotations, key) == annotations[Max(Given(annotations, key))].text

OnlyKeys(annotations, keys) == \A i \in DOMAIN annotations : annotations[i].key \in keys

\* Given, and not empty.
Stated(annotations, key) == Given(annotations, key) # {} /\ TextOf(annotations, key) # ""

\* parse_container; the name of the input may be anything.
ContainerTaken(annotations) ==
  /\ OnlyKeys(annotations, ContainerKeys)
  /\ Stated(annotations, "op")
  /\ Stated(annotations, "domain")

\* A field without attr is not exported, whatever its type, and its ty is not looked at.
IsExported(field) == Given(field.annotations, "attr") # {}

\* parse_field
FieldTaken(field) ==
  /\ OnlyKeys(field.annotations, FieldKeys)
  /\ IsExported(field) =>
       /\ Stated(field.annotations, "attr")
       /\ field.kind \in AttrKinds
       /\ Given(field.annotations, "ty") # {} =>
            /\ TextOf(field.annotations, "ty") \in DOMAIN KindNamed
            /\ KindNamed[TextOf(field.annotations, "ty")] = field.kind

AttrName(field) == TextOf(field.annotations, "attr")

\* The places of the fields that are exported.
ExportedFields(declaration) ==
  {i \in DOMAIN declaration.fields : IsExported(declaration.fields[i])}

\* expand: the struct compiles.
Derivable(declaration) ==
  LET fields == declaration.fields
      exported == ExportedFields(declaration)
  IN
  /\ ContainerTaken(declaration.container)
  /\ \A i \in DOMAIN fields : FieldTaken(fields[i])
  /\ exported # {}
  /\ \A i, j \in exported : AttrName(fields[i]) = AttrName(fields[j]) => i = j

InputName(declaration, default) ==
  IF Given(declaration.container, "input") = {} THEN default
  ELSE TextOf(declaration.container, "input")

-----------------------------------------------------------------------------
(* The attributes the generated to_graph gives its node. values has an     *)
(* entry for the place of each exported field, but for Options that are    *)
(* None.                                                                   *)

\* contents says for each kind what its fields hold.
Instances(declaration, contents) ==
  LET fields == declaration.fields
      exported == ExportedFields(declaration)
      always == {i \in exported : ~fields[i].optional}
      Values(set) ==
        {v \in [set -> UNION {contents[k] : k \in AttrKinds}] :
           \A i \in set : v[i] \in contents[fields[i].kind]}
  IN UNION {Values(set) : set \in {s \in SUBSET exported : always \subseteq s}}

DerivedAttributes(declaration, values) ==
  LET fields == declaration.fields
      Of(i) == [name |-> AttrName(fields[i]),
                value |-> [kind |-> fields[i].kind, content |-> values[i]], doc |-> ""]
      pushed[i \in 0..Len(fields)] ==
        IF i = 0 THEN <<>>
        ELSE IF i \in DOMAIN values THEN Append(pushed[i - 1], Of(i))
        ELSE pushed[i - 1]
  IN pushed[Len(fields)]

=============================================================================

--------------------------- MODULE MCAttributeCodec ---------------------------
(* Attributes of every kind, and protos of other producers with up to two fields. *)
EXTENDS AttributeCodec

\* -2 is a negative number, or a value that says more than its message, 2.
MCBuilt == {v \in [kind : Kind, content : {-2, Broken, 0, 1, 2}] : v \in AttributeValue}

OnWire(fields) == [k \in Kind |-> IF k \in DOMAIN fields THEN fields[k] ELSE Unset]

Contents(kind) ==
  IF kind \in {"String", "Strings", "Tensor", "Tensors"} THEN {Broken, 1, 2} ELSE {1, 2}

MCForeign ==
  {OnWire([k \in {} |-> Unset])}
  \cup UNION {{OnWire([k \in {a} |-> x]) : x \in Contents(a)} : a \in Kind}
  \cup UNION {{OnWire([k \in {ab[1], ab[2]} |-> IF k = ab[1] THEN x ELSE y]) :
                 x \in Contents(ab[1]), y \in {1}} : ab \in Kind \X Kind}
=============================================================================

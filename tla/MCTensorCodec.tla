---------------------------- MODULE MCTensorCodec ----------------------------
(* Tensors of one element type for each way through the codec. *)
EXTENDS TensorCodec

Elems == {"Float", "Double", "Uint32", "Complex64", "Int16", "Bool", "Float8e5m2",
          "Uint4", "String"}

Dims == {<<>>, <<1>>, <<2>>, <<-1>>, <<1, 2>>, <<9, 9, 0>>}

References == [location : {"file", "unusable"}, offset : {None, 4}, length : {None, 4, 8}]

AllFixed(sizes) == [i \in DOMAIN sizes |-> [fixed |-> TRUE, size |-> sizes[i]]]

\* Dimensions that fit two elements, none, one; that overflow or are negative.
MCBuilt ==
  {Inline(e, AllFixed(d), [form |-> "array", count |-> n]) :
     e \in {"Float", "Double", "Uint32", "Uint64", "Int16", "Bool"},
     d \in {<<>>, <<2>>, <<0>>, <<1, 2>>, <<9, 0, 9>>, <<9, 9, 0>>, <<-1>>}, n \in 0..2}
  \cup
  {Inline(e, <<[fixed |-> f, size |-> 2]>>, [form |-> "array", count |-> 2]) :
     e \in {"Float", "Int16", "Int2"}, f \in BOOLEAN}
  \cup {Inline("String", <<>>, [form |-> "strings", count |-> n]) : n \in {0, 1}}
  \cup {Inline("Uint4", <<>>, [form |-> "raw", count |-> n]) : n \in {0, 1}}
  \cup {External(e, <<[fixed |-> TRUE, size |-> 1]>>, r) : e \in {"Float", "Double"}, r \in References}

Proto(elem, dims, raw, strings, arrays, reference) ==
  [elem |-> elem, dims |-> dims, raw |-> raw, strings |-> strings,
   arrays |-> arrays, reference |-> reference, unread |-> NothingUnread]

NoArrays == [a \in Arrays |-> 0]

\* Data in one place or in two, of a fitting amount or another, or a reference.
MCForeign ==
  {Proto(e, d, r, s, [NoArrays EXCEPT ![ArrayOf(e)] = n], NoReference) :
     e \in Elems, d \in Dims, r \in {0, 1, 2, 4, 8}, s \in {0, 1}, n \in {0, 1, 2}}
  \cup {Proto(e, <<1>>, 0, 0, NoArrays, [given |-> TRUE, valid |-> TRUE, to |-> r]) :
          e \in Elems \cup {"Unknown", "Undefined"}, r \in References}
  \cup {[Proto("Float", <<1>>, 4, 0, NoArrays, NoReference) EXCEPT !.unread = 1]}
  \cup {Proto("Float", <<1>>, 4, 0, NoArrays, [given |-> TRUE, valid |-> FALSE])}
  \cup {Proto(e, <<>>, r, 0, NoArrays, NoReference) : e \in {"Undefined", "Int2", "Unknown"}, r \in {0, 1}}
=============================================================================

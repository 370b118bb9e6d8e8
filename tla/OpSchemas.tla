------------------------------ MODULE OpSchemas ------------------------------
(***************************************************************************)
(* The 19 typed operators of src/src/ml: for each, what its struct, its    *)
(* to_node and its from_node say of it.                                    *)
(*                                                                         *)
(* attrs gives the kind of each attribute, read and written under one      *)
(* name; plain are the fields that are no Option, always written; required *)
(* those from_node insists on (req_floats, req_int); filled and            *)
(* filledOnRead those that may not be empty in to_node, in from_node;      *)
(* exactlyOne and atMostOne are groups of alternatives; parallel are the   *)
(* arrays that must be as long as the first of them, the lead.             *)
(***************************************************************************)
EXTENDS Integers

Core == ""
Ml == "ai.onnx.ml"

\* The attributes of two lists, which have none in common. (The provers do not know what
\* @@ stands for.)
Joined(attrs, more) ==
  [a \in DOMAIN attrs \cup DOMAIN more |-> IF a \in DOMAIN attrs THEN attrs[a] ELSE more[a]]

One == {1}
Several == Nat \ {0}

Op(domain, inputs, outputs, attrs) ==
  [domain |-> domain, inputs |-> inputs, outputs |-> outputs, attrs |-> attrs,
   plain |-> {}, required |-> {}, filled |-> {}, filledOnRead |-> {},
   exactlyOne |-> {}, atMostOne |-> {}, parallel |-> {}]

-----------------------------------------------------------------------------
(* preproc.rs                                                              *)

Scaler == Op(Ml, One, 1, [offset |-> "Floats", scale |-> "Floats"])

Imputer ==
  [Op(Ml, One, 1, [imputed_value_floats |-> "Floats", imputed_value_int64s |-> "Ints",
                   replaced_value_float |-> "Float", replaced_value_int64 |-> "Int"])
   EXCEPT !.atMostOne = {{"imputed_value_floats", "imputed_value_int64s"},
                         {"replaced_value_float", "replaced_value_int64"}}]

Normalizer == Op(Ml, One, 1, [norm |-> "String"])

LabelEncoder ==
  [Op(Ml, One, 1,
      [default_float |-> "Float", default_int64 |-> "Int", default_string |-> "String",
       default_tensor |-> "Tensor",
       keys_floats |-> "Floats", keys_int64s |-> "Ints", keys_strings |-> "Strings",
       keys_tensor |-> "Tensor",
       values_floats |-> "Floats", values_int64s |-> "Ints", values_strings |-> "Strings",
       values_tensor |-> "Tensor"])
   EXCEPT !.exactlyOne =
     {{"keys_floats", "keys_int64s", "keys_strings", "keys_tensor"},
      {"values_floats", "values_int64s", "values_strings", "values_tensor"}}]

OneHotEncoder ==
  [Op(Ml, One, 1, [cats_int64s |-> "Ints", cats_strings |-> "Strings", zeros |-> "Int"])
   EXCEPT !.exactlyOne = {{"cats_int64s", "cats_strings"}}]

DictVectorizer ==
  [Op(Ml, One, 1, [int64_vocabulary |-> "Ints", string_vocabulary |-> "Strings"])
   EXCEPT !.exactlyOne = {{"int64_vocabulary", "string_vocabulary"}}]

FeatureVectorizer == Op(Ml, Several, 1, [inputdimensions |-> "Ints"])

-----------------------------------------------------------------------------
(* linear.rs                                                               *)

ClassLabels == [classlabels_ints |-> "Ints", classlabels_strings |-> "Strings"]

LinearClassifier ==
  [Op(Ml, One, 2,
      Joined(ClassLabels, [coefficients |-> "Floats", intercepts |-> "Floats",
                           multi_class |-> "Int", post_transform |-> "String"]))
   EXCEPT !.plain = {"coefficients"}, !.required = {"coefficients"},
          !.filled = {"coefficients"}, !.filledOnRead = {"coefficients"},
          !.exactlyOne = {DOMAIN ClassLabels}]

\* Its from_node does not look whether the coefficients are empty, its to_node does.
LinearRegressor ==
  [Op(Ml, One, 1,
      [coefficients |-> "Floats", intercepts |-> "Floats",
       post_transform |-> "String", targets |-> "Int"])
   EXCEPT !.plain = {"coefficients"}, !.required = {"coefficients"},
          !.filled = {"coefficients"}]

SvmCommon ==
  [coefficients |-> "Floats", kernel_params |-> "Floats", kernel_type |-> "String",
   post_transform |-> "String", prob_a |-> "Floats", prob_b |-> "Floats",
   rho |-> "Floats", support_vectors |-> "Floats"]

SvmClassifier ==
  [Op(Ml, One, 2, Joined(ClassLabels, Joined(SvmCommon, [vectors_per_class |-> "Ints"])))
   EXCEPT !.exactlyOne = {DOMAIN ClassLabels}]

SvmRegressor == Op(Ml, One, 1, Joined(SvmCommon, [n_supports |-> "Int", one_class |-> "Int"]))

-----------------------------------------------------------------------------
(* trees.rs                                                                *)

\* The arrays of TreeNodes that are always there, led by nodes_modes.
TreeArrays ==
  {"nodes_modes", "nodes_falsenodeids", "nodes_featureids", "nodes_nodeids",
   "nodes_treeids", "nodes_truenodeids"}

TreeNodes ==
  [nodes_falsenodeids |-> "Ints", nodes_featureids |-> "Ints",
   nodes_hitrates |-> "Floats", nodes_hitrates_as_tensor |-> "Tensor",
   nodes_missing_value_tracks_true |-> "Ints", nodes_modes |-> "Strings",
   nodes_nodeids |-> "Ints", nodes_treeids |-> "Ints", nodes_truenodeids |-> "Ints",
   nodes_values |-> "Floats", nodes_values_as_tensor |-> "Tensor"]

NodesParallel ==
  [lead |-> "nodes_modes",
   others |-> (TreeArrays \ {"nodes_modes"})
     \cup {"nodes_missing_value_tracks_true", "nodes_hitrates", "nodes_values"}]

TreeEnsembleClassifier ==
  [Op(Ml, One, 2,
      Joined(TreeNodes,
      [base_values |-> "Floats", base_values_as_tensor |-> "Tensor",
       class_ids |-> "Ints", class_nodeids |-> "Ints", class_treeids |-> "Ints",
       class_weights |-> "Floats", class_weights_as_tensor |-> "Tensor",
       classlabels_int64s |-> "Ints", classlabels_strings |-> "Strings",
       post_transform |-> "String"]))
   EXCEPT !.plain = TreeArrays \cup {"class_ids", "class_nodeids", "class_treeids"},
          !.exactlyOne = {{"classlabels_int64s", "classlabels_strings"}},
          !.parallel = {NodesParallel,
                        [lead |-> "class_ids",
                         others |-> {"class_nodeids", "class_treeids", "class_weights"}]}]

TreeEnsembleRegressor ==
  [Op(Ml, One, 1,
      Joined(TreeNodes,
      [aggregate_function |-> "String", base_values |-> "Floats",
       base_values_as_tensor |-> "Tensor", n_targets |-> "Int",
       post_transform |-> "String",
       target_ids |-> "Ints", target_nodeids |-> "Ints", target_treeids |-> "Ints",
       target_weights |-> "Floats", target_weights_as_tensor |-> "Tensor"]))
   EXCEPT !.plain = TreeArrays \cup {"target_ids", "target_nodeids", "target_treeids"},
          !.parallel = {NodesParallel,
                        [lead |-> "target_ids",
                         others |-> {"target_nodeids", "target_treeids", "target_weights"}]}]

ZipMap ==
  [Op(Ml, One, 1, [classlabels_int64s |-> "Ints", classlabels_strings |-> "Strings"])
   EXCEPT !.exactlyOne = {{"classlabels_int64s", "classlabels_strings"}}]

-----------------------------------------------------------------------------
(* aionnx.rs                                                               *)

Cast ==
  [Op(Core, One, 1, [to |-> "Int", saturate |-> "Int"])
   EXCEPT !.plain = {"to"}, !.required = {"to"}]

Reshape == Op(Core, {1, 2}, 1, [allowzero |-> "Int"])

Concat ==
  [Op(Core, Several, 1, [axis |-> "Int"]) EXCEPT !.plain = {"axis"}, !.required = {"axis"}]

Gather == Op(Core, {2}, 1, [axis |-> "Int"])

Identity == Op(Core, One, 1, [a \in {} |-> "Int"])

-----------------------------------------------------------------------------
\* make_node_payload: the operators that are recognised, by their op_type.
Schemas ==
  [Scaler |-> Scaler, Imputer |-> Imputer, Normalizer |-> Normalizer,
   LabelEncoder |-> LabelEncoder, OneHotEncoder |-> OneHotEncoder,
   DictVectorizer |-> DictVectorizer, FeatureVectorizer |-> FeatureVectorizer,
   LinearClassifier |-> LinearClassifier, LinearRegressor |-> LinearRegressor,
   SVMClassifier |-> SvmClassifier, SVMRegressor |-> SvmRegressor,
   TreeEnsembleClassifier |-> TreeEnsembleClassifier,
   TreeEnsembleRegressor |-> TreeEnsembleRegressor, ZipMap |-> ZipMap,
   Cast |-> Cast, Reshape |-> Reshape, Concat |-> Concat, Gather |-> Gather,
   Identity |-> Identity]

=============================================================================

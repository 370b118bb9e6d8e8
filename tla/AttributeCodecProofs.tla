------------------------- MODULE AttributeCodecProofs -------------------------
(***************************************************************************)
(* What the attribute codec keeps, for every content an attribute may have *)
(* and every proto another producer may write.                             *)
(***************************************************************************)
EXTENDS AttributeCodec, CodecLemmas

SavedFrom(value, fromFile) == [outcome |-> "Ok", value |-> value, loaded |-> fromFile]

\* The proof's invariant: the file holds what was saved, and what was loaded is durable.
CodecInv ==
  /\ attr \in Answers
  /\ loaded \in BOOLEAN
  /\ loaded => attr.outcome = "Ok" /\ Durable(attr.value)
  /\ wire \in Proto
  /\ \/ saved = NotSaved
     \/ \E v \in AttributeValue, l \in BOOLEAN :
          /\ saved = SavedFrom(v, l)
          /\ wire = EncodeAttribute(v)
          /\ l => Durable(v)

-----------------------------------------------------------------------------
(* The invariant.                                                          *)

\* No file has been written and no attribute loaded to begin with.
LEMMA InitCodecInv == Init => CodecInv
<1> SUFFICES ASSUME Init PROVE CodecInv
  OBVIOUS
<1> USE CodecAssumption
<1>1. attr \in Answers /\ wire \in Proto
  BY DEF Init, Answers
<1> QED BY <1>1 DEF Init, CodecInv

\* Every step keeps the file what was last saved, and what was loaded durable.
LEMMA NextCodecInv == CodecInv /\ [Next]_vars => CodecInv'
<1> SUFFICES ASSUME CodecInv, [Next]_vars PROVE CodecInv'
  OBVIOUS
<1> USE CodecAssumption
<1>1. ASSUME NEW v \in Built, Set(v) PROVE CodecInv'
  <2>1. attr' \in Answers /\ loaded' = FALSE
    BY <1>1 DEF Set, Answers
  <2> QED BY <1>1, <2>1 DEF Set, CodecInv
<1>2. CASE Save
  <2>1. attr \in Answers /\ attr.outcome = "Ok" /\ loaded \in BOOLEAN
    BY <1>2 DEF Save, CodecInv
  <2>2. attr.value \in AttributeValue
    BY <2>1 DEF Answers, Success, Failure, Reasons
  <2>3. /\ saved' = SavedFrom(attr.value, loaded)
        /\ wire' = EncodeAttribute(attr.value)
        /\ loaded => Durable(attr.value)
    BY <1>2 DEF Save, SavedFrom, CodecInv
  <2>4. wire' \in Proto
    BY <2>2, <2>3, EncodingIsProto
  <2> QED BY <1>2, <2>1, <2>2, <2>3, <2>4 DEF Save, CodecInv
<1>3. ASSUME NEW p \in Foreign, Receive(p) PROVE CodecInv'
  BY <1>3 DEF Receive, CodecInv
<1>4. CASE Load
  <2>1. wire \in Proto /\ attr' = DecodeAttribute(wire)
    BY <1>4 DEF Load, CodecInv
  <2>2. attr' \in Answers /\ (attr'.outcome = "Ok" => Durable(attr'.value))
    BY <2>1, DecodingAnswers
  <2>3. loaded' = (attr'.outcome = "Ok")
    BY <1>4 DEF Load
  <2> QED BY <1>4, <2>1, <2>2, <2>3 DEF Load, CodecInv
<1>5. CASE UNCHANGED vars
  BY <1>5 DEF vars, CodecInv
<1> QED BY <1>1, <1>2, <1>3, <1>4, <1>5 DEF Next

\* In every state what was loaded is durable, and the file is what was saved.
THEOREM CodecInvariant == Spec => []CodecInv
<1> QED BY InitCodecInv, NextCodecInv, PTL DEF Spec

\* The attribute in memory has a value of its type or there is a reason for its absence,
\* and the file is a proto: whatever encode_attribute and decode_attribute are given.
THEOREM CodecTypeCorrect == Spec => []TypeOK
<1>1. CodecInv => TypeOK
  BY DEF CodecInv, TypeOK, Answers, Success, Failure, Reasons
<1> QED BY <1>1, CodecInvariant, PTL

\* Once decode_attribute has returned an attribute, encode_attribute and decode_attribute
\* between them keep it as it is, whoever wrote the file it came from.
THEOREM LoadedAttributesSurvive == Spec => []LoadedSurvives
<1>1. CodecInv => LoadedSurvives
  <2> SUFFICES ASSUME CodecInv, saved.outcome = "Ok", saved.loaded
               PROVE  DecodeAttribute(wire) = Success(saved.value)
    BY DEF LoadedSurvives
  <2>1. saved # NotSaved
    BY DEF NotSaved, Failure
  <2>2. PICK v \in AttributeValue, l \in BOOLEAN :
          saved = SavedFrom(v, l) /\ wire = EncodeAttribute(v) /\ (l => Durable(v))
    BY <2>1 DEF CodecInv
  <2>3. saved.value = v /\ l
    BY <2>2 DEF SavedFrom
  <2> QED BY <2>2, <2>3 DEF Durable
<1> QED BY <1>1, CodecInvariant, PTL

\* What decode_attribute makes of a file that encode_attribute wrote: the attribute the
\* file was written from, or one of its kind where encode_attribute writes a part only; and
\* it fails of no other attributes than those whose value is not looked for, is 0 or empty,
\* or a tensor that does not fit its own shape.
THEOREM SavedAttributesAreNotMisread == Spec => []SavedIsNeverMisread
<1> DEFINE IsReadAs(v, again) ==
             /\ again.outcome = "Ok" =>
                  /\ again.value.kind = v.kind
                  /\ again.value = v \/ WrittenInPart(v)
             /\ again.outcome = "Protobuf" => v.kind \notin ReadKinds \/ v.content = Unset
             /\ again.outcome = "Tensor" => v.kind \in HeldAsTensors /\ v.content = Broken
             /\ again.outcome \in {"Ok", "Protobuf", "Tensor"}
<1>1. ASSUME NEW v \in AttributeValue
      PROVE  IsReadAs(v, DecodeAttribute(EncodeAttribute(v)))
  <2> DEFINE p == EncodeAttribute(v)
             w == [kind |-> v.kind, content |-> WireContent(v)]
  <2>1. p = [k \in Kind |-> IF k = v.kind THEN WireContent(v) ELSE Unset]
    BY DEF EncodeAttribute
  <2>2. /\ v = [kind |-> v.kind, content |-> v.content] /\ v.kind \in Kind /\ v.content \in Int
        /\ v.kind \in Messages => v.content # Unset
        /\ v.kind \in Messages \cup Lists => v.content \in MessageContent \/ SaysMore(v)
        /\ v.content = Broken => v.kind \in KeptAsBytes \cup HeldAsTensors \cup {"Float", "Int"}
    BY DEF AttributeValue
  <2>3. CASE v.kind \in HeldAsTensors /\ v.content = Broken
    <3>1. p[v.kind] = Broken
      BY <2>1, <2>2, <2>3 DEF WireContent, SaysMore, HeldAsTensors, KeptAsBytes, Broken
    <3> HIDE DEF p
    <3>2. DecodeAttribute(p) = Failure("Tensor")
      BY <2>3, <3>1 DEF DecodeAttribute
    <3>3. QED BY <2>3, <3>2 DEF p, Failure
  <2>4. CASE v.kind \notin ReadKinds \/ v.content = Unset
    <3>1. v.kind \in ReadKinds => WireContent(v) = Unset
      BY <2>4 DEF WireContent, SaysMore, Broken, Unset
    <3>2. Present(p) = {}
      BY <2>1, <3>1 DEF Present, ReadKinds
    <3>3. p["Tensor"] # Broken /\ p["Tensors"] # Broken
      BY <3>2 DEF Present, ReadKinds, Kind, Messages, Lists, Broken, Unset
    <3> HIDE DEF p
    <3>4. DecodeAttribute(p) = Failure("Protobuf")
      BY <3>2, <3>3 DEF DecodeAttribute, HeldAsTensors
    <3>5. QED BY <2>4, <3>4 DEF p, Failure
  <2>5. CASE /\ v.kind \in ReadKinds /\ v.content # Unset
             /\ ~(v.kind \in HeldAsTensors /\ v.content = Broken)
    \* What is written is what is written of another value of the kind, which is plain.
    <3>1. /\ w.content \in Int /\ w.content # Unset
          /\ w.kind \in Messages \cup Lists => w.content \in MessageContent
          /\ w.content = Broken => w.kind \in {"Float", "Int"}
          /\ w = v \/ WrittenInPart(v)
      BY <2>2, <2>5
      DEF WireContent, SaysMore, WrittenInPart, MessageContent, KeptAsBytes, HeldAsTensors,
          Scalars, Messages, Lists, ReadKinds, Broken, Unset, Replacement
    <3>2. w.kind = v.kind
      OBVIOUS
    <3>3. ~SaysMore(w)
      BY <3>1 DEF SaysMore, HeldAsTensors, Messages, Lists, MessageContent, Broken
    <3>4. w \in AttributeValue
      BY <2>2, <3>1 DEF AttributeValue
    <3>5. Durable(w)
      BY <2>5, <3>1, <3>2, <3>3, <3>4, PlainValueIsDurable
    <3>6. WireContent(w) = w.content
      BY <3>1, <3>3 DEF WireContent, KeptAsBytes
    <3>7. EncodeAttribute(w) = p
      BY <2>1, <3>2, <3>6 DEF EncodeAttribute
    <3> HIDE DEF p, w
    <3>8. DecodeAttribute(p) = Success(w)
      BY <3>5, <3>7 DEF Durable
    <3>9. QED BY <3>1, <3>2, <3>8 DEF p, Success
  <2>6. QED BY <2>3, <2>4, <2>5
<1>2. CodecInv => SavedIsNeverMisread
  <2> SUFFICES ASSUME CodecInv, saved.outcome = "Ok"
               PROVE  IsReadAs(saved.value, DecodeAttribute(wire))
    BY DEF SavedIsNeverMisread
  <2> HIDE DEF IsReadAs
  <2>1. saved # NotSaved
    BY DEF NotSaved, Failure
  <2>2. PICK v \in AttributeValue, l \in BOOLEAN :
          saved = SavedFrom(v, l) /\ wire = EncodeAttribute(v)
    BY <2>1 DEF CodecInv
  <2>3. saved.value = v
    BY <2>2 DEF SavedFrom
  <2> QED BY <1>1, <2>2, <2>3
<1> QED BY <1>2, CodecInvariant, PTL

\* decode_attribute never picks one of two values: it returns an attribute only of a
\* proto in which no other field it reads is set.
THEOREM LoadedAttributeIsAlone == Spec => OneValueOnly
<1>1. CodecInv /\ [Next]_vars =>
        (loaded' /\ wire' = wire /\ attr' # attr =>
           \A k \in ReadKinds : k # attr'.value.kind => wire[k] = Unset)
  <2> SUFFICES ASSUME CodecInv, [Next]_vars, loaded', wire' = wire, attr' # attr,
                      NEW k \in ReadKinds, k # attr'.value.kind
               PROVE  wire[k] = Unset
    OBVIOUS
  <2>1. Load
    BY DEF Next, vars, Set, Save, Receive
  <2>2. wire \in Proto /\ DecodeAttribute(wire).outcome = "Ok" /\ attr' = DecodeAttribute(wire)
    BY <2>1 DEF Load, CodecInv
  <2>3. PICK f \in ReadKinds :
          Present(wire) = {f} /\ attr' = Success([kind |-> f, content |-> MemoryContent(f, wire[f])])
    BY <2>2, DecodedField
  <2>4. attr'.value.kind = f
    BY <2>3 DEF Success
  <2> QED BY <2>3, <2>4 DEF Present
<1> QED BY <1>1, CodecInvariant, PTL DEF Spec, OneValueOnly

=============================================================================

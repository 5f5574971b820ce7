--------------------------- MODULE Mapping_proofs ---------------------------
(***************************************************************************)
(* Theorems about the mapping of an index over the starts of its indexer,  *)
(* for any fields, any schemas and any number of starts.                   *)
(***************************************************************************)
EXTENDS Mapping, TLAPS

-----------------------------------------------------------------------------
(* The invariant.  Between two starts only index.json knows the types, so   *)
(* FieldsKeepTheirType rests on what it says then; while an indexer runs,   *)
(* what it will commit has the types of its own mapping.                    *)

Types == {schema.type : schema \in Schemas}

MappingTypeOK ==
  /\ manifest \in Mappings \cup {NoMapping} /\ mapping \in Mappings \cup {NoMapping}
  /\ buffered \in [FieldNames -> SUBSET Types] /\ segments \in [FieldNames -> SUBSET Types]
  /\ unwritten \in BOOLEAN /\ forgotten \subseteq FieldNames

\* All types of the committed documents fit this schema.
FitsAll(f, schema) == \A type \in segments[f] : Fits(type, schema)

\* index.json knows the types of a field.
Known(f) == Indexed(f) => manifest # NoMapping /\ FitsAll(f, manifest[f])

\* Unless it is still to be written, and with a schema for the field.
KnownInv ==
  \A f \in FieldNames \ forgotten :
    mapping = NoMapping \/ ~unwritten \/ mapping[f] = NoField => Known(f)

BufferInv ==
  \A f \in FieldNames : \A type \in buffered[f] :
    mapping # NoMapping /\ mapping[f] # NoField /\ type = mapping[f].type

MappingInv == MappingTypeOK /\ KnownInv /\ BufferInv /\ FieldsKeepTheirType

-----------------------------------------------------------------------------
\* A field of documents that has a schema, and migrates to one, keeps fitting.
LEMMA MigrationFits ==
  ASSUME NEW type \in Types, NEW before \in Schemas \cup {NoField},
         NEW after \in Schemas, Fits(type, before), Migrates(before, after)
  PROVE  Fits(type, after)
<1>1. type # "none" /\ NoField.type = "none"
  BY MappingAssumption DEF Types, NoField
<1>2. before # NoField /\ after # NoField
  BY <1>1, MappingAssumption DEF Fits
<1> QED BY <1>2 DEF Fits, Migrates

\* There are no documents yet.
LEMMA MappingFirst == MappingInit => MappingInv
  BY DEF MappingInit, MappingInv, MappingTypeOK, KnownInv, BufferInv, FieldsKeepTheirType, Known,
     Indexed

LEMMA OpenIndexStep ==
  ASSUME MappingInv, NEW config \in Mappings, OpenIndex(config)
  PROVE  MappingInv'
<1> USE DEF MappingInv, MappingTypeOK, OpenIndex
<1>1. MappingTypeOK'
  OBVIOUS
<1>2. \A f \in FieldNames \ forgotten : Known(f)
  BY DEF KnownInv
<1>3. KnownInv'
  BY <1>2 DEF KnownInv, Known, Indexed, FitsAll
<1>4. FieldsKeepTheirType'
  <2> SUFFICES ASSUME NEW f \in FieldNames \ forgotten, config[f] # NoField,
                      NEW type \in segments[f]
               PROVE  Fits(type, config[f])
    BY DEF FieldsKeepTheirType
  <2>1. manifest \in Mappings /\ manifest # NoMapping /\ Fits(type, manifest[f])
    BY <1>2 DEF Known, Indexed, FitsAll
  <2>2. /\ manifest[f] \in Schemas \cup {NoField} /\ config[f] \in Schemas /\ type \in Types
        /\ Migrates(manifest[f], config[f])
    BY <2>1 DEF Mappings
  <2> QED BY <2>1, <2>2, MigrationFits
<1>5. BufferInv'
  BY DEF BufferInv
<1> QED BY <1>1, <1>3, <1>4, <1>5

LEMMA WriteFieldStep ==
  ASSUME MappingInv, NEW f \in FieldNames, WriteField(f)
  PROVE  MappingInv'
<1> USE DEF MappingInv, MappingTypeOK, WriteField
<1>1. mapping[f].type \in Types
  <2>1. mapping \in Mappings /\ mapping[f] \in Schemas
    BY DEF Mappings
  <2> QED BY <2>1 DEF Types
<1>2. MappingTypeOK'
  BY <1>1
<1>3. BufferInv'
  BY DEF BufferInv
<1>4. KnownInv' /\ FieldsKeepTheirType'
  BY DEF KnownInv, Known, Indexed, FitsAll, FieldsKeepTheirType
<1> QED BY <1>2, <1>3, <1>4

\* What is committed has the types of the mapping in use.
LEMMA CommitFieldsStep ==
  ASSUME MappingInv, CommitFields
  PROVE  MappingInv'
<1> USE DEF MappingInv, MappingTypeOK, CommitFields
<1>1. MappingTypeOK' /\ BufferInv'
  BY DEF BufferInv
<1>2. FieldsKeepTheirType'
  BY DEF FieldsKeepTheirType, BufferInv, Fits
<1>3. \A f \in FieldNames : mapping[f] = NoField => segments'[f] = segments[f]
  BY DEF BufferInv
<1>4. KnownInv'
  BY <1>3 DEF KnownInv, Known, Indexed, FitsAll
<1> QED BY <1>1, <1>2, <1>4

\* index.json says the mapping in use, which fits what is committed.
LEMMA WriteMappingStep ==
  ASSUME MappingInv, WriteMapping
  PROVE  MappingInv'
<1> USE DEF MappingInv, MappingTypeOK, WriteMapping
<1>1. MappingTypeOK' /\ BufferInv' /\ FieldsKeepTheirType'
  BY DEF BufferInv, FieldsKeepTheirType, Indexed
<1>2. KnownInv'
  BY DEF KnownInv, Known, Indexed, FitsAll, FieldsKeepTheirType
<1> QED BY <1>1, <1>2

\* The next start sees what index.json says, or the field is forgotten.
LEMMA CloseIndexStep ==
  ASSUME MappingInv, CloseIndex
  PROVE  MappingInv'
<1> USE DEF MappingInv, MappingTypeOK, CloseIndex
<1>1. MappingTypeOK' /\ BufferInv' /\ FieldsKeepTheirType'
  BY DEF BufferInv, FieldsKeepTheirType
<1>2. ASSUME NEW f \in FieldNames \ forgotten'
      PROVE  Known(f)
  <2>1. CASE mapping[f] = NoField \/ ~unwritten
    BY <1>2, <2>1 DEF KnownInv
  <2>2. CASE mapping[f] # NoField /\ unwritten
    <3>1. Indexed(f) => manifest # NoMapping /\ manifest[f] = mapping[f]
      BY <1>2, <2>2 DEF Renewed
    <3> QED BY <1>2, <2>2, <3>1 DEF FieldsKeepTheirType, Known, Indexed, FitsAll
  <2> QED BY <2>1, <2>2
<1>3. KnownInv'
  BY <1>2 DEF KnownInv, Known, Indexed, FitsAll
<1> QED BY <1>1, <1>3

LEMMA MappingStep == MappingInv /\ [MappingNext]_mappingVars => MappingInv'
<1>1. CASE UNCHANGED mappingVars
  BY <1>1 DEF mappingVars, MappingInv, MappingTypeOK, KnownInv, BufferInv, FieldsKeepTheirType,
     Known, Indexed, FitsAll
<1>2. CASE MappingNext
  BY <1>2, OpenIndexStep, WriteFieldStep, CommitFieldsStep, WriteMappingStep, CloseIndexStep
  DEF MappingNext
<1> QED BY <1>1, <1>2

\* The invariant holds in every state.
THEOREM MappingInvariant == MappingSpec => []MappingInv
  BY MappingFirst, MappingStep, PTL DEF MappingSpec

\* However often a mapping is changed and migrated, the documents of an index
\* have every field with the type of the mapping in use; but for the fields
\* index.json was left without.
THEOREM FieldsAlwaysKeepTheirType == MappingSpec => []FieldsKeepTheirType
<1>1. MappingInv => FieldsKeepTheirType
  BY DEF MappingInv
<1> QED BY <1>1, MappingInvariant, PTL
=============================================================================

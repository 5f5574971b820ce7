------------------------------ MODULE Mapping -------------------------------
(***************************************************************************)
(* The mapping of an index over the starts of its indexer: each start      *)
(* migrates the one in index.json to that of the configuration             *)
(* (IndexMapping.migrate), documents are written with the new one, and the *)
(* next flush commits them and then writes index.json.                     *)
(***************************************************************************)
EXTENDS FiniteSets

CONSTANTS
  FieldNames,
  Schemas    \* [type, options] a configuration may give a field

\* A field has a schema or is not in a mapping.
NoField == [type |-> "none", options |-> "none"]
NoMapping == [f \in {} |-> NoField]
Mappings == [FieldNames -> Schemas \cup {NoField}]

ASSUME MappingAssumption == \A schema \in Schemas : schema.type # NoField.type

VARIABLES
  manifest,   \* the mapping in index.json, NoMapping if there is none
  mapping,    \* the mapping of the running indexer, NoMapping if none runs
  buffered,   \* [FieldNames -> types with which documents were written]
  segments,   \* the same, of the documents in the last commit
  unwritten,  \* TRUE between a commit and its index.json
  forgotten   \* fields of documents that index.json was left without

mappingVars == <<manifest, mapping, buffered, segments, unwritten, forgotten>>

MappingInit ==
  /\ manifest = NoMapping /\ mapping = NoMapping
  /\ buffered = [f \in FieldNames |-> {}] /\ segments = buffered
  /\ unwritten = FALSE /\ forgotten = {}

\* Mutant: a field may change its type and keep its options.
MigratesType(before, after) ==
  \/ before = NoField \/ after = NoField
  \/ before.type = after.type \/ before.options = after.options

\* migrateField: these types may change their options, a text field may become
\* the id, and any other field has to stay as it is.
Migrates(before, after) ==
  \/ before = after
  \/ before = NoField \/ after = NoField
  \/ before.type = after.type /\ before.type \in {"int", "long", "text", "text[]"}
  \/ before.type = "text" /\ after.type = "id"

\* A field with this schema may have been written with this type.
Fits(type, schema) == type = schema.type \/ (type = "text" /\ schema.type = "id")

\* Committed documents have this field.
Indexed(f) == segments[f] # {}

\* index.json does not say yet what the running indexer takes the field for.
Renewed(f) == manifest = NoMapping \/ manifest[f] # mapping[f]

\* readAndMigrateManifest: a mapping that does not migrate ends the start.
OpenIndex(config) ==
  /\ mapping = NoMapping
  /\ manifest # NoMapping =>
       \A f \in FieldNames : Migrates(manifest[f], config[f])
  /\ mapping' = config
  /\ UNCHANGED <<manifest, buffered, segments, unwritten, forgotten>>

\* writeField skips a field that is not in the mapping.
WriteField(f) ==
  /\ mapping # NoMapping /\ mapping[f] # NoField
  /\ buffered' = [buffered EXCEPT ![f] = @ \cup {mapping[f].type}]
  /\ UNCHANGED <<manifest, mapping, segments, unwritten, forgotten>>

\* flush: commit, of new documents, of deletes, or the first of a new index ...
CommitFields ==
  /\ mapping # NoMapping
  /\ segments' = [f \in FieldNames |-> segments[f] \cup buffered[f]]
  /\ buffered' = [f \in FieldNames |-> {}]
  /\ unwritten' = TRUE
  /\ UNCHANGED <<manifest, mapping, forgotten>>

\* ... and createManifest, writeManifest.
WriteMapping ==
  /\ mapping # NoMapping /\ unwritten
  /\ manifest' = mapping
  /\ unwritten' = FALSE
  /\ forgotten' = forgotten \cup {f \in FieldNames : Indexed(f) /\ mapping[f] = NoField}
  /\ UNCHANGED <<mapping, buffered, segments>>

\* The indexer is killed; after a flush, this is also how it stops.
CloseIndex ==
  /\ mapping # NoMapping
  /\ mapping' = NoMapping
  /\ buffered' = [f \in FieldNames |-> {}]
  /\ unwritten' = FALSE
  /\ forgotten' = IF unwritten THEN forgotten \cup {f \in FieldNames : Indexed(f) /\ Renewed(f)}
                  ELSE forgotten
  /\ UNCHANGED <<manifest, segments>>

MappingNext ==
  \/ \E config \in Mappings : OpenIndex(config)
  \/ \E f \in FieldNames : WriteField(f)
  \/ CommitFields \/ WriteMapping \/ CloseIndex

MappingSpec == MappingInit /\ [][MappingNext]_mappingVars

-----------------------------------------------------------------------------
\* The documents of an index have a field with one type only, that of the
\* mapping in use, or with type text in what is now the id, over any number of
\* starts; unless index.json was once written without the field, or an indexer
\* with a new schema for it was killed between a commit and the index.json of
\* that commit (Indexer.scala:122-135).
FieldsKeepTheirType ==
  mapping # NoMapping =>
    \A f \in FieldNames \ forgotten :
      mapping[f] # NoField =>
        \A type \in segments[f] : Fits(type, mapping[f])
=============================================================================

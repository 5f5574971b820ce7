----------------------------- MODULE Components -----------------------------
(***************************************************************************)
(* The components that share no state with each other, side by side: a     *)
(* behaviour is a behaviour of one of them, the others stay as they are.   *)
(*                                                                         *)
(* Main starts one process for one of these jobs at a time: to index, to   *)
(* load models, to embed and to answer, to open an index with another      *)
(* mapping, to read an object of the store.                                *)
(***************************************************************************)
EXTENDS Ingestion, ModelFiles, Embedding, Retrieval, Mapping, ObjectRead

VARIABLE component

componentVars ==
  <<component, ingestionVars, fileVars, embedVars, retrievalVars, mappingVars, objectVars>>

ComponentsInit ==
  /\ component \in {"ingestion", "models", "embedding", "retrieval", "mapping", "object"}
  /\ IngestionInit /\ ModelFilesInit /\ EmbeddingInit /\ RetrievalInit
  /\ MappingInit /\ ObjectInit
  /\ component # "ingestion" => source = "api"
  /\ component # "object" => size = 1 /\ chunk = 1

Indexes(A) ==
  /\ component = "ingestion" /\ A
  /\ UNCHANGED <<component, fileVars, embedVars, retrievalVars, mappingVars, objectVars>>

LoadsModels(A) ==
  /\ component = "models" /\ A
  /\ UNCHANGED <<component, ingestionVars, embedVars, retrievalVars, mappingVars, objectVars>>

Embeds ==
  /\ component = "embedding" /\ EmbeddingNext
  /\ UNCHANGED <<component, ingestionVars, fileVars, retrievalVars, mappingVars, objectVars>>

Retrieves ==
  /\ component = "retrieval" /\ RetrievalNext
  /\ UNCHANGED <<component, ingestionVars, fileVars, embedVars, mappingVars, objectVars>>

OpensIndexes ==
  /\ component = "mapping" /\ MappingNext
  /\ UNCHANGED <<component, ingestionVars, fileVars, embedVars, retrievalVars, objectVars>>

ReadsObject ==
  /\ component = "object" /\ ObjectNext
  /\ UNCHANGED <<component, ingestionVars, fileVars, embedVars, retrievalVars, mappingVars>>

ComponentsNext ==
  \/ Indexes(IngestionNext) \/ LoadsModels(ModelFilesNext) \/ Embeds \/ Retrieves
  \/ OpensIndexes \/ ReadsObject

\* IngestionFairness and ModelFilesFairness, of the component that runs.
ComponentsFairness ==
  /\ WF_ingestionVars(component = "ingestion"
                      /\ (Take(Reader) \/ Replace(Reader) \/ Add(Reader)))
  /\ WF_ingestionVars(component = "ingestion" /\ PollMessages)
  /\ WF_ingestionVars(component = "ingestion" /\ Flush)
  /\ \A p \in Processes : WF_fileVars(component = "models" /\ (GetCached(p) \/ Restart(p)))

ComponentsSpec ==
  ComponentsInit /\ [][ComponentsNext]_componentVars /\ ComponentsFairness
=============================================================================

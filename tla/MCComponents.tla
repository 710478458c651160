--------------------------- MODULE MCComponents -----------------------------
(* Small instances of the components whose properties are safety properties.  They
   share no variable: a behaviour chooses one component and takes its steps only, so
   that its states are those of all the components and not of their product. *)
EXTENDS InstanceData, StateStore, MetricHistory, AgentSession, Accounts, Artifacts,
        FileEditing

VARIABLE part

LeadsOfOne == -1..1

LowerCase == [n \in {"ada", "Ada", "bob"} |-> IF n = "bob" THEN "bob" ELSE "ada"]

allVars == <<part, dataVars, storeVars, metricVars, sessionVars, accountVars, artifactVars,
             editingVars>>

ComponentsInit ==
  /\ part \in {"data", "store", "metrics", "sessions", "accounts", "artifacts", "editing"}
  /\ DataInit /\ StoreInit /\ MetricInit /\ SessionInit /\ AccountsInit /\ ArtifactInit
  /\ EditingInit
  \* One state for a component that stands still.
  /\ part # "editing" => cached = NoText
  /\ part # "data" => destination = "local"
  /\ part # "metrics" => lead = 0 /\ dbLead = 0

OfStore == part = "store" /\ StoreNext
OfMetrics == part = "metrics" /\ MetricNext
OfSessions == part = "sessions" /\ SessionNext
OfAccounts == part = "accounts" /\ AccountsNext
OfArtifacts == part = "artifacts" /\ ArtifactNext
OfEditing == part = "editing" /\ EditingNext
OfData == part = "data" /\ DataNext

ButStore == UNCHANGED <<part, dataVars, metricVars, sessionVars, accountVars, artifactVars,
                        editingVars>>
ButMetrics == UNCHANGED <<part, dataVars, storeVars, sessionVars, accountVars, artifactVars,
                          editingVars>>
ButSessions == UNCHANGED <<part, dataVars, storeVars, metricVars, accountVars, artifactVars,
                           editingVars>>
ButAccounts == UNCHANGED <<part, dataVars, storeVars, metricVars, sessionVars, artifactVars,
                           editingVars>>
ButArtifacts == UNCHANGED <<part, dataVars, storeVars, metricVars, sessionVars, accountVars,
                            editingVars>>
ButEditing == UNCHANGED <<part, dataVars, storeVars, metricVars, sessionVars, accountVars,
                          artifactVars>>
ButData == UNCHANGED <<part, storeVars, metricVars, sessionVars, accountVars, artifactVars,
                       editingVars>>

ComponentsNext ==
  \/ OfStore /\ ButStore
  \/ OfMetrics /\ ButMetrics
  \/ OfSessions /\ ButSessions
  \/ OfAccounts /\ ButAccounts
  \/ OfArtifacts /\ ButArtifacts
  \/ OfEditing /\ ButEditing
  \/ OfData /\ ButData

ComponentsSpec == ComponentsInit /\ [][ComponentsNext]_allVars

\* The variables of the components have their types.
ComponentsTypeOK ==
  /\ part = "data" => DataTypeOK
  /\ part = "store" => StoreTypeOK
  /\ part = "metrics" => MetricTypeOK
  /\ part = "sessions" => SessionTypeOK
  /\ part = "accounts" => AccountsTypeOK
  /\ part = "artifacts" => ArtifactTypeOK
  /\ part = "editing" => EditingTypeOK
=============================================================================

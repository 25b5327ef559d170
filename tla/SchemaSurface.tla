---------------------------- MODULE SchemaSurface ----------------------------
(***************************************************************************)
(* The boot-time schema surface of SchemaBoundResolver                     *)
(* (internal/controlplane/resolver.go): which resolved documents may be    *)
(* used while the same process ingests what it collects.                   *)
(***************************************************************************)
EXTENDS RuntimeSource

CONSTANTS
    Scopes,             \* (tenant, project, source, source type) tuples
    ScopeOf             \* ScopeOf[d]: the scope in document d

ASSUME ScopeOfAssumption == \A d \in Docs : ScopeOf[d] \in Scopes

\* newSchemaSurfaceKey
SurfaceKey(d) == <<KeyOf[d], ScopeOf[d]>>

\* Mutant: disabled startup sources open the gate too.
OnSurfaceOfAll(d, ingestion, sources) ==
    ingestion /\ sources # {} => SurfaceKey(d) \in {SurfaceKey(s) : s \in sources}

\* The gate: only enabled startup sources open it.  newSourceResolver installs it
\* when there are any startup sources at all.
OnSurface(d, ingestion, sources) ==
    ingestion /\ sources # {} => SurfaceKey(d) \in {SurfaceKey(s) : s \in sources \cap Enabled}
=============================================================================

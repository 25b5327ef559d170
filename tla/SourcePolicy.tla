----------------------------- MODULE SourcePolicy -----------------------------
(***************************************************************************)
(* What the HTTP handlers of internal/collectapi make of a resolved source *)
(* document: whose origins it serves, whether it lies on the startup       *)
(* schema surface, and how an error of the resolver is answered.  Collect  *)
(* and Readback share these rules as their handlers share the code.        *)
(***************************************************************************)
EXTENDS SchemaSurface

CONSTANTS
    Origins, NoOrigin,  \* Origin header values up to case; no header
    AllowedOrigins,     \* AllowedOrigins[d]: its allowed_origins; all Origins for "*"
    IngestionEnabled,   \* cfg.IngestionEnabled, with cfg.SourceResolver = "http"
    StartupSources      \* cfg.Sources

\* NewSchemaBoundResolver fails startup on an enabled source that is not valid.
ASSUME StartupAssumption ==
    /\ IngestionEnabled \in BOOLEAN
    /\ StartupSources \subseteq Docs
    /\ StartupSources \cap Enabled \subseteq Valid

\* SourceConfig.AllowsOrigin
AllowsOrigin(d, origin) == origin = NoOrigin \/ origin \in AllowedOrigins[d]

\* The gate of SchemaBoundResolver is open for document d.
InSurface(d) == OnSurface(d, IngestionEnabled, StartupSources)

\* Mutant: unknown and disabled sources are answered alike.
ResolveStatusMerged(e) == IF e \in {"not_found", "disabled"} THEN "401" ELSE "500"

\* writeResolveError
ResolveStatus(e) == CASE e = "not_found" -> "401" [] e = "disabled" -> "403" [] OTHER -> "500"
=============================================================================

---------------------------- MODULE RuntimeSource ----------------------------
(***************************************************************************)
(* The runtime source documents of the control plane, and what the code in *)
(* internal/controlplane makes of one: the checks every document passes    *)
(* before /collect may use it, and the (SourceConfig, error) pair a        *)
(* resolver answers with.                                                  *)
(***************************************************************************)
CONSTANTS
    Keys,           \* write keys
    BlankKey,       \* the write key that is empty once trimmed
    Docs,           \* the documents the control plane may serve
    KeyOf,          \* KeyOf[d]: the write_key written in document d
    Valid,          \* the documents that validateSourceConfig accepts
    Enabled,        \* the documents with enabled = true
    ZeroSource,     \* Go's SourceConfig{}, returned next to every error
    Missing,        \* the control plane does not know the write key (404)
    Gone            \* the control plane disabled or removed it (403, 410)

ASSUME BlankKeyAssumption == BlankKey \notin Keys
ASSUME DocsAssumption ==
    /\ ZeroSource \notin Docs
    /\ Missing \notin Docs
    /\ Gone \notin Docs
    /\ Missing # Gone

\* What the control plane can hold for a write key.
Holdings == Docs \cup {Missing, Gone}

Errors == {"nil", "not_found", "disabled", "failed"}

\* A (SourceConfig, error) pair.
Answer(s, e) == [source |-> s, err |-> e]
Answers      == [source : Docs \cup {ZeroSource}, err : Errors]
Refuse(e)    == Answer(ZeroSource, e)
NoAnswer     == Refuse("nil")

\* decodeRuntimeSource: write-key match, validateSourceConfig, enabled.
Decode(k, d) ==
    CASE KeyOf[d] # k \/ d \notin Valid -> Refuse("failed")
      [] KeyOf[d] = k /\ d \in Valid /\ d \notin Enabled -> Refuse("disabled")
      [] OTHER -> Answer(d, "nil")

\* Document d may be used for write key k.
Usable(k, d) == d \in Docs /\ Decode(k, d).err = "nil"

\* What an up-to-date reading of holding h answers for write key k.
Verdict(k, h) ==
    CASE k = BlankKey \/ h = Missing -> Refuse("not_found")
      [] k # BlankKey /\ h = Gone    -> Refuse("disabled")
      [] OTHER                       -> Decode(k, h)
=============================================================================

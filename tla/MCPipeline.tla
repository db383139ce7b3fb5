----------------------------- MODULE MCPipeline -----------------------------
(* Two streams, the first longer than a batch, small enough for TLC. *)
EXTENDS Pipeline, TLC

MCSize == <<3, 1>>
MCStart == <<1, 0>>
MCMalformed == {Record(2, 1)}
MCUncoercible == {Record(2, 1)}

(* Ids as texts: of the first stream, the first two have the same value when *)
(* they are coerced, and a renamed key is the text of an absent field.        *)
MCSourceKey == Record(1, 1) :> "7" @@ Record(1, 2) :> "07" @@ Record(1, 3) :> "8"
               @@ Record(2, 1) :> ""
MCMappedKey == MCSourceKey
MCRenamedKey == [r \in DOMAIN MCSourceKey |-> "<nil>"]
MCCoercedKey == [MCSourceKey EXCEPT ![Record(1, 2)] = "7"]
=============================================================================

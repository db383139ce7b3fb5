------------------------------ MODULE Secrets -------------------------------
(***************************************************************************)
(* Where credentials are kept: security/secrets/manager.go (encrypted      *)
(* files) and vault.go.  A file is truncated and then written in place,    *)
(* under the lock of the manager, so a process that stops between the two  *)
(* leaves a file that does not decrypt.                                    *)
(***************************************************************************)
EXTENDS Integers, FiniteSets

CONSTANTS SecProcs, SecPaths, SecData,
          SecKinds   \* among "local", "vault"

ASSUME SecretsAssumption == {"none", "torn", "error"} \intersect SecData = {}

VARIABLES secKind,
          secStored,  \* of a path its data, "none", or "torn": part of a file
          secProcs,   \* of each goroutine: where it is, its path, its data or answer
          secTorn     \* history: paths whose write was cut off or failed

secVars == <<secKind, secStored, secProcs, secTorn>>

SecretsInit ==
    /\ secKind \in SecKinds
    /\ secStored = [path \in SecPaths |-> "none"]
    /\ secProcs = [p \in SecProcs |-> [pc |-> "idle", path |-> "", data |-> "none"]]
    /\ secTorn = {}

\* No goroutine has the lock: a Store keeps it while it writes.
SecUnlocked == \A p \in SecProcs : secProcs[p].pc = "idle"
SecReturns(p, path, data) ==
    secProcs' = [secProcs EXCEPT ![p] = [pc |-> "idle", path |-> path, data |-> data]]
Stored(path, data) == secStored' = [secStored EXCEPT ![path] = data]

-----------------------------------------------------------------------------
(* LocalSecretManager; Rotate is Store.                                     *)

LocalStore(p, path, data) ==
    /\ secKind = "local" /\ SecUnlocked
    /\ Stored(path, "torn")
    /\ secProcs' = [secProcs EXCEPT ![p] = [pc |-> "write", path |-> path, data |-> data]]
    /\ UNCHANGED <<secKind, secTorn>>

LocalStoreReturns(p) ==
    LET c == secProcs[p] IN
    /\ c.pc = "write"
    /\ \/ Stored(c.path, c.data) /\ UNCHANGED secTorn
       \/ secTorn' = secTorn \union {c.path} /\ UNCHANGED secStored
    /\ SecReturns(p, "", "none") /\ UNCHANGED secKind

LocalGet(p, path) ==
    /\ secKind = "local" /\ SecUnlocked
    /\ SecReturns(p, path, IF secStored[path] = "torn" THEN "error" ELSE secStored[path])
    /\ UNCHANGED <<secKind, secStored, secTorn>>

LocalDelete(p, path) ==
    /\ secKind = "local" /\ SecUnlocked /\ secStored[path] # "none"
    /\ Stored(path, "none")
    /\ UNCHANGED <<secKind, secProcs, secTorn>>

\* The process stops; the files stay.
SecCrash ==
    /\ ~SecUnlocked
    /\ secTorn' = secTorn \union {secProcs[p].path : p \in {q \in SecProcs :
                                                          secProcs[q].pc = "write"}}
    /\ secProcs' = [p \in SecProcs |-> [pc |-> "idle", path |-> "", data |-> "none"]]
    /\ UNCHANGED <<secKind, secStored>>

-----------------------------------------------------------------------------
(* VaultClient: one request each, made with the lock held.  An error may    *)
(* hide that the request was carried out.                                   *)

StoreSecret(p, path, data) ==
    /\ secKind = "vault" /\ Stored(path, data)
    /\ UNCHANGED <<secKind, secProcs, secTorn>>

GetSecret(p, path) ==
    /\ secKind = "vault"
    /\ SecReturns(p, path, secStored[path])
    /\ UNCHANGED <<secKind, secStored, secTorn>>

DeleteSecret(p, path) ==
    /\ secKind = "vault" /\ Stored(path, "none")
    /\ UNCHANGED <<secKind, secProcs, secTorn>>

SecretsNext ==
    \/ \E p \in SecProcs, path \in SecPaths :
          \/ \E data \in SecData : LocalStore(p, path, data) \/ StoreSecret(p, path, data)
          \/ LocalGet(p, path) \/ LocalDelete(p, path)
          \/ GetSecret(p, path) \/ DeleteSecret(p, path)
    \/ \E p \in SecProcs : LocalStoreReturns(p)
    \/ SecCrash

SecretsSpec == SecretsInit /\ [][SecretsNext]_secVars

-----------------------------------------------------------------------------
\* With the types: a reader meets a file that does not decrypt only at a path where a
\* write was cut off or failed, never because a write is under way.
SecretsTypeOK ==
    /\ secKind \in SecKinds
    /\ secStored \in [SecPaths -> SecData \union {"none", "torn"}]
    /\ \A p \in SecProcs :
          /\ secProcs[p].pc \in {"idle", "write"}
          /\ secProcs[p].data = "error" => secProcs[p].path \in secTorn
=============================================================================

------------------------------ MODULE Keyring -------------------------------
(***************************************************************************)
(* The keys that encrypt stored credentials: security/encryption/          *)
(* keyring.go.  A ciphertext carries a tag of four bytes, the version of its *)
(* key cut to 32 bits; the cipher tells whether a key is the one it was     *)
(* made with.                                                              *)
(***************************************************************************)
EXTENDS Integers, FiniteSets

CONSTANTS KeyVersions,   \* versions callers give to AddKey, 0 among them
          KeyMaterials,  \* key material, "" among it
          KeyTags        \* how many versions a tag tells apart (2^32)

ASSUME KeyringAssumption == KeyVersions \subseteq Nat /\ KeyTags \in Nat \ {0}

VARIABLES keyKeys,     \* keys: version -> material
          keyCurrent,  \* currentVer
          keyTexts,    \* history: the ciphertexts made: tag, material, and the version it was
          keyGone      \* history: versions whose key was removed or replaced

keyVars == <<keyKeys, keyCurrent, keyTexts, keyGone>>

KeyringInit == keyKeys = <<>> /\ keyCurrent = 0 /\ keyTexts = {} /\ keyGone = {}

\* A version that has a key gets the new one in its place.
AddKey(v, k) ==
    /\ v >= 1 /\ k # ""
    /\ keyGone' = keyGone \union {w \in {v} \intersect DOMAIN keyKeys : keyKeys[w] # k}
    /\ keyKeys' = [w \in DOMAIN keyKeys \union {v} |-> IF w = v THEN k ELSE keyKeys[w]]
    /\ keyCurrent' = IF v > keyCurrent THEN v ELSE keyCurrent
    /\ UNCHANGED keyTexts

KeyringEncrypt ==
    /\ keyCurrent # 0 /\ keyCurrent \in DOMAIN keyKeys
    /\ keyTexts' = keyTexts \union {<<keyCurrent % KeyTags, keyKeys[keyCurrent], keyCurrent>>}
    /\ UNCHANGED <<keyKeys, keyCurrent, keyGone>>

KeyringDecrypt(text) == text[1] \in DOMAIN keyKeys /\ keyKeys[text[1]] = text[2]

RemoveKey(v) ==
    /\ v # keyCurrent /\ v \in DOMAIN keyKeys
    /\ keyKeys' = [w \in DOMAIN keyKeys \ {v} |-> keyKeys[w]]
    /\ keyGone' = keyGone \union {v}
    /\ UNCHANGED <<keyCurrent, keyTexts>>

KeyringNext ==
    \/ \E v \in KeyVersions, k \in KeyMaterials : AddKey(v, k)
    \/ \E v \in KeyVersions : RemoveKey(v)
    \/ KeyringEncrypt

KeyringSpec == KeyringInit /\ [][KeyringNext]_keyVars

-----------------------------------------------------------------------------
\* With the types: there is always a key to encrypt with once there was one, and what
\* was encrypted can be read unless its key was removed or replaced, or its version
\* did not fit the tag: AddKey takes any int from 1, and Encrypt cuts it to uint32.
KeyringTypeOK ==
    /\ keyCurrent \in KeyVersions \union {0}
    /\ keyCurrent = 0 \/ keyCurrent \in DOMAIN keyKeys
    /\ \A text \in keyTexts : KeyringDecrypt(text) \/ text[3] \in keyGone \/ text[3] >= KeyTags
=============================================================================

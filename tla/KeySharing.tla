----------------------------- MODULE KeySharing -----------------------------
(***************************************************************************)
(* What a shared project promises about its keys, without links, names,    *)
(* grants or devices: a key in use is handed only to those who may have it *)
(* then, whoever may no longer have it is a suspect until the key is        *)
(* replaced, and a key that was replaced is never used again.  Project is  *)
(* shown to implement this.                                                *)
(***************************************************************************)
CONSTANTS
    PubKey,     \* public keys
    Party       \* who can be given a key

VARIABLES
    current,    \* the keys in use
    retired,    \* the keys that were replaced
    may,        \* who may have each key that is in use
    suspects,   \* who may still have it, though they no longer may
    has         \* history: the keys of the project each party was given

vars == <<current, retired, may, suspects, has>>

TypeOK ==
    /\ current \in SUBSET PubKey
    /\ retired \in SUBSET PubKey
    /\ may \in [PubKey -> SUBSET Party]
    /\ suspects \in [PubKey -> SUBSET Party]
    /\ has \in [Party -> SUBSET PubKey]

Init ==
    /\ TypeOK
    /\ retired = {}
    /\ \A p \in Party : \A k \in has[p] : k \in current /\ p \in may[k]

\* Keys come into use for the first time or are replaced for good.
Replace ==
    /\ current' \cap retired' = {}
    /\ current \cup retired \subseteq current' \cup retired'
    /\ retired \subseteq retired'

\* A party is given only keys in use that it may have.
Give ==
    \A p \in Party :
        /\ has[p] \subseteq has'[p]
        /\ \A k \in has'[p] \ has[p] : k \in current' /\ p \in may'[k]

\* Losing a key that stays in use makes a suspect, and a suspect stays one.
Suspect ==
    \A k \in current \cap current' :
        suspects[k] \cup (may[k] \ may'[k]) \subseteq suspects'[k]

\* All of it may happen at once: a key is replaced and given in one request.
Step == TypeOK' /\ Replace /\ Give /\ Suspect

Spec == Init /\ [][Step]_vars

\* Whoever was given a key in use may have it or is a suspect.
HoldersKnown ==
    \A p \in Party : \A k \in has[p] \cap current : p \in may[k] \/ p \in suspects[k]
=============================================================================

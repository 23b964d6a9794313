---------------------------- MODULE SigningKeys -----------------------------
(***************************************************************************)
(* shared/auth: the keys that tokens are signed with are fetched from the  *)
(* realm and cached for JWKS_CACHE_SECONDS.  A request whose key is not    *)
(* among those it finds drops the entry and looks once more.               *)
(*                                                                         *)
(* Requests share the entry: one that has fetched stores what it got when  *)
(* it got it, and the realm may have changed its keys in between.          *)
(***************************************************************************)
EXTENDS Integers, FiniteSets

CONSTANTS
  Kids,        \* keys of the realm
  Verifiers,   \* requests at a time
  KeyLife,     \* JWKS_CACHE_SECONDS
  FetchTime,   \* the time from the realm's answer to its use, at most
  MaxKeyTime   \* bound: time

ASSUME SigningKeysAssumption ==
  KeyLife \in Nat \ {0} /\ FetchTime \in Nat /\ MaxKeyTime \in Nat

VARIABLES
  published,  \* the keys of the realm
  retired,    \* per key: when it was withdrawn, if it was
  jwks,       \* the entry: the keys, and when it was set
  verifier,   \* per request: how far _signing_key has come
  keyTime     \* the time

keyVars == <<published, retired, jwks, verifier, keyTime>>

-----------------------------------------------------------------------------
NoJwks == [keys |-> {}, at |-> -KeyLife]

\* "mayhave" is a ghost: the key has been published since the request came, and
\* no answer without it was stored between the request's two looks.
NoRequest == [pc |-> "none"]

SigningKeysInit ==
  /\ \E kid \in Kids : published = {kid}
  /\ retired = [kid \in Kids |-> -1]
  /\ jwks = NoJwks
  /\ verifier = [v \in Verifiers |-> NoRequest]
  /\ keyTime = 0

-----------------------------------------------------------------------------
(* The realm.                                                              *)

\* There always is a key, and none comes back.
PublishKey(kid) ==
  /\ kid \notin published /\ retired[kid] = -1
  /\ published' = published \cup {kid}
  /\ UNCHANGED <<retired, jwks, verifier, keyTime>>

WithdrawKey(kid) ==
  /\ kid \in published /\ published # {kid}
  /\ published' = published \ {kid}
  /\ retired' = [retired EXCEPT ![kid] = keyTime]
  /\ verifier' = [v \in Verifiers |->
       IF verifier[v] # NoRequest /\ verifier[v].kid = kid
       THEN [verifier[v] EXCEPT !.mayhave = FALSE] ELSE verifier[v]]
  /\ UNCHANGED <<jwks, keyTime>>

-----------------------------------------------------------------------------
(* _signing_key.                                                           *)

\* A token comes with the key it was signed with.
Verify(v, kid) ==
  /\ verifier[v] = NoRequest
  /\ kid \in published \/ retired[kid] # -1
  /\ verifier' = [verifier EXCEPT ![v] =
       [pc |-> "look", kid |-> kid, again |-> FALSE, keys |-> {}, at |-> 0,
        mayhave |-> kid \in published]]
  /\ UNCHANGED <<published, retired, jwks, keyTime>>

\* The key is looked for among these keys.
Searched(v, keys) ==
  [verifier[v] EXCEPT !.pc = IF verifier[v].kid \in keys THEN "found"
                             ELSE IF verifier[v].again THEN "refused" ELSE "drop",
                      !.keys = {}, !.at = keyTime]

\* _fetch_jwks: cache.get,
Cached == keyTime < jwks.at + KeyLife

LookUp(v) ==
  /\ verifier[v].pc = "look"
  /\ verifier' = [verifier EXCEPT ![v] =
       IF Cached THEN Searched(v, jwks.keys) ELSE [@ EXCEPT !.pc = "fetch"]]
  /\ UNCHANGED <<published, retired, jwks, keyTime>>

\* the request to the realm,
Fetch(v) ==
  /\ verifier[v].pc = "fetch"
  /\ verifier' = [verifier EXCEPT ![v].pc = "store", ![v].keys = published, ![v].at = keyTime]
  /\ UNCHANGED <<published, retired, jwks, keyTime>>

\* and cache.set; others may be between their looks.
BetweenLooks(w) == verifier[w].pc = "look" /\ verifier[w].again

Store(v) ==
  /\ verifier[v].pc = "store"
  /\ jwks' = [keys |-> verifier[v].keys, at |-> keyTime]
  /\ verifier' = [w \in Verifiers |->
       IF w = v THEN Searched(v, verifier[v].keys)
       ELSE IF BetweenLooks(w) THEN [verifier[w] EXCEPT !.mayhave = @ /\ verifier[w].kid \in verifier[v].keys]
       ELSE verifier[w]]
  /\ UNCHANGED <<published, retired, keyTime>>

\* Mutant: the second look finds what the first has found.
KeepEntry(v) ==
  /\ verifier[v].pc = "drop"
  /\ verifier' = [verifier EXCEPT ![v].pc = "look", ![v].again = TRUE]
  /\ UNCHANGED <<published, retired, jwks, keyTime>>

\* The key was not there: cache.delete, and once more.
DropEntry(v) ==
  /\ verifier[v].pc = "drop"
  /\ jwks' = NoJwks
  /\ verifier' = [verifier EXCEPT ![v].pc = "look", ![v].again = TRUE]
  /\ UNCHANGED <<published, retired, keyTime>>

\* The request is answered, or the realm is not, or the worker dies.
EndRequest(v) ==
  /\ verifier[v] # NoRequest
  /\ verifier' = [verifier EXCEPT ![v] = NoRequest]
  /\ UNCHANGED <<published, retired, jwks, keyTime>>

\* An answer of the realm is used within FetchTime.
KeyTick ==
  /\ keyTime < MaxKeyTime
  /\ \A v \in Verifiers : verifier[v].pc = "store" => keyTime < verifier[v].at + FetchTime
  /\ keyTime' = keyTime + 1
  /\ UNCHANGED <<published, retired, jwks, verifier>>

-----------------------------------------------------------------------------
SigningKeysNext ==
  \/ \E kid \in Kids : PublishKey(kid) \/ WithdrawKey(kid)
  \/ \E v \in Verifiers :
       \/ \E kid \in Kids : Verify(v, kid)
       \/ LookUp(v) \/ Fetch(v) \/ Store(v) \/ DropEntry(v) \/ EndRequest(v)
  \/ KeyTick

SigningKeysSpec == SigningKeysInit /\ [][SigningKeysNext]_keyVars

-----------------------------------------------------------------------------
(* Properties.                                                             *)

\* A token signed with a key the realm has published since before the request is
\* refused for its key only if another request stored, between the two looks, an
\* answer of before.
RotationIsNoticed ==
  \A v \in Verifiers : verifier[v].pc = "refused" => ~verifier[v].mayhave

\* A key the realm has withdrawn is accepted only for the life of an entry and
\* the time an answer takes to be stored.
WithdrawalIsNoticed ==
  \A v \in Verifiers :
    verifier[v].pc = "found" /\ verifier[v].kid \notin published =>
      verifier[v].at < retired[verifier[v].kid] + KeyLife + FetchTime

\* _signing_key follows the keys of the realm.
KeysFollowRealm == RotationIsNoticed /\ WithdrawalIsNoticed
=============================================================================

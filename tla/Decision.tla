------------------------------ MODULE Decision ------------------------------
(***************************************************************************)
(* The headers of an allowance.  They are built in two places: from the    *)
(* claims of the ID token when the cache missed, from the cached token     *)
(* when it hit.  The two must agree, for as long as an entry lives and for *)
(* every replica that reads it: also after a restart with other header     *)
(* names, because an entry holds claims and not headers.                   *)
(*                                                                         *)
(* Names come from the configuration, so they may be missing, or the same  *)
(* header up to case.  Then gin writes to that header more than once, in   *)
(* the order in which Go ranges over a map, which is any.                  *)
(***************************************************************************)
EXTENDS Naturals, SequencesExt

CONSTANTS
  Keys,        \* header names as they may be configured
  Canonical,   \* what net/http makes of each; NoKey for one it does not send
  NoKey,       \* the name that is not configured
  HeaderKeys,  \* the configurations: from the fields to Keys
  Texts        \* values of a claim, and names of groups

ASSUME KeysAssumption ==
  /\ NoKey \in Keys
  /\ Canonical \in [Keys -> Keys] /\ Canonical[NoKey] = NoKey

VARIABLES
  headerKeys,  \* the configuration of the replica that answers
  claims,      \* the claims of the ID token behind the entry, and the JWT
  cached,      \* the entry
  response,    \* the headers of the last answer
  answer       \* the last answer: none, a refusal, a miss or a hit

vars == <<headerKeys, claims, cached, response, answer>>

(* A value is a sequence of texts and commas; the empty string is empty.   *)
Empty == <<>>

Values == {Empty} \cup {<<t>> : t \in Texts}

Fields ==
  {"user_id", "user_email", "user_groups", "user_preferred_username",
   "user_jwt"}

(* idTokenClaims, and the access token that comes along: up to two groups. *)
Claims ==
  [Sub : Values, Email : Values,
   Groups : {<<>>} \cup {<<g>> : g \in Values} \cup {<<g, h>> : g, h \in Values},
   PreferredUsername : Values, JWT : Values]

NoClaims ==
  [Sub |-> Empty, Email |-> Empty, Groups |-> <<>>,
   PreferredUsername |-> Empty, JWT |-> Empty]

NoEntry == [UserID |-> Empty]

(* strings.Join(groups, ",").                                              *)
Join(groups) ==
  FlattenSeq([n \in 1 .. Len(groups) |->
                IF n = 1 THEN groups[n] ELSE <<",">> \o groups[n]])

-----------------------------------------------------------------------------
(* The ID token.                                                           *)

(* What may be in the place of an ID token.                                *)
Shapes == {"", "not three parts", "not base64", "not JSON", "JWT"}

Parses(shape) == shape = "JWT"

(* Mutant: the e-mail address is stored where the name belongs.            *)
CachedTokenSwapped(c) ==
  [UserID |-> c.Sub, Email |-> c.PreferredUsername, Groups |-> c.Groups,
   PreferredUsername |-> c.Email, AccessToken |-> c.JWT]

(* The entry that is stored.                                               *)
CachedToken(c) ==
  [UserID |-> c.Sub, Email |-> c.Email, Groups |-> c.Groups,
   PreferredUsername |-> c.PreferredUsername, AccessToken |-> c.JWT]

-----------------------------------------------------------------------------
(* The headers of a decision: a map from names to values.  A name that two *)
(* fields share gets the value of the later one.                           *)

Order ==
  <<"user_id", "user_email", "user_groups", "user_preferred_username",
    "user_jwt">>

(* The last of the fields present that is written under name k.            *)
LastUnder(k, present, keys) ==
  LET n == CHOOSE n \in 1 .. 5 :
             /\ Order[n] \in present /\ keys[Order[n]] = k
             /\ \A m \in n + 1 .. 5 :
                  Order[m] \notin present \/ keys[Order[m]] # k
  IN  Order[n]

Headers(value, present, keys) ==
  [k \in {keys[f] : f \in present} |-> value[LastUnder(k, present, keys)]]

(* Mutant: the groups are left out of a hit.                               *)
buildDecisionNoGroups(token, keys) ==
  LET value == [user_id |-> token.UserID, user_email |-> token.Email,
                user_groups |-> Empty,
                user_preferred_username |-> token.PreferredUsername,
                user_jwt |-> token.AccessToken]
  IN  Headers(value, {f \in Fields \ {"user_groups"} : value[f] # Empty}, keys)

(* The decision of a hit.                                                  *)
buildDecision(token, keys) ==
  LET value == [user_id |-> token.UserID, user_email |-> token.Email,
                user_groups |-> Join(token.Groups),
                user_preferred_username |-> token.PreferredUsername,
                user_jwt |-> token.AccessToken]
      present == {f \in Fields \ {"user_groups"} : value[f] # Empty}
                   \cup {f \in {"user_groups"} : token.Groups # <<>>}
  IN  Headers(value, present, keys)

(* The decision of a miss.                                                 *)
buildDecisionFromClaims(c, keys) ==
  LET value == [user_id |-> c.Sub, user_email |-> c.Email,
                user_groups |-> Join(c.Groups),
                user_preferred_username |-> c.PreferredUsername,
                user_jwt |-> c.JWT]
      present == {f \in Fields \ {"user_groups"} : value[f] # Empty}
                   \cup {f \in {"user_groups"} : c.Groups # <<>>}
  IN  Headers(value, present, keys)

(* What the client may get to see of such a map: of the names of a header  *)
(* one is written last; an empty value removes the header; a name that is  *)
(* none is not sent.                                                       *)
Responses(headers) ==
  LET Names(h) == {k \in DOMAIN headers : Canonical[k] = h}
      Sent == {Canonical[k] : k \in DOMAIN headers} \ {NoKey}
      last == {f \in [Sent -> DOMAIN headers] : \A h \in Sent : f[h] \in Names(h)}
      Kept(f) == {h \in Sent : headers[f[h]] # Empty}
  IN  {[h \in Kept(f) |-> headers[f[h]]] : f \in last}

-----------------------------------------------------------------------------

Init ==
  /\ headerKeys \in HeaderKeys
  /\ claims = NoClaims
  /\ cached = NoEntry
  /\ response = <<>>
  /\ answer = "none"

(* The cache has missed, and ZITADEL has answered with tokens.             *)
Miss(shape, c) ==
  /\ cached = NoEntry
  /\ \/ /\ Parses(shape)
        /\ claims' = c
        /\ cached' = CachedToken(c)
        /\ response' \in Responses(buildDecisionFromClaims(c, headerKeys))
        /\ answer' = "miss"
     \/ /\ ~ Parses(shape)
        /\ response' = <<>>
        /\ answer' = "refused"
        /\ UNCHANGED <<claims, cached>>
  /\ UNCHANGED headerKeys

(* The cache has hit.                                                      *)
Hit ==
  /\ cached # NoEntry
  /\ response' \in Responses(buildDecision(cached, headerKeys))
  /\ answer' = "hit"
  /\ UNCHANGED <<headerKeys, claims, cached>>

(* The entry expires.                                                      *)
Expire ==
  /\ cached # NoEntry
  /\ cached' = NoEntry
  /\ claims' = NoClaims
  /\ response' = <<>> /\ answer' = "none"
  /\ UNCHANGED headerKeys

(* The next request is served by a replica with another configuration.     *)
Reconfigure ==
  /\ headerKeys' \in HeaderKeys \ {headerKeys}
  /\ response' = <<>> /\ answer' = "none"
  /\ UNCHANGED <<claims, cached>>

Next ==
  \/ \E shape \in Shapes, c \in Claims : Miss(shape, c)
  \/ Hit
  \/ Expire
  \/ Reconfigure

Spec == Init /\ [][Next]_vars

-----------------------------------------------------------------------------
(* Properties.                                                             *)

(* A hit may answer what a miss with the same claims would have, and       *)
(* nothing else, whatever the names (service.go 183-229: two functions     *)
(* kept alike by hand).                                                    *)
HitRepeatsMiss ==
  cached # NoEntry =>
    Responses(buildDecision(cached, headerKeys)) =
      Responses(buildDecisionFromClaims(claims, headerKeys))

(* The fields whose header is theirs alone.                                *)
Alone(f) ==
  /\ Canonical[headerKeys[f]] # NoKey
  /\ \A g \in Fields \ {f} :
       Canonical[headerKeys[g]] # Canonical[headerKeys[f]]

(* A header that one field is configured for carries that claim of the ID  *)
(* token, on a miss and on a hit, and is absent when the claim is.         *)
HeadersAreClaims ==
  answer \in {"miss", "hit"} =>
    LET claim == [user_id |-> claims.Sub, user_email |-> claims.Email,
                  user_groups |-> Join(claims.Groups),
                  user_preferred_username |-> claims.PreferredUsername,
                  user_jwt |-> claims.JWT]
    IN  \A f \in {g \in Fields : Alone(g)} :
          LET h == Canonical[headerKeys[f]] IN
            IF claim[f] = Empty
            THEN h \notin DOMAIN response
            ELSE h \in DOMAIN response /\ response[h] = claim[f]
=============================================================================

--------------------------- MODULE DecisionProofs ---------------------------
(***************************************************************************)
(* Theorems about Decision, for every set of header names, whatever        *)
(* net/http makes of them, and every configuration of the fields.          *)
(***************************************************************************)
EXTENDS Decision, TLAPS

-----------------------------------------------------------------------------
(* The two ways to build a decision.                                       *)

(* The value of each field.                                                *)
ClaimOf(c) ==
  [user_id |-> c.Sub, user_email |-> c.Email, user_groups |-> Join(c.Groups),
   user_preferred_username |-> c.PreferredUsername, user_jwt |-> c.JWT]

(* The fields for which a header is set.                                   *)
PresentIn(c) ==
  {f \in Fields \ {"user_groups"} : ClaimOf(c)[f] # Empty}
    \cup {f \in {"user_groups"} : c.Groups # <<>>}

(* The decision of a hit on an entry made of some claims is that of the    *)
(* miss that made it.                                                      *)
LEMMA BuiltAlike ==
  ASSUME NEW c, NEW keys
  PROVE  /\ buildDecisionFromClaims(c, keys) =
              Headers(ClaimOf(c), PresentIn(c), keys)
         /\ buildDecision(CachedToken(c), keys) =
              Headers(ClaimOf(c), PresentIn(c), keys)
<1>1. buildDecisionFromClaims(c, keys) =
        Headers(ClaimOf(c), PresentIn(c), keys)
  BY DEF buildDecisionFromClaims, ClaimOf, PresentIn
<1> DEFINE token == CachedToken(c)
<1>2. /\ token.UserID = c.Sub /\ token.Email = c.Email
      /\ token.Groups = c.Groups
      /\ token.PreferredUsername = c.PreferredUsername
      /\ token.AccessToken = c.JWT
  BY DEF CachedToken
<1> HIDE DEF token
<1>3. buildDecision(token, keys) = Headers(ClaimOf(c), PresentIn(c), keys)
  BY <1>2 DEF buildDecision, ClaimOf, PresentIn
<1> QED
  BY <1>1, <1>3 DEF token

(* No groups make an empty value.                                          *)
LEMMA JoinOfNone == Join(<<>>) = Empty
BY DEF Join, FlattenSeq, Empty

(* A field that has a value has a header.                                  *)
LEMMA ValuesArePresent ==
  ASSUME NEW c, NEW f \in Fields, ClaimOf(c)[f] # Empty
  PROVE  f \in PresentIn(c)
<1>1. CASE f = "user_groups"
  <2>1. Join(c.Groups) # Empty
    BY <1>1 DEF ClaimOf
  <2>2. c.Groups # <<>>
    BY <2>1, JoinOfNone
  <2> QED
    BY <1>1, <2>2 DEF PresentIn
<1>2. CASE f # "user_groups"
  BY <1>2 DEF PresentIn
<1> QED
  BY <1>1, <1>2

-----------------------------------------------------------------------------
(* The headers of a decision, as the client gets to see them.              *)

LEMMA OrderOfFields ==
  /\ \A n \in 1 .. 5 : Order[n] \in Fields
  /\ \A f \in Fields : \E n \in 1 .. 5 : Order[n] = f
  /\ \A m, n \in 1 .. 5 : Order[m] = Order[n] => m = n
BY DEF Order, Fields

(* A field whose name no other has is the last under that name.            *)
LEMMA LastIsAlone ==
  ASSUME NEW keys, NEW present \in SUBSET Fields, NEW f \in present,
         \A g \in Fields \ {f} : keys[g] # keys[f]
  PROVE  LastUnder(keys[f], present, keys) = f
<1> DEFINE Latest(n) ==
             /\ Order[n] \in present /\ keys[Order[n]] = keys[f]
             /\ \A m \in n + 1 .. 5 :
                  Order[m] \notin present \/ keys[Order[m]] # keys[f]
<1>1. PICK n \in 1 .. 5 : Order[n] = f
  BY OrderOfFields
<1>2. \A m \in n + 1 .. 5 : Order[m] \in Fields \ {f}
  BY <1>1, OrderOfFields
<1>3. Latest(n)
  BY <1>1, <1>2
<1>4. \A m \in 1 .. 5 : Latest(m) => Order[m] = f
  BY OrderOfFields
<1> DEFINE last == CHOOSE m \in 1 .. 5 : Latest(m)
<1>5. last \in 1 .. 5 /\ Latest(last)
  BY <1>3
<1>6. LastUnder(keys[f], present, keys) = Order[last]
  BY DEF LastUnder
<1> HIDE DEF last
<1> QED
  BY <1>4, <1>5, <1>6

(* What a header of response says of a value.                              *)
Carries(headers, h, value) ==
  IF value = Empty THEN h \notin DOMAIN headers
  ELSE h \in DOMAIN headers /\ headers[h] = value

(* The header of a field that is alone carries the value of that field,    *)
(* in whatever order the headers were written.                             *)
LEMMA AloneIsCarried ==
  ASSUME NEW value, NEW present \in SUBSET Fields, NEW keys,
         NEW f \in Fields, value[f] # Empty => f \in present,
         Canonical[keys[f]] # NoKey,
         \A g \in Fields \ {f} : Canonical[keys[g]] # Canonical[keys[f]],
         NEW r \in Responses(Headers(value, present, keys))
  PROVE  Carries(r, Canonical[keys[f]], value[f])
<1> DEFINE headers == Headers(value, present, keys)
           h == Canonical[keys[f]]
           Names(x) == {k \in DOMAIN headers : Canonical[k] = x}
           Sent == {Canonical[k] : k \in DOMAIN headers} \ {NoKey}
           Kept(l) == {x \in Sent : headers[l[x]] # Empty}
<1>1. DOMAIN headers = {keys[g] : g \in present}
  BY DEF Headers
<1>2. PICK l \in [Sent -> DOMAIN headers] :
        /\ \A x \in Sent : l[x] \in Names(x)
        /\ r = [x \in Kept(l) |-> headers[l[x]]]
  BY DEF Responses
<1>3. f \in present => headers[keys[f]] = value[f]
  BY LastIsAlone DEF Headers
<1> HIDE DEF headers
<1>4. CASE f \in present
  <2>1. Names(h) = {keys[f]}
    BY <1>1, <1>4
  <2>2. h \in Sent
    BY <1>1, <1>4
  <2>3. l[h] = keys[f]
    BY <1>2, <2>1, <2>2
  <2>4. h \in Kept(l) <=> value[f] # Empty
    BY <1>3, <1>4, <2>2, <2>3
  <2> QED
    BY <1>2, <1>3, <1>4, <2>3, <2>4 DEF Carries
<1>5. CASE f \notin present
  <2>1. h \notin Sent
    BY <1>1, <1>5
  <2> QED
    BY <1>2, <1>5, <2>1 DEF Carries
<1> QED
  BY <1>4, <1>5

-----------------------------------------------------------------------------
(* The inductive invariant.                                                *)

(* An entry is made of the claims that came with it.                       *)
DecisionInv ==
  /\ cached # NoEntry => cached = CachedToken(claims)
  /\ HeadersAreClaims

LEMMA CarriedClaims ==
  HeadersAreClaims <=>
    (answer \in {"miss", "hit"} =>
       \A f \in Fields : Alone(f) =>
         Carries(response, Canonical[headerKeys[f]], ClaimOf(claims)[f]))
BY DEF HeadersAreClaims, Carries, ClaimOf

(* Any answer that a miss may make carries the claims.                     *)
LEMMA AnswersCarry ==
  ASSUME NEW c,
         NEW r \in Responses(buildDecisionFromClaims(c, headerKeys)),
         NEW f \in Fields, Alone(f)
  PROVE  Carries(r, Canonical[headerKeys[f]], ClaimOf(c)[f])
<1>1. PresentIn(c) \in SUBSET Fields
  BY DEF PresentIn, Fields
<1>2. r \in Responses(Headers(ClaimOf(c), PresentIn(c), headerKeys))
  BY BuiltAlike
<1> QED
  BY <1>1, <1>2, ValuesArePresent, AloneIsCarried DEF Alone

LEMMA InitDecision == Init => DecisionInv
BY DEF Init, DecisionInv, HeadersAreClaims

LEMMA NextDecision == DecisionInv /\ [Next]_vars => DecisionInv'
<1> SUFFICES ASSUME DecisionInv, [Next]_vars PROVE DecisionInv'
  OBVIOUS
<1>1. ASSUME answer' \notin {"miss", "hit"}
      PROVE  HeadersAreClaims'
  BY <1>1 DEF HeadersAreClaims
<1>2. ASSUME NEW c, claims' = c, UNCHANGED headerKeys,
             response' \in Responses(buildDecisionFromClaims(c, headerKeys))
      PROVE  HeadersAreClaims'
  <2>1. \A f \in Fields : Alone(f)' =>
          Carries(response', Canonical[headerKeys[f]], ClaimOf(c)[f])
    BY <1>2, AnswersCarry DEF Alone
  <2> QED
    BY <1>2, <2>1 DEF HeadersAreClaims, Carries, ClaimOf
<1>3. ASSUME NEW shape \in Shapes, NEW c \in Claims, Miss(shape, c)
      PROVE  DecisionInv'
  <2>1. CASE Parses(shape)
    BY <1>2, <1>3, <2>1 DEF Miss, DecisionInv
  <2>2. CASE ~ Parses(shape)
    BY <1>1, <1>3, <2>2 DEF Miss, DecisionInv
  <2> QED
    BY <2>1, <2>2
<1>4. CASE Hit
  <2>1. response' \in Responses(buildDecisionFromClaims(claims, headerKeys))
    BY <1>4, BuiltAlike DEF Hit, DecisionInv
  <2> QED
    BY <1>2, <1>4, <2>1 DEF Hit, DecisionInv
<1>5. CASE Expire
  BY <1>1, <1>5 DEF Expire, DecisionInv
<1>6. CASE Reconfigure
  BY <1>1, <1>6 DEF Reconfigure, DecisionInv
<1>7. CASE UNCHANGED vars
  BY <1>7 DEF vars, DecisionInv, HeadersAreClaims, Alone
<1> QED
  BY <1>3, <1>4, <1>5, <1>6, <1>7 DEF Next

-----------------------------------------------------------------------------
(* The theorems.                                                           *)

LEMMA DecisionSafe == Spec => []DecisionInv
BY InitDecision, NextDecision, PTL DEF Spec

(* A hit may answer what a miss with the same claims would have, and       *)
(* nothing else, also after a restart with other header names.             *)
THEOREM HitsRepeatMisses == Spec => []HitRepeatsMiss
<1>1. DecisionInv => HitRepeatsMiss
  BY BuiltAlike DEF DecisionInv, HitRepeatsMiss
<1> QED
  BY <1>1, DecisionSafe, PTL

(* A header that one field is configured for carries that claim of the ID  *)
(* token, whatever the other fields share.                                 *)
THEOREM HeadersCarryClaims == Spec => []HeadersAreClaims
<1>1. DecisionInv => HeadersAreClaims
  BY DEF DecisionInv
<1> QED
  BY <1>1, DecisionSafe, PTL
=============================================================================

---------------------------- MODULE DatesProofs -----------------------------
(***************************************************************************)
(* Theorems about Dates, for words of any width, any distance of the years *)
(* 1 and 1970 and any last second that fit into them.                      *)
(***************************************************************************)
EXTENDS Dates, TLAPS

-----------------------------------------------------------------------------
(* Arithmetic that wraps around.                                           *)

LEMMA HalfType == Half \in Nat /\ LastSecond + Era < Half
<1>1. Half \in Int
  BY DatesAssumption DEF Half
<1> QED
  BY <1>1, DatesAssumption DEF Int64

(* A remainder is what is left after one subtraction, if one is enough.    *)
LEMMA Remainder ==
  ASSUME NEW m \in Nat \ {0}, NEW a \in Nat, a < 2 * m
  PROVE  a % m = IF a < m THEN a ELSE a - m
<1>1. CASE a < m
  <2>1. a \in 0 .. m - 1
    BY <1>1
  <2> QED
    BY <1>1, <2>1
<1>2. CASE ~ (a < m)
  <2>1. a \in m .. 2 * m - 1
    BY <1>2
  <2>2. a % m = a - m
    BY <2>1
  <2> QED
    BY <1>2, <2>2
<1> QED
  BY <1>1, <1>2

(* A number that is too large by less than a word wraps around once.       *)
LEMMA WrapsOnce ==
  ASSUME NEW n \in Int, - Half <= n, n < 3 * Half
  PROVE  Wrapped(n) = IF n < Half THEN n ELSE n - 2 * Half
<1>1. Half \in Nat \ {0}
  BY HalfType, DatesAssumption
<1> DEFINE m == 2 * Half
           a == n + Half
<1>2. m \in Nat \ {0} /\ a \in Nat /\ a < 2 * m
  BY <1>1
<1>3. Wrapped(n) = (a % m) - Half
  BY DEF Wrapped
<1>4. a < m <=> n < Half
  BY <1>1
<1>5. a - m - Half = n - 2 * Half /\ a - Half = n
  BY <1>1
<1> HIDE DEF m, a
<1>6. a % m = IF a < m THEN a ELSE a - m
  BY <1>2, Remainder
<1> QED
  BY <1>3, <1>4, <1>5, <1>6

(* The seconds of a time that falls no earlier than the clock did not wrap *)
(* around when it was made of them.                                        *)
LEMMA ExactUnlessExpired ==
  ASSUME NEW seconds \in Int64, clock \in 0 .. Horizon,
         ~ Expired(FromUnix(seconds))
  PROVE  /\ seconds \in Nat /\ seconds + Era < Half
         /\ FromUnix(seconds) = seconds + Era
<1>1. clock \in Nat /\ clock + Era < Half
  BY HalfType, DatesAssumption
<1>2. FromUnix(clock) = clock + Era
  BY <1>1, HalfType, WrapsOnce, DatesAssumption DEF FromUnix
<1>3. seconds \in Int /\ - Half <= seconds /\ seconds < Half
  BY HalfType DEF Int64
<1>4. Wrapped(seconds + Era) = IF seconds + Era < Half THEN seconds + Era
                               ELSE seconds + Era - 2 * Half
  BY <1>3, HalfType, WrapsOnce, DatesAssumption
<1>5. FromUnix(seconds) >= clock + Era
  BY <1>2, <1>3, <1>4, <1>1, HalfType, DatesAssumption
     DEF Expired, FromUnix
<1> QED
  BY <1>1, <1>3, <1>4, <1>5, HalfType, DatesAssumption DEF FromUnix

(* A time up to the last that fits is read as the seconds since 1970.      *)
LEMMA SecondsOf ==
  ASSUME NEW t \in Nat, t < Half
  PROVE  ToUnix(t) = t - Era
<1>1. t - Era \in Int /\ - Half <= t - Era /\ t - Era < Half
  BY HalfType, DatesAssumption
<1> QED
  BY <1>1, WrapsOnce, HalfType DEF ToUnix

-----------------------------------------------------------------------------
(* The inductive invariant.                                                *)

(* The dates after which a request to ZITADEL was written.                 *)
Dated ==
  stage \in {"handled", "checked", "sent"} =>
    /\ asked \in Nat /\ asked + Era < Half
    /\ date = asked + Era

(* A PAT made here bears the second that was asked for, as a text.         *)
MadeHere(pat) ==
  \E seconds \in 0 .. LastSecond :
    pat = Token(<<seconds>>, Text(seconds + Era))

DatesInv ==
  /\ clock \in 0 .. Horizon
  /\ asked \in Int64
  /\ Dated
  /\ SentAsAsked
  /\ \A pat \in stored : pat \in Foreign \/ MadeHere(pat)
  /\ DatesAsStored

(* A text that names a time is neither of those that stand for none.       *)
LEMMA TextsDiffer ==
  ASSUME NEW t
  PROVE  /\ Text(t) \notin {Null, Blank}
         /\ Text(t)[2] = t
BY DEF Text, Null, Blank

(* Reading the date of a PAT gives the date ZITADEL has.                   *)
LEMMA ListedRight ==
  ASSUME NEW pat, pat \in Foreign \/ MadeHere(pat)
  PROVE  AsStored(<<pat, ToUnix(UnmarshalJSON(pat.expires))>>)
<1>1. CASE MadeHere(pat)
  <2>1. PICK seconds \in 0 .. LastSecond :
          pat = Token(<<seconds>>, Text(seconds + Era))
    BY <1>1 DEF MadeHere
  <2>2. pat.origin = <<seconds>> /\ pat.expires = Text(seconds + Era)
    BY <2>1 DEF Token
  <2>3. UnmarshalJSON(pat.expires) = seconds + Era
    BY <2>2, TextsDiffer DEF UnmarshalJSON
  <2>4. ToUnix(seconds + Era) = seconds
    BY SecondsOf, HalfType, DatesAssumption
  <2>5. pat.origin # Elsewhere
    BY <2>2 DEF Elsewhere
  <2>6. AsStored(<<pat, seconds>>)
    BY <2>2, <2>5 DEF AsStored
  <2> QED
    BY <2>2, <2>3, <2>4, <2>6
<1>2. CASE pat \in Foreign
  <2>1. pat.origin = Elsewhere
        /\ pat.expires \in {Null, Blank, Text(LastSecond + Era)}
    BY <1>2 DEF Foreign, Token
  <2>2. CASE pat.expires \in {Null, Blank}
    <3>1. UnmarshalJSON(pat.expires) = 0
      BY <2>2 DEF UnmarshalJSON, Zero
    <3>2. ToUnix(0) < 0
      BY SecondsOf, HalfType, DatesAssumption
    <3> QED
      BY <2>1, <2>2, <3>1, <3>2 DEF AsStored
  <2>3. CASE pat.expires = Text(LastSecond + Era)
    <3>1. UnmarshalJSON(pat.expires) = LastSecond + Era
          /\ pat.expires \notin {Null, Blank}
      BY <2>3, TextsDiffer DEF UnmarshalJSON
    <3>2. ToUnix(LastSecond + Era) + Era = LastSecond + Era
      BY SecondsOf, HalfType, DatesAssumption
    <3> QED
      BY <2>1, <2>3, <3>1, <3>2 DEF AsStored
  <2> QED
    BY <2>1, <2>2, <2>3
<1> QED
  BY <1>1, <1>2

-----------------------------------------------------------------------------
(* The steps.                                                              *)

LEMMA InitDates == Init => DatesInv
<1> SUFFICES ASSUME Init PROVE DatesInv
  OBVIOUS
<1>1. 0 \in Int64 /\ 0 \in 0 .. Horizon
  BY HalfType, DatesAssumption DEF Int64
<1>2. answer.dates = {}
  BY DEF Init, Told
<1> QED
  BY <1>1, <1>2 DEF Init, DatesInv, Dated, SentAsAsked, DatesAsStored

(* An answer without dates has no wrong one.                               *)
LEMMA NoDates ==
  ASSUME NEW what, answer' = Told(what, {})
  PROVE  DatesAsStored'
<1>1. answer'.dates = {}
  BY DEF Told
<1> QED
  BY <1>1 DEF DatesAsStored

LEMMA NextDates == DatesInv /\ [Next]_vars => DatesInv'
<1> SUFFICES ASSUME DatesInv, [Next]_vars PROVE DatesInv'
  OBVIOUS
<1>1. UNCHANGED answer => DatesAsStored'
  BY DEF DatesInv, DatesAsStored
<1>2. ASSUME NEW f \in Forms, NEW seconds \in Int64, Receive(f, seconds)
      PROVE  DatesInv'
  <2>1. 0 \in Int64
    BY HalfType, DatesAssumption DEF Int64
  <2>2. stage' \in {"idle", "received"} /\ DatesAsStored'
    BY <1>1, <1>2, NoDates DEF Receive
  <2> QED
    BY <1>2, <2>1, <2>2 DEF Receive, DatesInv, Dated, SentAsAsked
<1>3. CASE Handle
  <2>1. stage' \in {"idle", "handled"} /\ DatesAsStored'
    BY <1>1, <1>3, NoDates DEF Handle, Invalid
  <2>2. Dated'
    BY <1>3, ExactUnlessExpired DEF Handle, Invalid, DatesInv, Dated
  <2> QED
    BY <1>3, <2>1, <2>2 DEF Handle, DatesInv, SentAsAsked
<1>4. CASE CheckAgain
  <2>1. stage' \in {"idle", "checked"} /\ stage = "handled" /\ DatesAsStored'
    BY <1>1, <1>4, NoDates DEF CheckAgain, Invalid
  <2> QED
    BY <1>4, <2>1 DEF CheckAgain, DatesInv, Dated, SentAsAsked
<1>5. CASE AddPersonalAccessToken
  <2>1. date # Zero /\ asked \in Nat /\ date = asked + Era
    BY <1>5, DatesAssumption
       DEF AddPersonalAccessToken, DatesInv, Dated, Zero
  <2>2. SentAsAsked'
    BY <1>5, <2>1 DEF AddPersonalAccessToken, SentAsAsked, MarshalJSON
  <2> QED
    BY <1>1, <1>5, <2>2 DEF AddPersonalAccessToken, DatesInv, Dated
<1>6. CASE Added
  <2>1. /\ asked \in Nat /\ asked + Era < Half /\ date = asked + Era
        /\ body = Text(asked + Era) /\ body[2] = asked + Era
    BY <1>6, TextsDiffer DEF Added, DatesInv, Dated, SentAsAsked
  <2>2. asked \in 0 .. LastSecond
    BY <1>6, <2>1, DatesAssumption DEF Added, Readable, Zero
  <2> DEFINE pat == Token(<<asked>>, body)
  <2>3. MadeHere(pat)
    BY <2>1, <2>2 DEF MadeHere
  <2>4. ToUnix(date) = asked
    BY <2>1, SecondsOf, DatesAssumption
  <2>5. DatesAsStored'
    <3>1. answer'.dates = {<<pat, asked>>}
      BY <1>6, <2>4 DEF Added, Told
    <3>2. pat.origin = <<asked>>
      BY DEF Token
    <3>3. AsStored(<<pat, asked>>)
      BY <3>2 DEF AsStored, Elsewhere
    <3> HIDE DEF pat
    <3> QED
      BY <3>1, <3>3 DEF DatesAsStored
  <2> QED
    BY <1>6, <2>3, <2>5 DEF Added, DatesInv, Dated, SentAsAsked, MadeHere
<1>7. CASE NotAdded
  <2>1. DatesAsStored'
    BY <1>7, NoDates DEF NotAdded
  <2> QED
    BY <1>7, <2>1 DEF NotAdded, DatesInv, Dated, SentAsAsked
<1>8. CASE ListPersonalAccessTokens
  <2>1. answer'.dates =
          {<<p, ToUnix(UnmarshalJSON(p.expires))>> : p \in stored}
    BY <1>8 DEF ListPersonalAccessTokens, Told
  <2>2. \A told \in answer'.dates : AsStored(told)
    BY <2>1, ListedRight DEF DatesInv
  <2>3. DatesAsStored'
    BY <2>2 DEF DatesAsStored
  <2> QED
    BY <1>8, <2>3 DEF ListPersonalAccessTokens, DatesInv, Dated, SentAsAsked
<1>9. CASE Tick
  <2>1. clock' \in 0 .. Horizon
    BY <1>9, DatesAssumption DEF Tick, DatesInv
  <2> QED
    BY <1>1, <1>9, <2>1 DEF Tick, DatesInv, Dated, SentAsAsked
<1>10. CASE UNCHANGED vars
  BY <1>1, <1>10 DEF vars, DatesInv, Dated, SentAsAsked
<1> QED
  BY <1>2, <1>3, <1>4, <1>5, <1>6, <1>7, <1>8, <1>9, <1>10 DEF Next

-----------------------------------------------------------------------------
(* The theorems.                                                           *)

LEMMA DatesSafe == Spec => []DatesInv
BY InitDates, NextDates, PTL DEF Spec

(* ZITADEL is sent the very second that was asked for: a date that wraps   *)
(* around falls before the clock, and one at the year 1 does so too.       *)
THEOREM NoDateWraps == Spec => []SentAsAsked
<1>1. DatesInv => SentAsAsked
  BY DEF DatesInv
<1> QED
  BY <1>1, DatesSafe, PTL

(* A date comes back from ZITADEL as it was asked for, or as ZITADEL has   *)
(* it for a PAT made elsewhere.                                            *)
THEOREM DatesComeBack == Spec => []DatesAsStored
<1>1. DatesInv => DatesAsStored
  BY DEF DatesInv
<1> QED
  BY <1>1, DatesSafe, PTL
=============================================================================

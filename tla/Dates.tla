------------------------------- MODULE Dates --------------------------------
(***************************************************************************)
(* The expiration date of a PAT on its way from the caller to ZITADEL and  *)
(* back: seconds since 1970 in a request, a time.Time in the service, RFC  *)
(* 3339 text in the JSON of ZITADEL, and seconds again in an answer.       *)
(*                                                                         *)
(* A time.Time counts seconds from the year 1 in a signed word, so seconds *)
(* near the largest wrap around when they are converted.  The word has     *)
(* Width bits and the years before 1970 last Era seconds; texts have four  *)
(* digits for a year, and LastSecond is the last one they can name.        *)
(*                                                                         *)
(* One PAT is made at a time; the operations around the dates are those of *)
(* PatService.                                                             *)
(***************************************************************************)
EXTENDS Integers, FiniteSets

CONSTANTS
  Width,       \* bits of an int64
  Era,         \* seconds from the year 1 to 1970
  LastSecond,  \* the end of the year 9999, in seconds since 1970
  Horizon,     \* bound: the clock runs from 0 to here
  MaxStored    \* bound: PATs at ZITADEL

(* How many values of an int64 are negative.                               *)
Half == 2 ^ (Width - 1)

Int64 == -Half .. Half - 1

ASSUME DatesAssumption ==
  /\ Width \in Nat \ {0} /\ Era \in Nat \ {0}
  /\ LastSecond \in Nat /\ LastSecond + Era \in Int64
  /\ Horizon \in 0 .. LastSecond
  /\ MaxStored \in Nat

VARIABLES
  clock,   \* seconds since 1970
  stage,   \* of CreatePAT: idle, received, handled, checked, sent
  asked,   \* the seconds in the request
  form,    \* how the request wrote them
  date,    \* the time.Time made of them
  body,    \* the date in the last request to ZITADEL
  stored,  \* the PATs of the caller at ZITADEL
  answer   \* what the caller was told last

vars == <<clock, stage, asked, form, date, body, stored, answer>>

-----------------------------------------------------------------------------
(* Package time.  A time is its distance from the year 1.                  *)

Wrapped(n) == ((n + Half) % (2 * Half)) - Half

Zero == 0

FromUnix(seconds) == Wrapped(seconds + Era)

ToUnix(t) == Wrapped(t - Era)

(* A text names a time, or is one of two that stand for none.              *)
Null == <<"null">>
Blank == <<"">>
Text(t) == <<"date", t>>

(* time.Parse reads the years that have four digits.                       *)
Readable(text) ==
  /\ text \notin {Null, Blank}
  /\ text[2] \in Zero .. LastSecond + Era

MarshalJSON(t) == IF t = Zero THEN Null ELSE Text(t)

(* Mutant: only the blank text is no date, and null is the end of time.    *)
UnmarshalNullForever(text) ==
  IF text = Blank THEN Zero
  ELSE IF text = Null THEN LastSecond + Era
  ELSE text[2]

(* The text of a date: null leaves a pointer nil, for which the callers    *)
(* put the zero time; a blank text is the zero time.                       *)
UnmarshalJSON(text) == IF text \in {Null, Blank} THEN Zero ELSE text[2]

(* Mutant: seconds are compared, which do not wrap.                        *)
ExpiredInSeconds(t) == ToUnix(t) < clock

(* expirationDate.Before(time.Now())                                       *)
Expired(t) == t < FromUnix(clock)

-----------------------------------------------------------------------------

(* A PAT made here is kept with the seconds that were asked for; one made  *)
(* elsewhere may have any date that can be read, or none.                  *)
Elsewhere == <<>>
Token(origin, text) == [origin |-> origin, expires |-> text]

(* Examples of the latter.                                                 *)
Foreign == {Token(Elsewhere, t) : t \in {Null, Blank, Text(LastSecond + Era)}}

Told(what, dates) == [what |-> what, dates |-> dates]

Init ==
  /\ clock = 0
  /\ stage = "idle"
  /\ asked = 0 /\ form = "number" /\ date = Zero /\ body = Null
  /\ stored \in SUBSET Foreign
  /\ answer = Told("nothing", {})

(* The forms of the date in the JSON of a request: a number, its digits as *)
(* text, a date as text (no int64), or nothing, which is 0.                *)
Forms == {"number", "digits", "RFC 3339", "absent"}

(* The request is decoded before the handler sees it.                      *)
Receive(f, seconds) ==
  /\ stage = "idle"
  /\ form' = f
  /\ asked' = IF f = "absent" THEN 0 ELSE seconds
  /\ date' = Zero /\ body' = Null
  /\ IF f = "RFC 3339"
     THEN /\ answer' = Told("invalid", {}) /\ UNCHANGED stage
     ELSE /\ stage' = "received" /\ UNCHANGED answer
  /\ UNCHANGED <<clock, stored>>

Invalid ==
  /\ stage' = "idle"
  /\ answer' = Told("invalid", {})

(* The handler makes a time of the seconds and looks at the clock.         *)
Handle ==
  /\ stage = "received"
  /\ date' = FromUnix(asked)
  /\ \/ /\ Expired(date')
        /\ Invalid
     \/ /\ ~ Expired(date')
        /\ stage' = "handled"
        /\ UNCHANGED answer
  /\ UNCHANGED <<clock, asked, form, body, stored>>

(* The domain service looks again, and then finds or makes the machine     *)
(* user, which may fail.                                                   *)
CheckAgain ==
  /\ stage = "handled"
  /\ \/ /\ Expired(date)
        /\ Invalid
     \/ /\ ~ Expired(date)
        /\ stage' = "checked"
        /\ UNCHANGED answer
     \/ /\ ~ Expired(date)
        /\ stage' = "idle"
        /\ answer' = Told("internal", {})
  /\ UNCHANGED <<clock, asked, form, date, body, stored>>

(* The client of ZITADEL writes the request.                               *)
AddPersonalAccessToken ==
  /\ stage = "checked"
  /\ stage' = "sent"
  /\ body' = MarshalJSON(date)
  /\ UNCHANGED <<clock, asked, form, date, stored, answer>>

(* ZITADEL stores what it can read, if it likes; the answer repeats the    *)
(* date that was sent, not one from ZITADEL.                               *)
Added ==
  /\ stage = "sent"
  /\ Readable(body)
  /\ Cardinality(stored) < MaxStored
  /\ stored' = stored \cup {Token(<<asked>>, body)}
  /\ stage' = "idle"
  /\ answer' = Told("created", {<<Token(<<asked>>, body), ToUnix(date)>>})
  /\ UNCHANGED <<clock, asked, form, date, body>>

NotAdded ==
  /\ stage = "sent"
  /\ stage' = "idle"
  /\ answer' = Told("internal", {})
  /\ UNCHANGED <<clock, asked, form, date, body, stored>>

(* ListPATs reports a date for each PAT, and has one for those without.    *)
ListPersonalAccessTokens ==
  /\ stage = "idle"
  /\ answer' =
       Told("list", {<<p, ToUnix(UnmarshalJSON(p.expires))>> : p \in stored})
  /\ UNCHANGED <<clock, stage, asked, form, date, body, stored>>

Tick ==
  /\ clock < Horizon
  /\ clock' = clock + 1
  /\ UNCHANGED <<stage, asked, form, date, body, stored, answer>>

Next ==
  \/ \E f \in Forms, seconds \in Int64 : Receive(f, seconds)
  \/ Handle
  \/ CheckAgain
  \/ AddPersonalAccessToken
  \/ Added
  \/ NotAdded
  \/ ListPersonalAccessTokens
  \/ Tick

Spec == Init /\ [][Next]_vars

-----------------------------------------------------------------------------
(* Properties.                                                             *)

(* ZITADEL is sent the very second that was asked for, as a text: never a  *)
(* date that wrapped around, and never null, which is no date (pat.go      *)
(* 53-56, service_impl.go 31, types.go 21-26: what wraps falls before the  *)
(* clock, because times are compared and not seconds).                     *)
SentAsAsked == stage = "sent" => asked \in Nat /\ body = Text(asked + Era)

(* What is told of a PAT is right: of one made here, the second that was   *)
(* asked for; of one without a date, a year before 1970.                   *)
AsStored(told) ==
  LET pat == told[1]
      reported == told[2]
  IN  CASE pat.origin # Elsewhere -> <<reported>> = pat.origin
        [] pat.origin = Elsewhere /\ pat.expires \in {Null, Blank} ->
             reported < 0
        [] OTHER -> Text(reported + Era) = pat.expires

(* The date reported for a PAT made here is the one asked for, in the      *)
(* answer to its creation and in every later list; one made elsewhere is   *)
(* reported with the date ZITADEL has; and one without a date with a year  *)
(* before 1970, which no PAT made here can have (types.go 28-43, client.go *)
(* 470-480 and 535-558, pat.go 79 and 118).                                *)
DatesAsStored == \A told \in answer.dates : AsStored(told)
=============================================================================

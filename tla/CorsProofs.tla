----------------------------- MODULE CorsProofs -----------------------------
(***************************************************************************)
(* Theorems about Cors, for every set of origins and every set of lists    *)
(* that the service may be configured with.                                *)
(***************************************************************************)
EXTENDS Cors, TLAPS

-----------------------------------------------------------------------------
(* The inductive invariant.                                                *)

LetIn == \E list \in past : LetsIn(list)

(* The answer under way was made with a list the service has had.          *)
Made ==
  \/ response = NoAnswer
  \/ \E list \in past :
       response = corsMiddleware(list, page.origin, page.path)

(* The call itself is on its way, or may be, only for a page let in.       *)
CorsInv ==
  /\ allowed \in past /\ past \subseteq SUBSET Origins
  /\ page \in Pages
  /\ request \in {None, "OPTIONS", page.method}
  /\ Made
  /\ permitted \/ request = page.method => LetIn
  /\ OnlyPagesLetIn /\ PagesLetInServed

-----------------------------------------------------------------------------
(* The middleware and the browser.                                         *)

(* What a page of another origin can read at the PAT service was let in by *)
(* the list the answer was made with.                                      *)
LEMMA ReadableIsLetIn ==
  ASSUME page \in Pages, NEW list \in SUBSET Origins, HasPATPrefix(page.path),
         Readable(corsMiddleware(list, page.origin, page.path))
  PROVE  LetsIn(list)
<1>1. CASE ~ Cross
  BY <1>1 DEF LetsIn
<1>2. CASE Cross
  <2>1. page.origin \in Origins /\ page.credentials \in BOOLEAN
    BY <1>2 DEF Pages, Cross
  <2>2. CASE page.origin \in list
    BY <2>2 DEF LetsIn
  <2>3. CASE page.origin \notin list /\ list = {}
    BY <1>2, <2>1, <2>3
       DEF Readable, corsMiddleware, corsOrigin, LetsIn
  <2>4. CASE page.origin \notin list /\ list # {}
    <3>1. corsMiddleware(list, page.origin, page.path).origin = None
      BY <2>4 DEF corsMiddleware, corsOrigin
    <3> QED
      BY <1>2, <2>1, <3>1, OriginsAssumption DEF Readable, None
  <2> QED
    BY <2>2, <2>3, <2>4
<1> QED
  BY <1>1, <1>2

(* A page that is let in can read what the PAT service answers.            *)
LEMMA LetInIsReadable ==
  ASSUME page \in Pages, NEW list, HasPATPrefix(page.path), LetsIn(list)
  PROVE  Readable(corsMiddleware(list, page.origin, page.path))
<1>1. CASE ~ Cross
  BY <1>1 DEF Readable
<1>2. CASE page.origin \in list
  BY <1>2 DEF Readable, corsMiddleware, corsOrigin
<1>3. CASE list = {} /\ ~ page.credentials
  BY <1>3 DEF Readable, corsMiddleware, corsOrigin
<1> QED
  BY <1>1, <1>2, <1>3 DEF LetsIn

(* Moreover it may make its calls, if they are those of Connect.           *)
LEMMA LetInIsPermitted ==
  ASSUME page \in Pages, NEW list, HasPATPrefix(page.path), LetsIn(list),
         page.headers = ConnectHeaders, page.method # "PUT"
  PROVE  Permits(corsMiddleware(list, page.origin, page.path))
<1> DEFINE h == corsMiddleware(list, page.origin, page.path)
<1>1. page.method \in h.methods \cup {"GET", "POST"}
  BY DEF Pages, corsMiddleware
<1>2. page.headers \subseteq h.headers
  BY DEF corsMiddleware, AllowHeaders, ConnectHeaders
<1> QED
  BY <1>1, <1>2, LetInIsReadable DEF Permits

(* To be let in once is to be let in for good: past only grows.            *)
LEMMA LetInStays ==
  ASSUME past \subseteq past', UNCHANGED page
  PROVE  /\ LetIn => LetIn'
         /\ PagesLetInServed /\ (blocked' => blocked) => PagesLetInServed'
BY DEF LetIn, LetsIn, Cross, PagesLetInServed

-----------------------------------------------------------------------------
(* The steps.                                                              *)

LEMMA InitCors == Init => CorsInv
BY OriginsAssumption
   DEF Init, CorsInv, Made, LetIn, OnlyPagesLetIn, PagesLetInServed, Pages,
       None

LEMMA NextCors == CorsInv /\ [Next]_vars => CorsInv'
<1> SUFFICES ASSUME CorsInv, [Next]_vars PROVE CorsInv'
  OBVIOUS
<1>1. page \in Pages /\ page.method \in {"POST", "GET", "PUT"}
  BY DEF CorsInv, Pages
<1>2. ~ Cross => LetIn
  BY DEF CorsInv, LetIn, LetsIn
<1>3. CASE Call
  BY <1>1, <1>2, <1>3
     DEF Call, CorsInv, Made, LetIn, LetsIn, Cross, OnlyPagesLetIn,
         PagesLetInServed, None
<1>4. CASE Serve
  <2>1. Made'
    BY <1>4 DEF Serve, CorsInv, Made
  <2>2. ran' => ran \/ request = page.method
    BY <1>1, <1>4 DEF Serve, RunsOperation, CorsInv, None
  <2> QED
    BY <1>4, <2>1, <2>2
       DEF Serve, CorsInv, LetIn, LetsIn, Cross, OnlyPagesLetIn,
           PagesLetInServed
<1>5. CASE Preflighted
  <2>1. PICK list \in past :
          response = corsMiddleware(list, page.origin, page.path)
    BY <1>5 DEF Preflighted, CorsInv, Made
  <2>2. list \in SUBSET Origins
    BY DEF CorsInv
  <2>3. permitted' \/ request' = page.method => LetIn
    BY <1>1, <1>5, <2>1, <2>2, ReadableIsLetIn
       DEF Preflighted, Permits, PreflightSucceeds, CorsInv, LetIn, None
  <2>4. PagesLetInServed'
    BY <1>1, <1>5, <2>1, LetInIsPermitted
       DEF Preflighted, PreflightSucceeds, CorsInv, PagesLetInServed,
           LetsIn, Cross
  <2> QED
    BY <1>5, <2>3, <2>4
       DEF Preflighted, CorsInv, Made, LetIn, LetsIn, Cross, OnlyPagesLetIn
<1>6. CASE Answered
  <2>1. PICK list \in past :
          response = corsMiddleware(list, page.origin, page.path)
    BY <1>6 DEF Answered, CorsInv, Made
  <2>2. request = page.method
    BY <1>6 DEF Answered, CorsInv
  <2>3. PagesLetInServed'
    BY <1>1, <1>6, <2>1, LetInIsReadable
       DEF Answered, CorsInv, PagesLetInServed, LetsIn, Cross
  <2> QED
    BY <1>1, <1>6, <2>2, <2>3
       DEF Answered, CorsInv, Made, LetIn, LetsIn, Cross, OnlyPagesLetIn,
           None
<1>7. CASE Forget
  BY <1>7
     DEF Forget, CorsInv, Made, LetIn, LetsIn, Cross, OnlyPagesLetIn,
         PagesLetInServed
<1>8. CASE Restart
  <2>1. allowed' \in past' /\ past \subseteq past'
    BY <1>8 DEF Restart
  <2>2. past' \subseteq SUBSET Origins
    BY <1>8, OriginsAssumption DEF Restart, CorsInv
  <2>3. (LetIn => LetIn') /\ PagesLetInServed'
    BY <1>8, <2>1, LetInStays DEF Restart, CorsInv
  <2> QED
    BY <1>8, <2>1, <2>2, <2>3
       DEF Restart, CorsInv, Made, LetIn, OnlyPagesLetIn
<1>9. CASE UNCHANGED vars
  BY <1>9
     DEF vars, CorsInv, Made, LetIn, LetsIn, Cross, OnlyPagesLetIn,
         PagesLetInServed
<1> QED
  BY <1>3, <1>4, <1>5, <1>6, <1>7, <1>8, <1>9 DEF Next

-----------------------------------------------------------------------------
(* The theorems.                                                           *)

LEMMA CorsSafe == Spec => []CorsInv
BY InitCors, NextCors, PTL DEF Spec

(* An operation runs for a page of another origin, or shows it an answer,  *)
(* only if that origin was let in: the browser asks first, and what the    *)
(* middleware answers was made with a list the service has had.            *)
THEOREM OnlyThoseLetIn == Spec => []OnlyPagesLetIn
<1>1. CorsInv => OnlyPagesLetIn
  BY DEF CorsInv
<1> QED
  BY <1>1, CorsSafe, PTL

(* A page that was let in all the time meets no network error at the PAT   *)
(* service, whatever restarts come in between.                             *)
THEOREM ThoseLetInAreServed == Spec => []PagesLetInServed
<1>1. CorsInv => PagesLetInServed
  BY DEF CorsInv
<1> QED
  BY <1>1, CorsSafe, PTL
=============================================================================

----------------------------- MODULE PatProofs -----------------------------
(***************************************************************************)
(* What PatService promises for any number of calls, humans and PATs, and  *)
(* for any number of retries.                                              *)
(***************************************************************************)
EXTENDS PatRegistry, FiniteSetTheorems, TLAPS

USE HumansAssumption, PatsAssumption, NumbersAssumption

(* The result of a call that met a machine user it cannot find, and where  *)
(* calls end.                                                              *)
Conflict == "user already exists but could not be retrieved"
Over == {"done", "dead"}

(* What holds of a call, wherever it is.  A call that creates moves from   *)
(* search over createUser and, after a conflict, research to addToken and  *)
(* never back; what it minted, it minted in its last phase or after.       *)
CallInv(c) ==
  LET r == rpc[c] IN
    /\ Active(c) => r.user \in Humans /\ r.result = "none"
    /\ r.pc = "new" => r.result = "none"
    /\ r.pc \in {"createUser", "research", "addToken"} => r.op = "create"
    /\ r.pc = "list" => r.op = "list"
    /\ r.pc = "removeToken" => r.op = "delete"
    /\ r.pc \in {"list", "addToken", "removeToken"} => r.machine = r.user
    /\ r.pc = "addToken" => r.user \in machines
    /\ r.pc = "research" => r.user \in machines \cup Taken
    /\ r.result = Conflict => r.user \in Taken \/ r.misled
    /\ r.pc # "done" => r.answer = {} /\ r.misled = FALSE

(* What holds of the PATs a call minted, answered and deleted.             *)
PatInv(c) ==
  LET r == rpc[c] IN
    /\ minted[c] # {} => r.pc \in {"addToken"} \cup Over /\ r.user \in Humans
    /\ \A p \in minted[c] : owner[p] = r.user
    /\ Succeeded(c, "create") =>
         \E p \in minted[c] : r.answer = IF r.misled THEN {} ELSE {p}
    /\ Succeeded(c, "delete") => r.pat \in Pats \ live /\ owner[r.pat] # NoHuman

(* What holds of a call as long as a message of it may be executed.        *)
MsgInv(m) ==
  LET r == rpc[m.call] IN
    /\ r.user \in Humans
    /\ r.result \notin Refusals \cup {"machine user not found"}
    /\ m.pc = "createUser" =>
         r.pc \in {"createUser", "research", "addToken"} \cup Over
    /\ m.pc = "addToken" =>
         /\ r.pc \in {"addToken"} \cup Over
         /\ r.op = "create"
         /\ r.machine = r.user
         /\ r.user \in machines
    /\ m.pc = "removeToken" =>
         /\ r.pc \in {"removeToken"} \cup Over
         /\ r.machine = r.user
         /\ r.op = "delete"

(* Nothing lives that was never minted, nor without its machine user.      *)
OwnedInv ==
  /\ \A p \in live : owner[p] # NoHuman
  /\ \A p \in Pats : owner[p] # NoHuman => owner[p] \in machines

(* The inductive invariant.                                                *)
IInv ==
  /\ TypeOK
  /\ \A c \in Calls : CallInv(c) /\ PatInv(c)
  /\ \A m \in flight : MsgInv(m)
  /\ OwnedInv

-----------------------------------------------------------------------------
(* The records of calls.                                                   *)

(* The fields a record of a call keeps from the call it is made of.        *)
Keeps(r, c) ==
  /\ r.op = rpc[c].op /\ r.user = rpc[c].user /\ r.pat = rpc[c].pat
  /\ r.gone = rpc[c].gone /\ r.known = rpc[c].known

(* A call that ends keeps what it was called with.                         *)
LEMMA ReturnedIs ==
  ASSUME TypeOK, NEW c \in Calls, NEW result \in Results,
         NEW answer \in SUBSET Pats, NEW r, r = Returned(c, result, answer)
  PROVE  /\ r \in Rpc /\ Keeps(r, c)
         /\ r.pc = "done" /\ r.result = result /\ r.answer = answer
         /\ r.machine = rpc[c].machine /\ r.misled = rpc[c].misled
<1>1. ASSUME NEW o \in Rpc,
             r = [o EXCEPT !.pc = "done", !.try = 0, !.result = result,
                           !.answer = answer]
      PROVE  /\ r \in Rpc
             /\ r.pc = "done" /\ r.result = result /\ r.answer = answer
             /\ r.machine = o.machine /\ r.op = o.op /\ r.user = o.user
             /\ r.pat = o.pat /\ r.gone = o.gone /\ r.known = o.known
             /\ r.misled = o.misled
  <2>1. 0 \in Tries
    BY DEF Tries
  <2> QED
    BY <1>1, <2>1 DEF Rpc
<1>2. rpc[c] \in Rpc
  BY DEF TypeOK
<1>3. r = [rpc[c] EXCEPT !.pc = "done", !.try = 0, !.result = result,
                         !.answer = answer]
  BY DEF Returned
<1> QED
  BY <1>1, <1>2, <1>3 DEF Keeps

(* So does one that ends on an answer that holds nothing.                  *)
LEMMA NothingIs ==
  ASSUME TypeOK, NEW c \in Calls, NEW result \in Results,
         NEW misled \in BOOLEAN, NEW r, r = Nothing(c, result, misled)
  PROVE  /\ r \in Rpc /\ Keeps(r, c)
         /\ r.pc = "done" /\ r.result = result /\ r.answer = {}
         /\ r.machine = rpc[c].machine /\ r.misled = misled
<1>1. ASSUME NEW o \in Rpc,
             r = [o EXCEPT !.pc = "done", !.try = 0, !.result = result,
                           !.answer = {}, !.misled = misled]
      PROVE  /\ r \in Rpc
             /\ r.pc = "done" /\ r.result = result /\ r.answer = {}
             /\ r.machine = o.machine /\ r.op = o.op /\ r.user = o.user
             /\ r.pat = o.pat /\ r.gone = o.gone /\ r.known = o.known
             /\ r.misled = misled
  <2>1. 0 \in Tries /\ {} \in SUBSET Pats
    BY DEF Tries
  <2> QED
    BY <1>1, <2>1 DEF Rpc
<1>2. rpc[c] \in Rpc
  BY DEF TypeOK
<1>3. r = [rpc[c] EXCEPT !.pc = "done", !.try = 0, !.result = result,
                         !.answer = {}, !.misled = misled]
  BY DEF Nothing
<1> QED
  BY <1>1, <1>2, <1>3 DEF Keeps

(* So does one that succeeds without the PAT it minted.                    *)
LEMMA MisledByNothing ==
  ASSUME TypeOK, NEW c \in Calls, NEW r, r = Nothing(c, "ok", TRUE)
  PROVE  /\ r \in Rpc /\ Keeps(r, c)
         /\ r.pc = "done" /\ r.result = "ok" /\ r.answer = {}
         /\ r.machine = rpc[c].machine /\ r.misled = TRUE
<1>1. ASSUME NEW o \in Rpc,
             r = [o EXCEPT !.pc = "done", !.try = 0, !.result = "ok",
                           !.answer = {}, !.misled = TRUE]
      PROVE  /\ r \in Rpc
             /\ r.pc = "done" /\ r.result = "ok" /\ r.answer = {}
             /\ r.machine = o.machine /\ r.op = o.op /\ r.user = o.user
             /\ r.pat = o.pat /\ r.gone = o.gone /\ r.known = o.known
             /\ r.misled = TRUE
  <2>1. 0 \in Tries /\ {} \in SUBSET Pats /\ "ok" \in Results
    BY DEF Tries, Results
  <2> QED
    BY <1>1, <2>1 DEF Rpc
<1>2. rpc[c] \in Rpc
  BY DEF TypeOK
<1>3. r = [rpc[c] EXCEPT !.pc = "done", !.try = 0, !.result = "ok",
                         !.answer = {}, !.misled = TRUE]
  BY DEF Nothing
<1> QED
  BY <1>1, <1>2, <1>3 DEF Keeps

(* A call that fails has nothing to answer with.                            *)
LEMMA FailedIs ==
  ASSUME TypeOK, NEW c \in Calls, NEW r, r = Failed(c)
  PROVE  /\ r \in Rpc /\ Keeps(r, c)
         /\ r.pc = "done" /\ r.result = "failed" /\ r.answer = {}
         /\ r.machine = rpc[c].machine /\ r.misled = rpc[c].misled
<1>1. "failed" \in Results /\ {} \in SUBSET Pats
  BY DEF Results
<1>2. r = Returned(c, "failed", {})
  BY DEF Failed
<1> QED
  BY <1>1, <1>2, ReturnedIs

(* The record of a call that goes on.                                      *)
Moved(c, pc, t, u) ==
  [rpc[c] EXCEPT !.pc = pc, !.try = t, !.machine = u]

(* A call that goes on has a machine user, or none yet.                    *)
LEMMA GoesOn ==
  ASSUME TypeOK, NEW c \in Calls, NEW pc \in Reading \cup Writing,
         NEW t \in Tries, NEW u \in Humans \cup {NoHuman}, NEW r,
         r = Moved(c, pc, t, u)
  PROVE  /\ r \in Rpc /\ Keeps(r, c)
         /\ r.pc = pc /\ r.try = t /\ r.machine = u
         /\ r.result = rpc[c].result /\ r.answer = rpc[c].answer
         /\ r.misled = rpc[c].misled
<1>1. ASSUME NEW o \in Rpc,
             r = [o EXCEPT !.pc = pc, !.try = t, !.machine = u]
      PROVE  /\ r \in Rpc
             /\ r.pc = pc /\ r.try = t /\ r.machine = u
             /\ r.result = o.result /\ r.answer = o.answer
             /\ r.misled = o.misled
             /\ r.op = o.op /\ r.user = o.user
             /\ r.pat = o.pat /\ r.gone = o.gone /\ r.known = o.known
  BY <1>1 DEF Rpc
<1>2. rpc[c] \in Rpc
  BY DEF TypeOK
<1> QED
  BY <1>1, <1>2 DEF Keeps, Moved

(* A call that goes on to read keeps what it was called with.               *)
LEMMA ReadsIs ==
  ASSUME TypeOK, NEW c \in Calls, NEW pc \in Reading,
         NEW u \in Humans \cup {NoHuman}, NEW r, r = Reads(c, pc, u)
  PROVE  /\ r \in Rpc /\ Keeps(r, c)
         /\ r.pc = pc /\ r.machine = u
         /\ r.result = rpc[c].result /\ r.answer = rpc[c].answer
         /\ r.misled = rpc[c].misled
<1>1. 0 \in Tries /\ pc \in Reading \cup Writing
  BY DEF Tries
<1>2. r = Moved(c, pc, 0, u)
  BY DEF Reads, Moved
<1> QED
  BY <1>1, <1>2, GoesOn

(* A call that goes on to write starts with its first attempt.              *)
LEMMA WritesIs ==
  ASSUME TypeOK, NEW c \in Calls, NEW pc \in Writing,
         NEW u \in Humans \cup {NoHuman}, NEW r, r = Writes(c, pc, u)
  PROVE  /\ r \in Rpc /\ Keeps(r, c)
         /\ r.pc = pc /\ r.machine = u /\ r.try = 1
         /\ r.result = rpc[c].result /\ r.answer = rpc[c].answer
         /\ r.misled = rpc[c].misled
<1>1. 1 \in Tries /\ pc \in Reading \cup Writing
  BY DEF Tries
<1>2. r = Moved(c, pc, 1, u)
  BY DEF Writes, Moved
<1> QED
  BY <1>1, <1>2, GoesOn

(* The next attempt differs from the last in its number.                   *)
LEMMA AgainIs ==
  ASSUME TypeOK, NEW c \in Calls, rpc[c].try <= Retry,
         NEW r, r = [rpc[c] EXCEPT !.try = @ + 1]
  PROVE  /\ r \in Rpc /\ Keeps(r, c)
         /\ r.pc = rpc[c].pc /\ r.machine = rpc[c].machine
         /\ r.result = rpc[c].result /\ r.answer = rpc[c].answer
         /\ r.misled = rpc[c].misled
         /\ r.try = rpc[c].try + 1
<1>1. ASSUME NEW o \in Rpc, NEW t \in Tries, r = [o EXCEPT !.try = t]
      PROVE  /\ r \in Rpc
             /\ r.pc = o.pc /\ r.try = t /\ r.machine = o.machine
             /\ r.result = o.result /\ r.answer = o.answer
             /\ r.misled = o.misled
             /\ r.op = o.op /\ r.user = o.user
             /\ r.pat = o.pat /\ r.gone = o.gone /\ r.known = o.known
  BY <1>1 DEF Rpc
<1>2. rpc[c] \in Rpc
  BY DEF TypeOK
<1>3. rpc[c].try + 1 \in Tries
  BY <1>2 DEF Rpc, Tries
<1>4. r = [rpc[c] EXCEPT !.try = rpc[c].try + 1]
  OBVIOUS
<1> QED
  BY <1>1, <1>2, <1>3, <1>4 DEF Keeps

(* The message a record sends is its own.                                  *)
LEMMA SentIs ==
  ASSUME NEW c \in Calls, NEW r \in Rpc
  PROVE  /\ Sent(c, r) \subseteq Message
         /\ \A m \in Sent(c, r) : m.call = c /\ m.pc = r.pc /\ m.try = r.try
BY DEF Sent, Message, Rpc

-----------------------------------------------------------------------------
(* How a call moves on, and what that leaves of the invariant.             *)

(* No step takes a machine user away, gives a PAT another owner or lets a  *)
(* PAT live again.                                                         *)
WorldMoves ==
  /\ machines \subseteq machines'
  /\ \A p \in Pats : owner[p] # NoHuman => /\ owner'[p] = owner[p]
                                           /\ p \in live' => p \in live

(* The calls that do not move.                                             *)
Rests(d) == rpc'[d] = rpc[d] /\ minted'[d] = minted[d]

(* What holds of a call goes on to hold while others move.                  *)
LEMMA RestingSafe ==
  ASSUME IInv, WorldMoves, NEW d \in Calls, Rests(d)
  PROVE  CallInv(d)' /\ PatInv(d)'
<1>1. CallInv(d)'
  BY DEF IInv, CallInv, WorldMoves, Rests, Active
<1>2. minted[d] \subseteq Pats /\ PatInv(d)
  BY DEF IInv, TypeOK
<1>3. PatInv(d)'
  BY <1>2 DEF PatInv, WorldMoves, Rests, Succeeded
<1> QED
  BY <1>1, <1>3

(* The order of the phases of a call.                                      *)
Leads(from, to, op) ==
  \/ from = "search" /\ to = "list" /\ op = "list"
  \/ from = "search" /\ to \in {"createUser", "addToken"} /\ op = "create"
  \/ from = "search" /\ to = "removeToken" /\ op = "delete"
  \/ from = "createUser" /\ to \in {"createUser", "research", "addToken"}
  \/ from = "research" /\ to = "addToken"
  \/ from \in {"addToken", "removeToken"} /\ to = from

(* A call that goes on to its next phase or attempt.                       *)
Proceeds(c, r) ==
  /\ r \in Rpc /\ Keeps(r, c) /\ Active(c)
  /\ Leads(rpc[c].pc, r.pc, r.op)
  /\ r.result = rpc[c].result /\ r.answer = rpc[c].answer
  /\ r.misled = rpc[c].misled
  /\ r.pc \in {"list", "addToken", "removeToken"} => r.machine = r.user
  /\ r.pc = "research" => r.user \in machines \cup Taken
  /\ r.pc = "addToken" => r.user \in machines'
  /\ r.pc = "addToken" =>
       r.try = IF rpc[c].pc = "addToken" THEN rpc[c].try + 1 ELSE 1
  /\ minted'[c] = minted[c]

(* A page of PATs of the caller: all of them, or as many as a page holds.  *)
Lists(c, page) ==
  LET mine == PatsOf(rpc[c].user) IN
    /\ page \subseteq mine /\ Cardinality(page) <= Limit
    /\ mine \subseteq page \/ Cardinality(page) = Limit

(* A call that ends, and with what result.                                 *)
Ends(c, r) ==
  /\ r \in Rpc /\ Keeps(r, c) /\ Active(c)
  /\ r.pc = "done" /\ r.machine = rpc[c].machine
  /\ r.result = Conflict => r.user \in Taken \/ r.misled
  /\ r.result \notin Refusals
  /\ r.result = "machine user not found" =>
       /\ rpc[c].pc = "search" /\ r.op = "delete"
       /\ r.misled \/ \A p \in Pats : owner[p] # r.user
  /\ r.result # "ok" \/ r.misled => r.answer = {}
  /\ \A p \in minted'[c] : owner'[p] = r.user
  /\ r.result = "ok" /\ r.op = "create" =>
       \E p \in minted'[c] : r.answer = IF r.misled THEN {} ELSE {p}
  /\ r.result = "ok" /\ r.op = "list" =>
       IF r.misled THEN PatsOf(rpc[c].user) # {} ELSE Lists(c, r.answer)
  /\ r.result = "ok" /\ r.op = "delete" =>
       r.pat \in Pats \ live' /\ owner'[r.pat] # NoHuman

(* A call that proceeds keeps its invariant and that of its messages, the   *)
(* ones under way and the one it sends.                                     *)
LEMMA ProceedingSafe ==
  ASSUME IInv, WorldMoves, NEW c \in Calls, NEW r, Proceeds(c, r), rpc'[c] = r
  PROVE  /\ CallInv(c)' /\ PatInv(c)'
         /\ \A m \in flight : m.call = c => MsgInv(m)'
         /\ \A m \in Sent(c, r) : MsgInv(m)'
<1>1. CallInv(c) /\ PatInv(c) /\ minted[c] \subseteq Pats
  BY DEF IInv, TypeOK
<1>2. r.user \in Humans /\ r.result = "none"
  BY <1>1 DEF CallInv, Proceeds, Keeps
<1>3. CallInv(c)'
  BY <1>1, <1>2 DEF CallInv, Proceeds, Keeps, Leads, WorldMoves, Active,
                    Conflict
<1>4. PatInv(c)'
  BY <1>1, <1>2 DEF PatInv, Proceeds, Keeps, Leads, WorldMoves, Succeeded,
                    Active, Over
<1>5. \A m \in flight : m.call = c => MsgInv(m)'
  BY <1>1, <1>2 DEF IInv, MsgInv, Proceeds, Keeps, Leads, Over, WorldMoves
<1>6. \A m \in Sent(c, r) : MsgInv(m)'
  <2> SUFFICES ASSUME NEW m \in Sent(c, r)
               PROVE  MsgInv(m)'
    OBVIOUS
  <2>1. m.call = c /\ m.pc = r.pc /\ r.pc \in Writing
    BY DEF Sent
  <2>2. /\ rpc'[m.call] = r
        /\ r.result \notin Refusals \cup {"machine user not found"}
    BY <1>2, <2>1 DEF Refusals
  <2>3. /\ r.pc \in {"addToken", "removeToken"} => r.machine = r.user
        /\ r.pc = "addToken" => r.user \in machines'
        /\ r.pc = "addToken" => r.op = "create"
        /\ r.pc = "removeToken" => r.op = "delete"
    BY <1>1 DEF CallInv, Proceeds, Keeps, Leads
  <2> QED
    BY <1>2, <2>1, <2>2, <2>3 DEF MsgInv, Over
<1> QED
  BY <1>3, <1>4, <1>5, <1>6

(* A call that ends keeps its invariant and that of the messages it leaves  *)
(* under way.                                                               *)
LEMMA EndingSafe ==
  ASSUME IInv, WorldMoves, NEW c \in Calls, NEW r, Ends(c, r), rpc'[c] = r
  PROVE  /\ CallInv(c)' /\ PatInv(c)'
         /\ \A m \in flight : m.call = c => MsgInv(m)'
<1>1. CallInv(c) /\ PatInv(c)
  BY DEF IInv
<1>2. r.user \in Humans
  BY <1>1 DEF CallInv, Ends, Keeps
<1>3. CallInv(c)'
  BY <1>1, <1>2 DEF CallInv, Ends, Active, Reading, Writing
<1>4. PatInv(c)'
  BY <1>1, <1>2 DEF PatInv, Ends, Succeeded, Over
<1>5. \A m \in flight : m.call = c => MsgInv(m)'
  <2> SUFFICES ASSUME NEW m \in flight, m.call = c
               PROVE  MsgInv(m)'
    OBVIOUS
  <2>1. MsgInv(m) /\ m.pc \in Writing
    BY DEF IInv, TypeOK, Message
  <2>2. rpc[c].pc # "search"
    BY <2>1 DEF MsgInv, Writing, Over
  <2> QED
    BY <1>2, <2>1, <2>2 DEF MsgInv, Ends, Keeps, Over, WorldMoves
<1> QED
  BY <1>3, <1>4, <1>5

(* A step of call c is safe if it is for c, for the messages it leaves and *)
(* for the world.                                                          *)
LEMMA Assembled ==
  ASSUME IInv, TypeOK', WorldMoves, OwnedInv', NEW c \in Calls,
         CallInv(c)' /\ PatInv(c)',
         \A d \in Calls \ {c} : Rests(d),
         NEW Fresher, flight' \subseteq flight \cup Fresher,
         \A m \in flight : m.call = c => MsgInv(m)',
         \A m \in Fresher : MsgInv(m)'
  PROVE  IInv'
<1>1. \A d \in Calls : CallInv(d)' /\ PatInv(d)'
  BY RestingSafe
<1>2. \A m \in flight : MsgInv(m)'
  <2> SUFFICES ASSUME NEW m \in flight, m.call # c
               PROVE  MsgInv(m)'
    OBVIOUS
  <2>1. m.call \in Calls /\ MsgInv(m)
    BY DEF IInv, TypeOK, Message
  <2> QED
    BY <2>1 DEF MsgInv, Rests, WorldMoves
<1> QED
  BY <1>1, <1>2 DEF IInv

-----------------------------------------------------------------------------
(* The steps of a call.                                                    *)

(* Call c goes on or ends, and nothing else happens.                       *)
CallMoves(c) ==
  /\ \E r : /\ Becomes(c, r)
            /\ \/ Proceeds(c, r)
               \/ Ends(c, r) /\ (r.result = "ok" => r.op = "list")
  /\ UNCHANGED <<machines, owner, live, minted>>

(* A call that moves by itself keeps the invariant of all.                  *)
LEMMA MovingSafe ==
  ASSUME IInv, NEW c \in Calls, CallMoves(c)
  PROVE  IInv'
<1> PICK r : Becomes(c, r) /\ (Proceeds(c, r) \/ Ends(c, r))
  BY DEF CallMoves
<1> UNCHANGED <<machines, owner, live, minted>>
  BY DEF CallMoves
<1>1. r \in Rpc
  BY DEF Proceeds, Ends
<1>2. rpc' = [rpc EXCEPT ![c] = r] /\ flight' = flight \cup Sent(c, r)
  BY DEF Becomes
<1>3. rpc'[c] = r /\ \A d \in Calls \ {c} : Rests(d)
  BY <1>2 DEF IInv, TypeOK, Rests
<1>4. TypeOK'
  BY <1>1, <1>2, SentIs DEF IInv, TypeOK
<1>5. WorldMoves /\ OwnedInv'
  BY DEF IInv, WorldMoves, OwnedInv
<1>6. /\ CallInv(c)' /\ PatInv(c)'
      /\ \A m \in flight : m.call = c => MsgInv(m)'
      /\ \A m \in Sent(c, r) : MsgInv(m)'
  <2>1. CASE Proceeds(c, r)
    BY <1>3, <1>5, <2>1, ProceedingSafe
  <2>2. CASE Ends(c, r)
    <3>1. Sent(c, r) = {}
      BY <2>2 DEF Ends, Sent, Writing
    <3> QED
      BY <1>3, <1>5, <2>2, <3>1, EndingSafe
  <2> QED
    BY <2>1, <2>2
<1> QED
  BY <1>2, <1>3, <1>4, <1>5, <1>6, Assembled

(* An error ends a call, whatever it is at.                                *)
LEMMA FailingEnds ==
  ASSUME IInv, NEW c \in Calls, Active(c),
         \A p \in minted'[c] : owner'[p] = rpc[c].user
  PROVE  /\ Ends(c, Failed(c))
         /\ Failed(c).result = "failed" /\ Failed(c).misled = FALSE
<1>1. TypeOK /\ rpc[c].misled = FALSE
  BY DEF IInv, CallInv, Active, Reading, Writing
<1> QED
  BY <1>1, FailedIs DEF Ends, Keeps, Conflict, Refusals

(* A call that begins is refused or goes on to its first search.           *)
LEMMA BeginIs ==
  ASSUME TypeOK, NEW c \in Calls, NEW op \in Ops,
         NEW u \in Humans \cup {NoHuman}, NEW p \in Pats \cup {NoPat},
         Begin(c, op, u, p)
  PROVE  \E r \in Rpc :
           /\ rpc' = [rpc EXCEPT ![c] = r]
           /\ r.op = op /\ r.user = u /\ r.pat = p
           /\ r.answer = rpc[c].answer /\ r.misled = rpc[c].misled
           /\ \/ r.pc = "done" /\ r.result \in Refusals
              \/ r.pc = "search" /\ r.result = rpc[c].result /\ u # NoHuman
<1> DEFINE called(o) == [o EXCEPT !.op = op, !.user = u, !.pat = p]
           refused(o, result) ==
             [called(o) EXCEPT !.pc = "done", !.result = result]
           searching(o, known) ==
             [called(o) EXCEPT !.pc = "search", !.known = known]
<1>1. PICK o \in Rpc : o = rpc[c]
  BY DEF TypeOK
<1> DEFINE mine == {q \in PatsOf(u) : op = "list"}
<1>2. mine \in SUBSET Pats /\ Refusals \subseteq Results
  BY DEF TypeOK, PatsOf, Refusals, Results
<1>3. ASSUME NEW result \in Results, NEW r, r = refused(o, result)
      PROVE  /\ r \in Rpc /\ r.op = op /\ r.user = u /\ r.pat = p
             /\ r.answer = o.answer /\ r.pc = "done" /\ r.result = result
             /\ r.misled = o.misled
  BY <1>3 DEF Rpc
<1>4. ASSUME NEW known \in SUBSET Pats, NEW r, r = searching(o, known)
      PROVE  /\ r \in Rpc /\ r.op = op /\ r.user = u /\ r.pat = p
             /\ r.answer = o.answer /\ r.pc = "search"
             /\ r.result = o.result /\ r.misled = o.misled
  BY <1>4 DEF Rpc, Reading
<1>5. \/ \E result \in Refusals :
            rpc' = [rpc EXCEPT ![c] = refused(rpc[c], result)]
      \/ u # NoHuman /\ rpc' = [rpc EXCEPT ![c] = searching(rpc[c], mine)]
  BY DEF Begin, Refusals
<1> HIDE DEF refused, searching, mine
<1> QED
  BY <1>1, <1>2, <1>3, <1>4, <1>5

(* A call begins without messages and without PATs.                         *)
LEMMA BeginSafe ==
  ASSUME IInv, NEW c \in Calls, NEW op \in Ops, NEW u \in Humans \cup {NoHuman},
         NEW p \in Pats \cup {NoPat}, Begin(c, op, u, p)
  PROVE  IInv'
<1>1. PICK r \in Rpc :
        /\ rpc' = [rpc EXCEPT ![c] = r]
        /\ r.user = u /\ r.answer = rpc[c].answer
        /\ r.misled = rpc[c].misled
        /\ \/ r.pc = "done" /\ r.result \in Refusals
           \/ r.pc = "search" /\ r.result = rpc[c].result /\ u # NoHuman
  BY BeginIs DEF IInv
<1>2. rpc[c].pc = "new" /\ UNCHANGED <<flight, machines, owner, live, minted>>
  BY DEF Begin
<1>3. rpc'[c] = r /\ \A d \in Calls \ {c} : Rests(d)
  BY <1>1, <1>2 DEF IInv, TypeOK, Rests
<1>4. TypeOK'
  BY <1>1, <1>2 DEF IInv, TypeOK
<1>5. WorldMoves /\ OwnedInv'
  BY <1>2 DEF IInv, WorldMoves, OwnedInv
<1>6. /\ minted[c] = {} /\ rpc[c].result = "none" /\ rpc[c].answer = {}
      /\ rpc[c].misled = FALSE
  BY <1>2 DEF IInv, CallInv, PatInv, Over
<1>7. CallInv(c)' /\ PatInv(c)'
  BY <1>1, <1>2, <1>3, <1>6
     DEF CallInv, PatInv, Active, Reading, Writing, Succeeded, Conflict,
         Refusals
<1>8. ASSUME NEW m \in flight, m.call = c
      PROVE  FALSE
  <2>1. m.pc \in Writing /\ MsgInv(m)
    BY DEF IInv, TypeOK, Message
  <2> QED
    BY <1>2, <1>8, <2>1 DEF MsgInv, Writing, Over
<1> QED
  <2>1. Sent(c, r) = {} /\ flight' \subseteq flight \cup Sent(c, r)
    BY <1>1, <1>2 DEF Sent, Writing
  <2> QED
    BY <2>1, <1>3, <1>4, <1>5, <1>7, <1>8, Assembled

(* The first search fails, ends the call, or leads it to the step of its    *)
(* operation.                                                               *)
LEMMA SearchMoves ==
  ASSUME IInv, NEW c \in Calls, GetMachineUser(c)
  PROVE  CallMoves(c)
<1>1. /\ rpc[c].pc = "search" /\ Active(c)
      /\ UNCHANGED <<machines, owner, live, minted>>
  BY DEF GetMachineUser, Active, Reading
<1>2. TypeOK /\ CallInv(c) /\ PatInv(c) /\ rpc[c].user \in Humans
  BY <1>1 DEF IInv, CallInv
<1>3. \A p \in minted'[c] : owner'[p] = rpc[c].user
  BY <1>1, <1>2 DEF PatInv
<1>4. CASE Becomes(c, Failed(c))
  BY <1>1, <1>3, <1>4, FailingEnds DEF CallMoves
<1>5. ASSUME NEW r, Becomes(c, r), NEW u \in Matches(rpc[c].user),
             \/ rpc[c].op = "create" /\ r = Writes(c, "addToken", u)
             \/ rpc[c].op = "list" /\ r = Reads(c, "list", u)
             \/ rpc[c].op = "delete" /\ r = Writes(c, "removeToken", u)
      PROVE  CallMoves(c)
  <2>1. u = rpc[c].user /\ rpc[c].user \in machines'
    BY <1>1 DEF Matches
  <2>2. Proceeds(c, r)
    BY <1>1, <1>2, <1>5, <2>1, ReadsIs, WritesIs
       DEF Proceeds, Leads, Keeps, Reading, Writing
  <2> QED
    BY <1>1, <1>5, <2>2 DEF CallMoves
<1>6. ASSUME NEW r, Becomes(c, r),
             rpc[c].op = "create", r = Writes(c, "createUser", NoHuman)
      PROVE  CallMoves(c)
  <2>1. Proceeds(c, r)
    BY <1>1, <1>2, <1>6, WritesIs DEF Proceeds, Leads, Keeps, Writing
  <2> QED
    BY <1>1, <1>6, <2>1 DEF CallMoves
<1> DEFINE some == PatsOf(rpc[c].user) # {}
           there == Matches(rpc[c].user) # {}
<1>7. ASSUME NEW r, Becomes(c, r), rpc[c].op = "list",
             r = Nothing(c, "ok", some)
      PROVE  CallMoves(c)
  <2>1. some \/ Lists(c, {})
    <3>1. Cardinality({}) = 0
      BY FS_EmptySet
    <3> QED
      BY <3>1 DEF Lists
  <2>2. some = (PatsOf(rpc[c].user) # {}) /\ some \in BOOLEAN
    OBVIOUS
  <2> HIDE DEF some
  <2>3. /\ r \in Rpc /\ Keeps(r, c) /\ r.pc = "done" /\ r.result = "ok"
        /\ r.answer = {} /\ r.machine = rpc[c].machine /\ r.misled = some
    <3>1. TypeOK /\ r = Nothing(c, "ok", some)
      BY <1>2, <1>7
    <3>2. "ok" \in Results /\ some \in BOOLEAN
      BY <2>2 DEF Results
    <3> QED
      BY <3>1, <3>2, NothingIs
  <2>4. Ends(c, r)
    BY <1>1, <1>2, <1>3, <1>7, <2>1, <2>2, <2>3
       DEF Ends, Keeps, Conflict, Refusals
  <2> QED
    BY <1>1, <1>7, <2>3, <2>4 DEF CallMoves, Keeps
<1>8. ASSUME NEW r, Becomes(c, r), rpc[c].op = "delete",
             NEW result \in Results, result = "machine user not found",
             r = Nothing(c, result, there)
      PROVE  CallMoves(c)
  <2>1. there \/ \A p \in Pats : owner[p] # rpc[c].user
    BY <1>2 DEF Matches, IInv, OwnedInv
  <2>2. TypeOK /\ r = Nothing(c, result, there) /\ there \in BOOLEAN
    BY <1>2, <1>8
  <2> HIDE DEF there
  <2>3. /\ r \in Rpc /\ Keeps(r, c) /\ r.pc = "done" /\ r.result = result
        /\ r.answer = {} /\ r.machine = rpc[c].machine /\ r.misled = there
    BY <2>2, NothingIs
  <2>4. Ends(c, r)
    BY <1>1, <1>2, <1>3, <1>8, <2>1, <2>3 DEF Ends, Keeps, Conflict, Refusals
  <2> QED
    BY <1>1, <1>8, <2>3, <2>4 DEF CallMoves, Keeps
<1>9. "machine user not found" \in Results
  BY DEF Results
<1> QED
  BY <1>4, <1>5, <1>6, <1>7, <1>8, <1>9 DEF GetMachineUser

(* The search after a conflict finds the machine user, unless the username  *)
(* is one of the foreign ones or the search is answered 404.                *)
LEMMA ResearchMoves ==
  ASSUME IInv, NEW c \in Calls, GetExistingUser(c)
  PROVE  CallMoves(c)
<1>1. /\ rpc[c].pc = "research" /\ Active(c)
      /\ UNCHANGED <<machines, owner, live, minted>>
  BY DEF GetExistingUser, Active, Reading
<1>2. /\ TypeOK /\ CallInv(c) /\ PatInv(c)
      /\ rpc[c].user \in Humans /\ rpc[c].op = "create"
  BY <1>1 DEF IInv, CallInv
<1>3. \A p \in minted'[c] : owner'[p] = rpc[c].user
  BY <1>1, <1>2 DEF PatInv
<1>4. CASE Becomes(c, Failed(c))
  BY <1>1, <1>3, <1>4, FailingEnds DEF CallMoves
<1>5. ASSUME NEW u \in Matches(rpc[c].user), NEW r, Becomes(c, r),
             r = Writes(c, "addToken", u)
      PROVE  CallMoves(c)
  <2>1. u = rpc[c].user /\ rpc[c].user \in machines'
    BY <1>1 DEF Matches
  <2>2. Proceeds(c, r)
    BY <1>1, <1>2, <1>5, <2>1, WritesIs
       DEF Proceeds, Leads, Keeps, Reading, Writing
  <2> QED
    BY <1>1, <1>5, <2>2 DEF CallMoves
<1> DEFINE there == Matches(rpc[c].user) # {}
<1>6. ASSUME NEW r, Becomes(c, r), r = Nothing(c, Conflict, there)
      PROVE  CallMoves(c)
  <2>1. rpc[c].user \in Taken \/ there
    BY <1>1, <1>2 DEF CallInv, Matches
  <2>2. Conflict \in Results /\ Conflict # "ok"
    BY DEF Results, Conflict
  <2>3. /\ r \in Rpc /\ Keeps(r, c) /\ r.pc = "done" /\ r.result = Conflict
        /\ r.answer = {} /\ r.machine = rpc[c].machine /\ r.misled = there
    <3>1. there \in BOOLEAN
      OBVIOUS
    <3> HIDE DEF there
    <3> QED
      BY <1>2, <1>6, <2>2, <3>1, NothingIs
  <2> HIDE DEF there
  <2>4. Ends(c, r)
    BY <1>1, <1>3, <2>1, <2>2, <2>3 DEF Ends, Keeps, Conflict, Refusals
  <2> QED
    BY <1>1, <1>6, <2>2, <2>3, <2>4 DEF CallMoves
<1> QED
  BY <1>4, <1>5, <1>6 DEF GetExistingUser, Conflict

(* The list ends the call, with a page of PATs or an error.                 *)
LEMMA ListMoves ==
  ASSUME IInv, NEW c \in Calls, ListTokens(c)
  PROVE  CallMoves(c)
<1>1. /\ rpc[c].pc = "list" /\ Active(c)
      /\ UNCHANGED <<machines, owner, live, minted>>
  BY DEF ListTokens, Active, Reading
<1>2. TypeOK /\ CallInv(c) /\ PatInv(c) /\ rpc[c].op = "list"
  BY <1>1 DEF IInv, CallInv
<1>3. \A p \in minted'[c] : owner'[p] = rpc[c].user
  BY <1>1, <1>2 DEF PatInv
<1>4. CASE Becomes(c, Failed(c))
  BY <1>1, <1>3, <1>4, FailingEnds DEF CallMoves
<1>5. ASSUME NEW page \in SUBSET PatsOf(rpc[c].machine), NEW r, Becomes(c, r),
             Cardinality(page) <= Limit,
             page = PatsOf(rpc[c].machine) \/ Cardinality(page) = Limit,
             r = Returned(c, "ok", page)
      PROVE  CallMoves(c)
  <2>1. page \in SUBSET Pats /\ "ok" \in Results
    BY <1>2 DEF PatsOf, TypeOK, Results
  <2>2. /\ r \in Rpc /\ Keeps(r, c) /\ r.pc = "done" /\ r.result = "ok"
        /\ r.answer = page /\ r.machine = rpc[c].machine
        /\ r.misled = rpc[c].misled
    BY <1>2, <1>5, <2>1, ReturnedIs
  <2>3. Lists(c, page)
    BY <1>1, <1>2, <1>5 DEF Lists, CallInv
  <2>4. rpc[c].misled = FALSE
    BY <1>1, <1>2 DEF CallInv
  <2>5. Ends(c, r)
    BY <1>1, <1>2, <1>3, <2>2, <2>3, <2>4 DEF Ends, Keeps, Conflict, Refusals
  <2> QED
    BY <1>1, <1>2, <1>5, <2>2, <2>5 DEF CallMoves, Keeps
<1> DEFINE there == PatsOf(rpc[c].machine) # {}
<1>6. ASSUME NEW r, Becomes(c, r), r = Nothing(c, "ok", there)
      PROVE  CallMoves(c)
  <2>1. rpc[c].machine = rpc[c].user /\ "ok" \in Results
    BY <1>1, <1>2 DEF CallInv, Results
  <2>2. there = (PatsOf(rpc[c].user) # {}) /\ (there \/ Lists(c, {}))
    <3>1. Cardinality({}) = 0
      BY FS_EmptySet
    <3> QED
      BY <2>1, <3>1 DEF Lists
  <2>3. /\ r \in Rpc /\ Keeps(r, c) /\ r.pc = "done" /\ r.result = "ok"
        /\ r.answer = {} /\ r.machine = rpc[c].machine /\ r.misled = there
    <3>1. there \in BOOLEAN
      OBVIOUS
    <3> HIDE DEF there
    <3> QED
      BY <1>2, <1>6, <2>1, <3>1, NothingIs
  <2> HIDE DEF there
  <2>4. Ends(c, r)
    BY <1>1, <1>2, <1>3, <2>2, <2>3 DEF Ends, Keeps, Conflict, Refusals
  <2> QED
    BY <1>1, <1>2, <1>6, <2>3, <2>4 DEF CallMoves, Keeps
<1> QED
  BY <1>4, <1>5, <1>6 DEF ListTokens

(* An attempt given up is followed by the next one, or ends the call.       *)
LEMMA TimeoutMoves ==
  ASSUME IInv, NEW c \in Calls, Timeout(c)
  PROVE  CallMoves(c)
<1>1. /\ rpc[c].pc \in Writing /\ Active(c)
      /\ UNCHANGED <<machines, owner, live, minted>>
  BY DEF Timeout, Active
<1>2. TypeOK /\ CallInv(c) /\ PatInv(c)
  BY DEF IInv
<1>3. \A p \in minted'[c] : owner'[p] = rpc[c].user
  BY <1>1, <1>2 DEF PatInv
<1>4. CASE Becomes(c, Failed(c))
  BY <1>1, <1>3, <1>4, FailingEnds DEF CallMoves
<1>5. ASSUME rpc[c].try <= Retry, NEW r, Becomes(c, r),
             r = [rpc[c] EXCEPT !.try = @ + 1]
      PROVE  CallMoves(c)
  <2>1. Proceeds(c, r)
    BY <1>1, <1>2, <1>5, AgainIs
       DEF Proceeds, Leads, Keeps, Writing, CallInv
  <2> QED
    BY <1>1, <1>5, <2>1 DEF CallMoves
<1> QED
  BY <1>4, <1>5 DEF Timeout

(* Every step of a call is one of these.                                   *)
LEMMA StepMoves ==
  ASSUME IInv, NEW c \in Calls, Step(c)
  PROVE  CallMoves(c)
BY SearchMoves, ResearchMoves, ListMoves, TimeoutMoves DEF Step

(* A call whose caller leaves or whose process dies stays as it is or ends  *)
(* without an answer.                                                       *)
LEMMA LeavingIs ==
  ASSUME TypeOK, NEW c \in Calls, Disconnect(c) \/ Crash(c)
  PROVE  \E r \in Rpc :
           /\ rpc' = [rpc EXCEPT ![c] = r] /\ r.pc \in {rpc[c].pc, "dead"}
           /\ r.op = rpc[c].op /\ r.user = rpc[c].user /\ r.pat = rpc[c].pat
           /\ r.machine = rpc[c].machine /\ r.result = rpc[c].result
           /\ r.answer = rpc[c].answer /\ r.misled = rpc[c].misled
<1>1. PICK o \in Rpc : o = rpc[c]
  BY DEF TypeOK
<1>2. ASSUME NEW r,
             r = [o EXCEPT !.gone = TRUE] \/ r = [o EXCEPT !.pc = "dead"]
      PROVE  /\ r \in Rpc /\ r.pc \in {o.pc, "dead"}
             /\ r.op = o.op /\ r.user = o.user /\ r.pat = o.pat
             /\ r.machine = o.machine /\ r.result = o.result
             /\ r.answer = o.answer /\ r.misled = o.misled
  BY <1>2 DEF Rpc
<1>3. \/ rpc' = [rpc EXCEPT ![c] = [o EXCEPT !.gone = TRUE]]
      \/ rpc' = [rpc EXCEPT ![c] = [o EXCEPT !.pc = "dead"]]
  BY <1>1 DEF Disconnect, Crash
<1> QED
  BY <1>1, <1>2, <1>3

(* A caller that leaves and a process that dies change nothing else.       *)
LEMMA LeavingSafe ==
  ASSUME IInv, NEW c \in Calls, Disconnect(c) \/ Crash(c)
  PROVE  IInv'
<1>1. PICK r \in Rpc :
        /\ rpc' = [rpc EXCEPT ![c] = r] /\ r.pc \in {rpc[c].pc, "dead"}
        /\ r.op = rpc[c].op /\ r.user = rpc[c].user /\ r.pat = rpc[c].pat
        /\ r.machine = rpc[c].machine /\ r.result = rpc[c].result
        /\ r.answer = rpc[c].answer /\ r.misled = rpc[c].misled
  BY LeavingIs DEF IInv
<1>2. Active(c) /\ UNCHANGED <<flight, machines, owner, live, minted>>
  BY DEF Disconnect, Crash
<1>3. rpc'[c] = r /\ \A d \in Calls \ {c} : Rests(d)
  BY <1>1, <1>2 DEF IInv, TypeOK, Rests
<1>4. TypeOK'
  BY <1>1, <1>2 DEF IInv, TypeOK
<1>5. WorldMoves /\ OwnedInv'
  BY <1>2 DEF IInv, WorldMoves, OwnedInv
<1>6. /\ CallInv(c) /\ PatInv(c)
      /\ rpc[c].user \in Humans /\ rpc[c].result = "none"
      /\ rpc[c].pc \notin {"new", "done"} /\ rpc[c].answer = {}
      /\ rpc[c].misled = FALSE
  BY <1>2 DEF IInv, CallInv, Active, Reading, Writing
<1>7. CallInv(c)'
  <2>1. CASE r.pc = "dead"
    BY <1>1, <1>3, <1>6, <2>1 DEF CallInv, Active, Reading, Writing, Conflict
  <2>2. CASE r.pc = rpc[c].pc
    BY <1>1, <1>2, <1>3, <1>6, <2>2 DEF CallInv, Active, Reading, Writing
  <2> QED
    BY <1>1, <2>1, <2>2
<1>8. PatInv(c)'
  BY <1>1, <1>2, <1>3, <1>6 DEF PatInv, Succeeded, Over
<1>9. \A m \in flight : m.call = c => MsgInv(m)'
  <2> SUFFICES ASSUME NEW m \in flight, m.call = c
               PROVE  MsgInv(m)'
    OBVIOUS
  <2>1. MsgInv(m) /\ rpc'[m.call] = r /\ machines' = machines
    BY <1>2, <1>3 DEF IInv
  <2>2. /\ r.op = rpc[m.call].op /\ r.user = rpc[m.call].user
        /\ r.machine = rpc[m.call].machine /\ r.result = rpc[m.call].result
        /\ r.pc = rpc[m.call].pc \/ r.pc = "dead"
    BY <1>1
  <2> QED
    BY <2>1, <2>2 DEF MsgInv, Over, Refusals
<1>10. \A m \in flight' : MsgInv(m)'
  <2> SUFFICES ASSUME NEW m \in flight, m.call # c
               PROVE  MsgInv(m)'
    BY <1>2, <1>9
  <2>1. m.call \in Calls /\ MsgInv(m)
    BY DEF IInv, TypeOK, Message
  <2> QED
    BY <1>2, <1>3, <2>1 DEF MsgInv, Rests
<1>11. \A d \in Calls : CallInv(d)' /\ PatInv(d)'
  BY <1>3, <1>5, <1>7, <1>8, RestingSafe
<1> QED
  BY <1>4, <1>5, <1>10, <1>11 DEF IInv

-----------------------------------------------------------------------------
(* What ZITADEL does.                                                      *)

(* What call c minted is minted in its last phase or after, for its user.  *)
Mints(c) ==
  /\ minted[c] \subseteq minted'[c]
  /\ minted'[c] # minted[c] => rpc[c].pc \in {"addToken"} \cup Over
  /\ \A p \in minted'[c] : owner'[p] = rpc[c].user

(* Message m is executed: what that does, and what its reply makes of a    *)
(* call that waits for it.                                                 *)
Executed(m) ==
  /\ \E r : /\ Reply(m, r)
            /\ Waiting(m) => Proceeds(m.call, r) \/ Ends(m.call, r)
  /\ WorldMoves /\ OwnedInv'
  /\ machines' \subseteq Humans /\ live' \subseteq Pats
  /\ owner' \in [Pats -> Humans \cup {NoHuman}]
  /\ minted' \in [Calls -> SUBSET Pats]
  /\ \A d \in Calls \ {m.call} : minted'[d] = minted[d]
  /\ Mints(m.call)
  /\ \/ minted'[m.call] = minted[m.call]
     \/ /\ m.pc = "addToken"
        /\ \E p \in Pats : /\ owner[p] = NoHuman
                           /\ minted'[m.call] = minted[m.call] \cup {p}

(* A message that is executed keeps the invariant, whether or not its call  *)
(* still waits for it, and whether or not the reply arrives.                *)
LEMMA ExecutedSafe ==
  ASSUME IInv, NEW m \in flight, Executed(m)
  PROVE  IInv'
<1> PICK r : /\ Reply(m, r)
             /\ Waiting(m) => Proceeds(m.call, r) \/ Ends(m.call, r)
  BY DEF Executed
<1> /\ WorldMoves /\ OwnedInv' /\ Mints(m.call)
    /\ machines' \subseteq Humans /\ live' \subseteq Pats
    /\ owner' \in [Pats -> Humans \cup {NoHuman}]
    /\ minted' \in [Calls -> SUBSET Pats]
    /\ \A d \in Calls \ {m.call} : minted'[d] = minted[d]
  BY DEF Executed
<1> DEFINE c == m.call
<1>1. c \in Calls /\ m.pc \in Writing /\ MsgInv(m) /\ rpc[c].user \in Humans
  BY DEF IInv, TypeOK, Message, MsgInv
<1>2. CallInv(c) /\ PatInv(c)
  BY <1>1 DEF IInv
<1>3. CASE flight' = flight \ {m} /\ rpc' = rpc
  <2>1. TypeOK'
    BY <1>3 DEF IInv, TypeOK
  <2>2. \A d \in Calls \ {c} : Rests(d)
    BY <1>3 DEF Rests
  <2>3. CallInv(c)'
    BY <1>2, <1>3 DEF CallInv, Active, WorldMoves
  <2>4. PatInv(c)'
    <3>1. minted'[c] # {} => rpc[c].pc \in {"addToken"} \cup Over
      BY <1>2 DEF PatInv, Mints
    <3>2. Succeeded(c, "delete") =>
            rpc[c].pat \in Pats \ live' /\ owner'[rpc[c].pat] # NoHuman
      BY <1>2 DEF PatInv, WorldMoves
    <3>3. Succeeded(c, "create") =>
            \E p \in minted'[c] :
              rpc[c].answer = IF rpc[c].misled THEN {} ELSE {p}
      BY <1>2 DEF PatInv, Mints
    <3> QED
      BY <1>1, <1>3, <3>1, <3>2, <3>3 DEF PatInv, Mints, Succeeded
  <2>5. \A n \in flight : MsgInv(n)'
    BY <1>3 DEF IInv, MsgInv, WorldMoves
  <2>6. \A d \in Calls : CallInv(d)' /\ PatInv(d)'
    BY <2>2, <2>3, <2>4, RestingSafe
  <2> QED
    BY <1>3, <2>1, <2>5, <2>6 DEF IInv
<1>4. ASSUME Waiting(m), NEW next, next = r \/ next = Failed(c),
             rpc' = [rpc EXCEPT ![c] = next],
             flight' = (flight \ {m}) \cup Sent(c, next)
      PROVE  IInv'
  <2>1. Active(c)
    BY <1>1, <1>4 DEF Waiting, Active
  <2>2. Ends(c, Failed(c))
    BY <1>1, <2>1, FailingEnds DEF Mints
  <2>3. Proceeds(c, next) \/ Ends(c, next)
    BY <1>4, <2>2
  <2>4. next \in Rpc
    BY <2>3 DEF Proceeds, Ends
  <2>5. rpc'[c] = next /\ \A d \in Calls \ {c} : Rests(d)
    BY <1>1, <1>4, <2>4 DEF IInv, TypeOK, Rests
  <2>6. TypeOK'
    BY <1>1, <1>4, <2>4, SentIs DEF IInv, TypeOK
  <2>7. /\ CallInv(c)' /\ PatInv(c)'
        /\ \A n \in flight : n.call = c => MsgInv(n)'
        /\ \A n \in Sent(c, next) : MsgInv(n)'
    <3>1. CASE Proceeds(c, next)
      BY <1>1, <2>5, <3>1, ProceedingSafe
    <3>2. CASE Ends(c, next)
      <4>1. Sent(c, next) = {}
        BY <3>2 DEF Ends, Sent, Writing
      <4> QED
        BY <1>1, <2>5, <3>2, <4>1, EndingSafe
    <3> QED
      BY <2>3, <3>1, <3>2
  <2>8. flight' \subseteq flight \cup Sent(c, next)
    BY <1>4
  <2> QED
    BY <1>1, <2>5, <2>6, <2>7, <2>8, Assembled
<1> QED
  BY <1>3, <1>4 DEF Reply

(* What every message has: a call that exists and its invariant.           *)
LEMMA MessageIs ==
  ASSUME IInv, NEW m \in flight
  PROVE  /\ m.call \in Calls /\ m.pc \in Writing /\ MsgInv(m)
         /\ CallInv(m.call) /\ PatInv(m.call)
         /\ rpc[m.call].user \in Humans
         /\ Waiting(m) => Active(m.call) /\ rpc[m.call].pc = m.pc
BY DEF IInv, TypeOK, Message, MsgInv, Waiting, Active

(* A step that mints nothing and gives no PAT another owner.               *)
LEMMA NothingMinted ==
  ASSUME IInv, NEW c \in Calls, UNCHANGED <<owner, minted>>
  PROVE  Mints(c)
BY DEF IInv, Mints, PatInv

(* A machine user that is created is the caller's; a conflict sends the     *)
(* call to look for the one in its way.                                     *)
LEMMA CreateUserExecuted ==
  ASSUME IInv, NEW m \in flight, CreateUser(m)
  PROVE  Executed(m)
<1> DEFINE c == m.call
           u == rpc[c].user
<1>1. /\ c \in Calls /\ CallInv(c) /\ PatInv(c) /\ MsgInv(m) /\ u \in Humans
      /\ Waiting(m) => Active(c) /\ rpc[c].pc = "createUser"
      /\ TypeOK
  BY MessageIs DEF CreateUser, IInv
<1>2. UNCHANGED <<owner, live, minted>>
  BY DEF CreateUser
<1>3. machines \subseteq machines' /\ machines' \subseteq Humans
  BY <1>1 DEF CreateUser, TypeOK
<1>4. WorldMoves /\ OwnedInv' /\ Mints(c)
  BY <1>1, <1>2, <1>3, NothingMinted DEF WorldMoves, IInv, OwnedInv
<1>5. ASSUME NEW r, Waiting(m), u \in machines',
             r = Writes(c, "addToken", u)
      PROVE  Proceeds(c, r)
  BY <1>1, <1>2, <1>5, WritesIs
     DEF Proceeds, Leads, Keeps, Writing, CallInv
<1>6. ASSUME NEW r, Waiting(m), u \in machines \cup Taken,
             r = Reads(c, "research", NoHuman)
      PROVE  Proceeds(c, r)
  BY <1>1, <1>2, <1>6, ReadsIs
     DEF Proceeds, Leads, Keeps, Reading, CallInv
<1>7. \/ u \in machines' /\ Reply(m, Writes(c, "addToken", u))
      \/ u \in machines \cup Taken /\ Reply(m, Reads(c, "research", NoHuman))
  BY DEF CreateUser
<1>8. ASSUME NEW r, Reply(m, r), Waiting(m) => Proceeds(c, r)
      PROVE  Executed(m)
  BY <1>1, <1>2, <1>3, <1>4, <1>8 DEF TypeOK, Executed
<1> QED
  BY <1>5, <1>6, <1>7, <1>8

(* A PAT is minted for the caller of the call that asked for it.            *)
LEMMA AddTokenExecuted ==
  ASSUME IInv, NEW m \in flight, AddToken(m)
  PROVE  Executed(m)
<1> DEFINE c == m.call
           r == rpc[c]
<1>1. /\ c \in Calls /\ CallInv(c) /\ PatInv(c) /\ r.user \in Humans
      /\ Waiting(m) => Active(c) /\ r.pc = "addToken"
      /\ TypeOK
  BY MessageIs DEF AddToken, IInv
<1>2. r.pc \in {"addToken"} \cup Over /\ r.machine = r.user
  BY MessageIs DEF AddToken, MsgInv
<1>3. PICK p \in Pats :
        /\ owner[p] = NoHuman
        /\ owner' = [owner EXCEPT ![p] = r.machine]
        /\ live' = live \cup {p}
        /\ minted' = [minted EXCEPT ![c] = @ \cup {p}]
        /\ Reply(m, Returned(c, "ok", {p})) \/ Reply(m, Nothing(c, "ok", TRUE))
  BY DEF AddToken
<1>4. machines' = machines
  BY DEF AddToken
<1>5. owner' \in [Pats -> Humans \cup {NoHuman}] /\ owner'[p] = r.user
  BY <1>1, <1>2, <1>3 DEF TypeOK
<1>6. \A q \in Pats \ {p} : owner'[q] = owner[q]
  BY <1>1, <1>3 DEF TypeOK
<1>7. /\ minted' \in [Calls -> SUBSET Pats]
      /\ minted'[c] = minted[c] \cup {p}
      /\ \A d \in Calls \ {c} : minted'[d] = minted[d]
  BY <1>1, <1>3 DEF TypeOK
<1>8. WorldMoves
  BY <1>3, <1>4, <1>6 DEF WorldMoves
<1>9. OwnedInv'
  <2>1. r.user \in machines'
    BY <1>4, MessageIs DEF AddToken, MsgInv
  <2> QED
    BY <1>1, <1>3, <1>4, <1>5, <1>6, <2>1 DEF IInv, OwnedInv, TypeOK
<1>10. \A q \in minted'[c] : owner'[q] = r.user
  BY <1>1, <1>5, <1>6, <1>7 DEF PatInv, TypeOK
<1>11. Mints(c)
  BY <1>2, <1>7, <1>10 DEF Mints
<1>12. ASSUME NEW next, Waiting(m), next = Returned(c, "ok", {p})
       PROVE  Ends(c, next)
  <2>1. "ok" \in Results /\ {p} \in SUBSET Pats
    BY DEF Results
  <2>2. /\ next \in Rpc /\ Keeps(next, c) /\ next.pc = "done"
        /\ next.result = "ok" /\ next.answer = {p}
        /\ next.machine = r.machine /\ next.misled = r.misled
    BY <1>1, <1>12, <2>1, ReturnedIs
  <2>3. r.op = "create" /\ Active(c) /\ next.misled = FALSE
    BY <1>1, <1>12, <2>2 DEF CallInv
  <2>4. /\ p \in minted'[c]
        /\ next.answer = IF next.misled THEN {} ELSE {p}
    BY <1>7, <2>2, <2>3
  <2> QED
    BY <1>10, <2>2, <2>3, <2>4 DEF Ends, Keeps, Conflict, Refusals
<1>13. ASSUME NEW next, Waiting(m), next = Nothing(c, "ok", TRUE)
       PROVE  Ends(c, next)
  <2>1. /\ next \in Rpc /\ Keeps(next, c) /\ next.pc = "done"
        /\ next.result = "ok" /\ next.answer = {}
        /\ next.machine = r.machine /\ next.misled = TRUE
    BY <1>1, <1>13, MisledByNothing
  <2>2. r.op = "create" /\ Active(c)
    BY <1>1, <1>13 DEF CallInv
  <2>3. /\ p \in minted'[c]
        /\ next.answer = IF next.misled THEN {} ELSE {p}
    BY <1>7, <2>1
  <2> QED
    BY <1>10, <2>1, <2>2, <2>3 DEF Ends, Keeps, Conflict, Refusals
<1>14. \E next : /\ Reply(m, next)
                 /\ Waiting(m) => Proceeds(c, next) \/ Ends(c, next)
  BY <1>3, <1>12, <1>13
<1>15. live' \subseteq Pats /\ machines' \subseteq Humans
  BY <1>1, <1>3, <1>4 DEF TypeOK
<1>16. m.pc = "addToken"
  BY DEF AddToken
<1> QED
  BY <1>3, <1>5, <1>7, <1>8, <1>9, <1>11, <1>14, <1>15, <1>16 DEF Executed

(* A PAT is removed for its owner and has been owned, so it is never minted *)
(* again.                                                                   *)
LEMMA RemoveTokenExecuted ==
  ASSUME IInv, NEW m \in flight, RemoveToken(m)
  PROVE  Executed(m)
<1> DEFINE c == m.call
           r == rpc[c]
<1>1. /\ c \in Calls /\ CallInv(c) /\ PatInv(c) /\ r.user \in Humans
      /\ Waiting(m) => Active(c) /\ r.pc = "removeToken"
      /\ TypeOK
  BY MessageIs DEF RemoveToken, IInv
<1>2. r.machine = r.user
  BY MessageIs DEF RemoveToken, MsgInv
<1>3. /\ r.pat \in live /\ owner[r.pat] = r.machine
      /\ live' = live \ {r.pat}
      /\ Reply(m, Returned(c, "ok", {}))
      /\ UNCHANGED <<machines, owner, minted>>
  BY DEF RemoveToken, PatsOf
<1>4. WorldMoves /\ OwnedInv' /\ Mints(c)
  BY <1>1, <1>3, NothingMinted DEF WorldMoves, IInv, OwnedInv
<1>5. ASSUME NEW next, Waiting(m), next = Returned(c, "ok", {})
      PROVE  Ends(c, next)
  <2>1. "ok" \in Results /\ {} \in SUBSET Pats
    BY DEF Results
  <2>2. /\ next \in Rpc /\ Keeps(next, c) /\ next.pc = "done"
        /\ next.result = "ok" /\ next.machine = r.machine
        /\ next.answer = {}
    BY <1>1, <1>5, <2>1, ReturnedIs
  <2>3. r.op = "delete" /\ Active(c)
    BY <1>1, <1>5 DEF CallInv
  <2>4. r.pat \in Pats \ live' /\ owner'[r.pat] # NoHuman
    BY <1>1, <1>2, <1>3 DEF TypeOK
  <2> QED
    BY <1>4, <2>2, <2>3, <2>4 DEF Ends, Keeps, Conflict, Mints, Refusals
<1> QED
  BY <1>1, <1>3, <1>4, <1>5 DEF TypeOK, Executed

(* A refusal changes nothing and ends the call that waits.                  *)
LEMMA RefuseExecuted ==
  ASSUME IInv, NEW m \in flight, Refuse(m)
  PROVE  Executed(m)
<1> DEFINE c == m.call
<1>1. /\ c \in Calls /\ TypeOK /\ PatInv(c)
      /\ Waiting(m) => Active(c)
  BY MessageIs DEF IInv
<1>2. /\ Reply(m, Failed(c))
      /\ UNCHANGED <<machines, owner, live, minted>>
  BY DEF Refuse
<1>3. WorldMoves /\ OwnedInv' /\ Mints(c)
  BY <1>1, <1>2, NothingMinted DEF WorldMoves, IInv, OwnedInv
<1>4. Waiting(m) => Ends(c, Failed(c))
  BY <1>1, <1>3, FailingEnds DEF Mints
<1> QED
  BY <1>1, <1>2, <1>3, <1>4 DEF TypeOK, Executed

(* Whatever ZITADEL does with a message is an execution in this sense.     *)
LEMMA ExecuteExecuted ==
  ASSUME IInv, NEW m \in flight, Execute(m)
  PROVE  Executed(m)
BY CreateUserExecuted, AddTokenExecuted, RemoveTokenExecuted, RefuseExecuted
   DEF Execute

(* The answer of a list is a page, or none for a caller who has PATs but is *)
(* misled.                                                                  *)
Paged(c) ==
  IF rpc'[c].misled
  THEN rpc'[c].answer = {} /\ PatsOf(rpc[c].user) # {}
  ELSE Lists(c, rpc'[c].answer)

(* A call that moves or is moved by a reply ends as Ends says.             *)
LEMMA Listed ==
  ASSUME IInv, Next, NEW c \in Calls, Active(c), Succeeded(c, "list")'
  PROVE  Paged(c)
<1>1. ASSUME rpc'[c].pc = rpc[c].pc
      PROVE  FALSE
  BY <1>1 DEF Active, Reading, Writing, Succeeded
<1>2. ASSUME NEW r, rpc' = [rpc EXCEPT ![c] = r],
             Proceeds(c, r) \/ Ends(c, r)
      PROVE  Paged(c)
  <2>1. rpc'[c] = r
    BY <1>2 DEF IInv, TypeOK
  <2>2. r.pc = "done" /\ r.op = "list" /\ r.result = "ok"
    BY <2>1 DEF Succeeded
  <2>3. Ends(c, r)
    BY <1>2, <2>2 DEF Proceeds, Leads
  <2> QED
    BY <2>1, <2>2, <2>3 DEF Ends, Paged
<1>3. ASSUME NEW d \in Calls, d # c, NEW r, rpc' = [rpc EXCEPT ![d] = r]
      PROVE  FALSE
  BY <1>1, <1>3 DEF IInv, TypeOK
<1>4. ASSUME NEW d \in Calls, Step(d)
      PROVE  Paged(c)
  <2>1. PICK r : /\ rpc' = [rpc EXCEPT ![d] = r]
                 /\ Proceeds(d, r) \/ Ends(d, r)
    BY <1>4, StepMoves DEF CallMoves, Becomes
  <2> QED
    BY <1>2, <1>3, <2>1
<1>5. ASSUME NEW m \in flight, Execute(m)
      PROVE  Paged(c)
  <2>1. Executed(m) /\ m.call \in Calls
    BY <1>5, ExecuteExecuted, MessageIs
  <2>2. PICK r : /\ Reply(m, r)
                 /\ Waiting(m) => Proceeds(m.call, r) \/ Ends(m.call, r)
    BY <2>1 DEF Executed
  <2>3. CASE rpc' = rpc
    BY <1>1, <2>3
  <2>4. ASSUME Waiting(m), NEW next \in {r, Failed(m.call)},
               rpc' = [rpc EXCEPT ![m.call] = next]
        PROVE  Paged(c)
    <3>1. Active(m.call) /\ \A p \in minted'[m.call] :
                              owner'[p] = rpc[m.call].user
      BY <2>1, <2>4, MessageIs DEF Executed, Mints
    <3>2. Proceeds(m.call, next) \/ Ends(m.call, next)
      BY <2>1, <2>2, <2>4, <3>1, FailingEnds
    <3> QED
      BY <1>2, <1>3, <2>1, <2>4, <3>2
  <2> QED
    BY <2>2, <2>3, <2>4 DEF Reply
<1>6. ASSUME NEW d \in Calls, Disconnect(d) \/ Crash(d)
      PROVE  FALSE
  <2>1. rpc[c].pc # "done" /\ rpc'[c].pc = "done"
    BY DEF Active, Reading, Writing, Succeeded
  <2>2. rpc[d] \in Rpc /\ rpc \in [Calls -> Rpc]
    BY DEF IInv, TypeOK
  <2>3. rpc'[c].pc \in {rpc[c].pc, "dead"}
    BY <1>6, <2>2 DEF Disconnect, Crash, Rpc
  <2> QED
    BY <2>1, <2>3
<1>7. ASSUME NEW d \in Calls, NEW op \in Ops, NEW u \in Humans \cup {NoHuman},
             NEW p \in Pats \cup {NoPat}, Begin(d, op, u, p)
      PROVE  FALSE
  <2>1. d # c
    BY <1>7 DEF Begin, Active, Reading, Writing
  <2>2. \E r : rpc' = [rpc EXCEPT ![d] = r]
    BY <1>7 DEF Begin
  <2> QED
    BY <1>3, <2>1, <2>2
<1> QED
  BY <1>4, <1>5, <1>6, <1>7 DEF Next

-----------------------------------------------------------------------------
(* How often a call mints: what it minted and what it may still mint,      *)
(* counted against the attempts it made.                                   *)

(* The attempts of call c to mint a PAT that may still be executed.        *)
Sends(c) == {m \in flight : m.call = c /\ m.pc = "addToken"}

(* The attempts it made, or has made at most when it is over.              *)
Allowance(c) ==
  CASE rpc[c].pc = "addToken" -> rpc[c].try
    [] rpc[c].pc \in Over -> Retry + 1
    [] OTHER -> 0

(* PATs minted and attempts under way are within the allowance.            *)
AttemptInv(c) ==
  /\ IsFiniteSet(Sends(c)) /\ IsFiniteSet(minted[c])
  /\ Cardinality(Sends(c)) + Cardinality(minted[c]) <= Allowance(c)

(* An element more makes a set larger by one at most.                      *)
LEMMA OneMore ==
  ASSUME NEW S, IsFiniteSet(S), NEW x
  PROVE  /\ IsFiniteSet(S \cup {x}) /\ Cardinality(S \cup {x}) \in Nat
         /\ Cardinality(S \cup {x}) <= Cardinality(S) + 1
<1>1. Cardinality(S) \in Nat
  BY FS_CardinalityType
<1>2. /\ IsFiniteSet(S \cup {x})
      /\ Cardinality(S \cup {x}) =
           IF x \in S THEN Cardinality(S) ELSE Cardinality(S) + 1
  BY FS_AddElement
<1> QED
  BY <1>1, <1>2

(* An attempt more needs an allowance more; a PAT more needs an attempt    *)
(* less.                                                                   *)
LEMMA Accounted ==
  ASSUME NEW c, AttemptInv(c),
         NEW kept, kept \subseteq Sends(c),
         NEW more \in {0, 1},
         \/ more = 0 /\ Sends(c)' \subseteq kept
         \/ more = 1 /\ \E e : Sends(c)' \subseteq kept \cup {e},
         \/ minted'[c] = minted[c]
         \/ \E m \in Sends(c) : /\ m \notin kept
                                /\ \E p : minted'[c] = minted[c] \cup {p},
         Allowance(c) \in Nat, Allowance(c)' \in Nat,
         Allowance(c) + more <= Allowance(c)'
  PROVE  AttemptInv(c)'
<1> DEFINE S == Sends(c)
           T == Sends(c)'
           M == minted[c]
           N == minted'[c]
<1>1. /\ IsFiniteSet(S) /\ IsFiniteSet(M)
      /\ Cardinality(S) \in Nat /\ Cardinality(M) \in Nat
      /\ Cardinality(S) + Cardinality(M) <= Allowance(c)
  BY FS_CardinalityType DEF AttemptInv
<1>2. IsFiniteSet(kept) /\ Cardinality(kept) \in Nat
  BY <1>1, FS_Subset, FS_CardinalityType
<1>3. /\ IsFiniteSet(T) /\ Cardinality(T) \in Nat
      /\ Cardinality(T) <= Cardinality(kept) + more
  <2>1. CASE more = 0 /\ T \subseteq kept
    BY <1>2, <2>1, FS_Subset, FS_CardinalityType
  <2>2. CASE more = 1 /\ \E e : T \subseteq kept \cup {e}
    <3>1. PICK e : T \subseteq kept \cup {e}
      BY <2>2
    <3>2. /\ IsFiniteSet(kept \cup {e})
          /\ Cardinality(kept \cup {e}) <= Cardinality(kept) + 1
          /\ Cardinality(kept \cup {e}) \in Nat
      BY <1>2, OneMore
    <3> QED
      BY <1>2, <2>2, <3>1, <3>2, FS_Subset, FS_CardinalityType
  <2> QED
    BY <2>1, <2>2
<1>4. CASE N = M
  <2>1. Cardinality(kept) <= Cardinality(S)
    BY <1>1, FS_Subset
  <2>2. Cardinality(T) + Cardinality(N) <= Allowance(c)'
    <3> HIDE DEF S, T, M, N
    <3> QED
      BY <1>1, <1>2, <1>3, <1>4, <2>1
  <2> QED
    BY <1>1, <1>3, <1>4, <2>2 DEF AttemptInv
<1>5. CASE \E m \in S : m \notin kept /\ \E p : N = M \cup {p}
  <2>1. PICK m \in S : m \notin kept /\ \E p : N = M \cup {p}
    BY <1>5
  <2>2. /\ IsFiniteSet(N) /\ Cardinality(N) \in Nat
        /\ Cardinality(N) <= Cardinality(M) + 1
    <3>1. PICK p : N = M \cup {p}
      BY <2>1
    <3>2. /\ IsFiniteSet(M \cup {p}) /\ Cardinality(M \cup {p}) \in Nat
          /\ Cardinality(M \cup {p}) <= Cardinality(M) + 1
      BY <1>1, OneMore
    <3> HIDE DEF M, N
    <3> QED
      BY <3>1, <3>2
  <2>3. Cardinality(kept) <= Cardinality(S) - 1
    <3>1. IsFiniteSet(S \ {m}) /\ Cardinality(S \ {m}) = Cardinality(S) - 1
      BY <1>1, <2>1, FS_RemoveElement
    <3> QED
      BY <2>1, <3>1, FS_Subset
  <2>4. Cardinality(T) + Cardinality(N) <= Allowance(c)'
    <3> HIDE DEF S, T, M, N
    <3> QED
      BY <1>1, <1>2, <1>3, <2>2, <2>3
  <2> QED
    BY <1>3, <2>2, <2>4 DEF AttemptInv
<1> QED
  BY <1>4, <1>5

(* The allowance of a record, and that of a call that goes on or ends.     *)
LEMMA AllowanceGrows ==
  ASSUME IInv, NEW c \in Calls, NEW r, Proceeds(c, r) \/ Ends(c, r),
         rpc'[c] = r
  PROVE  /\ Allowance(c) \in Nat /\ Allowance(c)' \in Nat
         /\ Allowance(c) <= Allowance(c)'
         /\ r.pc = "addToken" => Allowance(c) + 1 <= Allowance(c)'
<1>1. rpc[c].try \in Tries /\ r.try \in Tries
  BY DEF IInv, TypeOK, Rpc, Proceeds, Ends
<1>2. Tries \subseteq Nat /\ \A t \in Tries : t <= Retry + 1
  BY DEF Tries
<1>3. CASE Proceeds(c, r)
  <2>1. /\ rpc[c].pc \notin Over /\ r.pc \notin Over
        /\ r.pc # "addToken" => rpc[c].pc # "addToken"
        /\ r.pc = "addToken" =>
             r.try = IF rpc[c].pc = "addToken" THEN rpc[c].try + 1 ELSE 1
    BY <1>3 DEF Proceeds, Leads, Over, Active, Reading, Writing
  <2> QED
    BY <1>1, <1>2, <2>1 DEF Allowance
<1>4. CASE Ends(c, r)
  <2>1. r.pc = "done" /\ rpc[c].pc \notin Over
    BY <1>4 DEF Ends, Over, Active, Reading, Writing
  <2> QED
    BY <1>1, <1>2, <2>1 DEF Allowance, Over
<1> QED
  BY <1>3, <1>4

(* A call sends one message to mint, and only when it goes on minting.     *)
LEMMA SendsGrow ==
  ASSUME NEW c \in Calls, NEW r \in Rpc, NEW left \in SUBSET flight,
         flight' = left \cup Sent(c, r)
  PROVE  IF r.pc = "addToken"
           THEN \E e : Sends(c)' \subseteq (Sends(c) \cap left) \cup {e}
           ELSE Sends(c)' \subseteq Sends(c) \cap left
<1>1. \A m \in Sent(c, r) :
        m = [call |-> c, pc |-> r.pc, try |-> r.try] /\ m.pc = r.pc
  BY DEF Sent
<1> QED
  BY <1>1 DEF Sends

(* The calls that do not move send and mint nothing.                       *)
LEMMA RestingAccounted ==
  ASSUME NEW c \in Calls, NEW r \in Rpc, NEW d \in Calls \ {c},
         flight' \subseteq flight \cup Sent(c, r),
         Rests(d), AttemptInv(d), Allowance(d) \in Nat
  PROVE  AttemptInv(d)'
<1>1. \A m \in Sent(c, r) : m.call = c
  BY DEF Sent
<1>2. Sends(d)' \subseteq Sends(d)
  BY <1>1 DEF Sends
<1>3. Allowance(d)' = Allowance(d) /\ minted'[d] = minted[d]
  BY DEF Allowance, Rests
<1> QED
  BY <1>2, <1>3, Accounted

(* Allowances are numbers.                                                 *)
LEMMA AllowanceIs ==
  ASSUME TypeOK, NEW c \in Calls
  PROVE  Allowance(c) \in Nat
<1>1. rpc[c].try \in Nat
  BY DEF TypeOK, Rpc, Tries
<1> QED
  BY <1>1 DEF Allowance

(* A call that goes on or ends by itself.                                  *)
LEMMA MovingAccounted ==
  ASSUME IInv, \A c \in Calls : AttemptInv(c), NEW c \in Calls, CallMoves(c)
  PROVE  \A d \in Calls : AttemptInv(d)'
<1> PICK r : Becomes(c, r) /\ (Proceeds(c, r) \/ Ends(c, r))
  BY DEF CallMoves
<1>1. /\ r \in Rpc /\ rpc' = [rpc EXCEPT ![c] = r]
      /\ flight' = flight \cup Sent(c, r) /\ minted' = minted
  BY DEF Becomes, CallMoves, Proceeds, Ends
<1>2. rpc'[c] = r /\ \A d \in Calls \ {c} : Rests(d)
  BY <1>1 DEF IInv, TypeOK, Rests
<1>3. /\ Allowance(c) \in Nat /\ Allowance(c)' \in Nat
      /\ Allowance(c) <= Allowance(c)'
      /\ r.pc = "addToken" => Allowance(c) + 1 <= Allowance(c)'
  BY <1>2, AllowanceGrows
<1>4. /\ Sends(c) \cap flight = Sends(c)
      /\ IF r.pc = "addToken"
           THEN \E e : Sends(c)' \subseteq (Sends(c) \cap flight) \cup {e}
           ELSE Sends(c)' \subseteq Sends(c) \cap flight
  BY <1>1, SendsGrow DEF Sends
<1>5. AttemptInv(c)'
  <2>1. CASE r.pc = "addToken"
    <3>1. \E e : Sends(c)' \subseteq Sends(c) \cup {e}
      BY <1>4, <2>1
    <3>2. Allowance(c) + 1 <= Allowance(c)' /\ minted'[c] = minted[c]
      BY <1>1, <1>3, <2>1
    <3>3. 1 \in {0, 1}
      OBVIOUS
    <3> QED
      BY <1>3, <3>1, <3>2, <3>3, Accounted
  <2>2. CASE r.pc # "addToken"
    <3>1. Sends(c)' \subseteq Sends(c)
      BY <1>4, <2>2
    <3>2. Allowance(c) + 0 <= Allowance(c)' /\ minted'[c] = minted[c]
      BY <1>1, <1>3
    <3>3. 0 \in {0, 1}
      OBVIOUS
    <3> QED
      BY <1>3, <3>1, <3>2, <3>3, Accounted
  <2> QED
    BY <2>1, <2>2
<1>6. \A d \in Calls \ {c} : AttemptInv(d)'
  BY <1>1, <1>2, AllowanceIs, RestingAccounted DEF IInv
<1> QED
  BY <1>5, <1>6

(* A message that is executed is one attempt less, and one PAT at most.    *)
LEMMA ExecutedAccounted ==
  ASSUME IInv, \A c \in Calls : AttemptInv(c), NEW m \in flight, Executed(m)
  PROVE  \A d \in Calls : AttemptInv(d)'
<1> DEFINE c == m.call
           kept == Sends(c) \cap (flight \ {m})
<1>1. /\ c \in Calls /\ AttemptInv(c) /\ Allowance(c) \in Nat
      /\ Waiting(m) => Active(c)
  BY MessageIs, AllowanceIs DEF IInv
<1>2. \/ minted'[c] = minted[c]
      \/ \E n \in Sends(c) : /\ n \notin kept
                             /\ \E p : minted'[c] = minted[c] \cup {p}
  <2>1. m.pc = "addToken" => m \in Sends(c) /\ m \notin kept
    BY DEF Sends
  <2> QED
    BY <2>1 DEF Executed
<1>3. \A d \in Calls \ {c} : minted'[d] = minted[d]
  BY DEF Executed
<1> PICK r : /\ Reply(m, r)
             /\ Waiting(m) => Proceeds(c, r) \/ Ends(c, r)
  BY DEF Executed
<1>4. CASE flight' = flight \ {m} /\ rpc' = rpc
  <2>1. Sends(c)' \subseteq kept /\ Allowance(c)' = Allowance(c)
    BY <1>4 DEF Sends, Allowance
  <2>2. /\ 0 \in {0, 1} /\ kept \subseteq Sends(c)
        /\ Allowance(c) + 0 <= Allowance(c)
    BY <1>1
  <2>3. AttemptInv(c)'
    <3> HIDE DEF c, kept
    <3> QED
      BY <1>1, <1>2, <2>1, <2>2, Accounted
  <2>4. ASSUME NEW d \in Calls \ {c}
        PROVE  AttemptInv(d)'
    <3>1. rpc[c] \in Rpc /\ flight' \subseteq flight \cup Sent(c, rpc[c])
      BY <1>1, <1>4 DEF IInv, TypeOK
    <3>2. Rests(d) /\ AttemptInv(d) /\ Allowance(d) \in Nat
      BY <1>3, <1>4, AllowanceIs DEF Rests, IInv
    <3> QED
      BY <1>1, <3>1, <3>2, RestingAccounted
  <2> QED
    BY <2>3, <2>4
<1>5. ASSUME Waiting(m), NEW next, next = r \/ next = Failed(c),
             rpc' = [rpc EXCEPT ![c] = next],
             flight' = (flight \ {m}) \cup Sent(c, next)
      PROVE  \A d \in Calls : AttemptInv(d)'
  <2>1. Proceeds(c, next) \/ Ends(c, next)
    BY <1>1, <1>5, MessageIs, FailingEnds DEF Executed, Mints
  <2>2. next \in Rpc
    BY <2>1 DEF Proceeds, Ends
  <2>3. rpc'[c] = next /\ \A d \in Calls \ {c} : Rests(d)
    BY <1>1, <1>3, <1>5, <2>2 DEF IInv, TypeOK, Rests
  <2>4. /\ Allowance(c) \in Nat /\ Allowance(c)' \in Nat
        /\ Allowance(c) <= Allowance(c)'
        /\ next.pc = "addToken" => Allowance(c) + 1 <= Allowance(c)'
    BY <1>1, <2>1, <2>3, AllowanceGrows
  <2>5. IF next.pc = "addToken"
          THEN \E e : Sends(c)' \subseteq kept \cup {e}
          ELSE Sends(c)' \subseteq kept
    <3>1. flight \ {m} \in SUBSET flight
      OBVIOUS
    <3> QED
      BY <1>1, <1>5, <2>2, <3>1, SendsGrow
  <2>6. AttemptInv(c)'
    <3>1. kept \subseteq Sends(c)
      OBVIOUS
    <3>2. CASE next.pc = "addToken"
      <4>1. /\ \E e : Sends(c)' \subseteq kept \cup {e}
            /\ Allowance(c) + 1 <= Allowance(c)' /\ 1 \in {0, 1}
        BY <2>4, <2>5, <3>2
      <4> HIDE DEF c, kept
      <4> QED
        BY <1>1, <1>2, <2>4, <3>1, <4>1, Accounted
    <3>3. CASE next.pc # "addToken"
      <4>1. /\ Sends(c)' \subseteq kept
            /\ Allowance(c) + 0 <= Allowance(c)' /\ 0 \in {0, 1}
        BY <2>4, <2>5, <3>3
      <4> HIDE DEF c, kept
      <4> QED
        BY <1>1, <1>2, <2>4, <3>1, <4>1, Accounted
    <3> QED
      BY <3>2, <3>3
  <2>7. \A d \in Calls \ {c} : AttemptInv(d)'
    <3>1. flight' \subseteq flight \cup Sent(c, next)
      BY <1>5
    <3> QED
      BY <1>1, <2>2, <2>3, <3>1, AllowanceIs, RestingAccounted DEF IInv
  <2> QED
    BY <2>6, <2>7
<1> QED
  BY <1>4, <1>5 DEF Reply

(* A call that begins, or whose caller or process goes, sends nothing.     *)
LEMMA QuietAccounted ==
  ASSUME IInv, \A c \in Calls : AttemptInv(c), NEW c \in Calls,
         \/ Disconnect(c) \/ Crash(c)
         \/ \E op \in Ops, u \in Humans \cup {NoHuman},
               p \in Pats \cup {NoPat} : Begin(c, op, u, p)
  PROVE  \A d \in Calls : AttemptInv(d)'
<1>1. flight' = flight /\ minted' = minted
  BY DEF Disconnect, Crash, Begin
<1>2. TypeOK /\ rpc[c].try \in Tries
  BY DEF IInv, TypeOK, Rpc
<1>3. /\ \A d \in Calls \ {c} : rpc'[d] = rpc[d]
      /\ \/ rpc'[c].pc = rpc[c].pc /\ rpc'[c].try = rpc[c].try
         \/ rpc'[c].pc = "dead"
         \/ rpc[c].pc = "new" /\ rpc'[c].pc \in {"done", "search"}
  <2>1. PICK o \in Rpc : o = rpc[c]
    BY <1>2 DEF TypeOK
  <2>2. ASSUME NEW next, rpc' = [rpc EXCEPT ![c] = next]
        PROVE  rpc'[c] = next /\ \A d \in Calls \ {c} : rpc'[d] = rpc[d]
    BY <1>2, <2>2 DEF TypeOK
  <2>3. CASE Disconnect(c) \/ Crash(c)
    <3>1. PICK next : /\ rpc' = [rpc EXCEPT ![c] = next]
                      /\ \/ next = [o EXCEPT !.gone = TRUE]
                         \/ next = [o EXCEPT !.pc = "dead"]
      BY <2>1, <2>3 DEF Disconnect, Crash
    <3>2. (next.pc = o.pc /\ next.try = o.try) \/ next.pc = "dead"
      BY <3>1 DEF Rpc
    <3> QED
      BY <2>1, <2>2, <3>1, <3>2
  <2>4. ASSUME NEW op \in Ops, NEW u \in Humans \cup {NoHuman},
               NEW p \in Pats \cup {NoPat}, Begin(c, op, u, p)
        PROVE  /\ \A d \in Calls \ {c} : rpc'[d] = rpc[d]
               /\ rpc[c].pc = "new" /\ rpc'[c].pc \in {"done", "search"}
    <3> DEFINE called == [o EXCEPT !.op = op, !.user = u, !.pat = p]
    <3>1. PICK next :
            /\ rpc' = [rpc EXCEPT ![c] = next]
            /\ \/ \E result :
                    next = [called EXCEPT !.pc = "done", !.result = result]
               \/ \E known :
                    next = [called EXCEPT !.pc = "search", !.known = known]
      <4> DEFINE mine == {q \in PatsOf(u) : op = "list"}
      <4>1. called = [rpc[c] EXCEPT !.op = op, !.user = u, !.pat = p]
        BY <2>1 DEF called
      <4>2. \/ rpc' = [rpc EXCEPT ![c] =
                 [called EXCEPT !.pc = "done",
                     !.result = "missing X-Auth-Request-User header"]]
            \/ rpc' = [rpc EXCEPT ![c] =
                 [called EXCEPT !.pc = "done",
                     !.result = "invalid expiration date"]]
            \/ rpc' = [rpc EXCEPT ![c] =
                 [called EXCEPT !.pc = "search", !.known = mine]]
        BY <2>4, <4>1 DEF Begin, called, mine
      <4> HIDE DEF called, mine
      <4> QED
        BY <4>2
    <3>2. next.pc \in {"done", "search"}
      BY <3>1 DEF Rpc
    <3>3. rpc[c].pc = "new"
      BY <2>4 DEF Begin
    <3> QED
      BY <2>2, <3>1, <3>2, <3>3
  <2> QED
    BY <2>3, <2>4
<1>4. \A d \in Calls : Allowance(d) \in Nat /\ Allowance(d) <= Allowance(d)'
                       /\ Allowance(d)' \in Nat
  <2>1. \A d \in Calls : Allowance(d) \in Nat
    BY <1>2, AllowanceIs
  <2>2. Allowance(c) <= Allowance(c)' /\ Allowance(c)' \in Nat
    BY <1>2, <1>3 DEF Allowance, Over, Tries
  <2>3. \A d \in Calls \ {c} : Allowance(d)' = Allowance(d)
    BY <1>3 DEF Allowance
  <2> QED
    BY <2>1, <2>2, <2>3
<1> SUFFICES ASSUME NEW d \in Calls PROVE AttemptInv(d)'
  OBVIOUS
<1>5. Sends(d)' \subseteq Sends(d) /\ minted'[d] = minted[d]
  BY <1>1 DEF Sends
<1>6. 0 \in {0, 1} /\ Allowance(d) + 0 <= Allowance(d)'
  BY <1>4
<1> QED
  BY <1>4, <1>5, <1>6, Accounted

-----------------------------------------------------------------------------
(* The theorems.                                                           *)

(* All calls begin within the invariant.                                    *)
LEMMA InitSafe == Init => IInv
<1> SUFFICES ASSUME Init PROVE IInv
  OBVIOUS
<1>1. Fresh \in Rpc
  BY DEF Fresh, Rpc, Ops, Tries, Results
<1>2. /\ Fresh.pc = "new" /\ Fresh.result = "none" /\ Fresh.answer = {}
      /\ Fresh.misled = FALSE
  BY DEF Fresh
<1>3. TypeOK
  BY <1>1 DEF Init, TypeOK
<1>4. ASSUME NEW c \in Calls
      PROVE  CallInv(c) /\ PatInv(c)
  <2>1. /\ rpc[c].pc = "new" /\ rpc[c].result = "none"
        /\ rpc[c].answer = {} /\ rpc[c].misled = FALSE /\ minted[c] = {}
    BY <1>2 DEF Init
  <2> QED
    BY <2>1 DEF CallInv, PatInv, Active, Reading, Writing, Succeeded, Conflict
<1>5. OwnedInv /\ flight = {}
  BY DEF Init, OwnedInv
<1> QED
  BY <1>3, <1>4, <1>5 DEF IInv

(* Every step keeps the invariant.                                          *)
LEMMA NextSafe == IInv /\ [Next]_vars => IInv'
<1> SUFFICES ASSUME IInv, [Next]_vars PROVE IInv'
  OBVIOUS
<1>1. ASSUME NEW c \in Calls, NEW op \in Ops, NEW u \in Humans \cup {NoHuman},
             NEW p \in Pats \cup {NoPat}, Begin(c, op, u, p)
      PROVE  IInv'
  BY <1>1, BeginSafe
<1>2. ASSUME NEW c \in Calls, Step(c) \/ Disconnect(c) \/ Crash(c)
      PROVE  IInv'
  BY <1>2, StepMoves, MovingSafe, LeavingSafe
<1>3. ASSUME NEW m \in flight, Execute(m)
      PROVE  IInv'
  BY <1>3, ExecuteExecuted, ExecutedSafe
<1>4. CASE UNCHANGED vars
  <2>1. \A c \in Calls : CallInv(c)' /\ PatInv(c)'
    <3>1. WorldMoves /\ \A c \in Calls : Rests(c)
      BY <1>4 DEF vars, WorldMoves, Rests
    <3> QED
      BY <3>1, RestingSafe
  <2> QED
    BY <1>4, <2>1 DEF IInv, TypeOK, MsgInv, OwnedInv, vars
<1> QED
  BY <1>1, <1>2, <1>3, <1>4 DEF Next

(* The inductive invariant holds.                                          *)
THEOREM Safety == Spec => []IInv
BY InitSafe, NextSafe, PTL DEF Spec

(* Calls, messages and the data of ZITADEL stay within their types.        *)
THEOREM TypeCorrect == Spec => []TypeOK
<1>1. IInv => TypeOK
  BY DEF IInv
<1> QED
  BY <1>1, Safety, PTL

(* CreatePAT succeeds only when a PAT was minted for this call and its     *)
(* caller, and hands over that PAT or, if the answer lacked it, none.      *)
THEOREM CreationIsOwn == Spec => []CreatedIsOwn
<1>1. IInv => CreatedIsOwn
  BY DEF IInv, PatInv, CreatedIsOwn
<1> QED
  BY <1>1, Safety, PTL

(* A call mints one PAT per attempt at most, however late they are         *)
(* executed.                                                               *)
THEOREM MintsAreBounded == Spec => []MintBound
<1> DEFINE Attempts == \A c \in Calls : AttemptInv(c)
<1>1. Init => Attempts
  <2> SUFFICES ASSUME Init, NEW c \in Calls
               PROVE  AttemptInv(c)
    OBVIOUS
  <2>1. Sends(c) = {} /\ minted[c] = {} /\ Allowance(c) = 0
    BY DEF Init, Sends, Allowance, Fresh, Over
  <2> QED
    BY <2>1, FS_EmptySet DEF AttemptInv
<1>2. IInv /\ Attempts /\ [Next]_vars => Attempts'
  <2> SUFFICES ASSUME IInv, Attempts, [Next]_vars
               PROVE  Attempts'
    OBVIOUS
  <2>1. ASSUME NEW c \in Calls, Step(c)
        PROVE  Attempts'
    BY <2>1, StepMoves, MovingAccounted
  <2>2. ASSUME NEW c \in Calls,
               \/ Disconnect(c) \/ Crash(c)
               \/ \E op \in Ops, u \in Humans \cup {NoHuman},
                     p \in Pats \cup {NoPat} : Begin(c, op, u, p)
        PROVE  Attempts'
    BY <2>2, QuietAccounted
  <2>3. ASSUME NEW m \in flight, Execute(m)
        PROVE  Attempts'
    BY <2>3, ExecuteExecuted, ExecutedAccounted
  <2>4. CASE UNCHANGED vars
    BY <2>4 DEF AttemptInv, Sends, Allowance, vars
  <2> QED
    BY <2>1, <2>2, <2>3, <2>4 DEF Next
<1>3. IInv /\ Attempts => MintBound
  <2> SUFFICES ASSUME IInv, Attempts, NEW c \in Calls
               PROVE  Cardinality(minted[c]) <= Retry + 1
    BY DEF MintBound
  <2>1. AttemptInv(c) /\ rpc[c].try \in Tries
    BY DEF IInv, TypeOK, Rpc
  <2>2. Cardinality(minted[c]) \in Nat /\ Cardinality(Sends(c)) \in Nat
    BY <2>1, FS_CardinalityType DEF AttemptInv
  <2> QED
    BY <2>1, <2>2 DEF AttemptInv, Allowance, Tries
<1> HIDE DEF Attempts
<1> QED
  BY <1>1, <1>2, <1>3, Safety, PTL DEF Spec

(* What the callers see: the calls of the registry.                        *)
Shown == [c \in Calls |-> Seen(rpc[c])]

(* What is seen of a record.                                               *)
LEMMA SeenIs ==
  ASSUME NEW r
  PROVE  /\ Seen(r) = [state |-> State(r), op |-> r.op, user |-> r.user,
                       pat |-> r.pat, answer |-> r.answer]
         /\ Seen(r).state = State(r) /\ Seen(r).op = r.op
         /\ Seen(r).user = r.user /\ Seen(r).pat = r.pat
         /\ r.pc = "new" => State(r) = "new"
         /\ r.pc \in Reading \cup Writing => State(r) = "open"
         /\ r.pc = "dead" => State(r) = "lost"
BY DEF Seen, State, Reading, Writing

(* A call that is misled is seen to be, unless it fails.                   *)
LEMMA MisledIs ==
  ASSUME NEW r, r.pc = "done", FoundNothing(r)
  PROVE  State(r) = "misled"
BY DEF State, Reading, Writing

(* What is seen of any other call that has been answered.                  *)
LEMMA AnsweredIs ==
  ASSUME NEW r, r.pc = "done", ~ FoundNothing(r)
  PROVE  /\ r.result = "ok" => State(r) = "ok"
         /\ r.result = "machine user not found" => State(r) = "not found"
         /\ r.result \in Refusals => State(r) = "refused"
         /\ r.result \notin Refusals \cup {"ok", "machine user not found"} =>
              State(r) = "failed"
BY DEF State, FoundNothing, Refusals, Reading, Writing

(* What the callers see of a step in which one call becomes r.             *)
LEMMA ShownMoves ==
  ASSUME TypeOK, NEW c \in Calls, NEW r, rpc' = [rpc EXCEPT ![c] = r]
  PROVE  /\ Shown' = [Shown EXCEPT ![c] = Seen(r)]
         /\ Seen(r) = Seen(rpc[c]) => Shown' = Shown
<1>1. rpc'[c] = r /\ \A d \in Calls \ {c} : rpc'[d] = rpc[d]
  BY DEF TypeOK
<1>2. Shown' = [d \in Calls |-> Seen(rpc'[d])]
  BY DEF Shown, Seen, State, FoundNothing, Refusals, Reading, Writing
<1>3. Shown = [d \in Calls |-> Seen(rpc[d])]
  BY DEF Shown
<1> QED
  BY <1>1, <1>2, <1>3

(* The call was told so, as the registry has it.                           *)
LEMMA ToldIs ==
  ASSUME TypeOK, NEW c \in Calls, NEW r, rpc' = [rpc EXCEPT ![c] = r],
         Keeps(r, c)
  PROVE  Ledger!Told(c, State(r), r.answer)
<1>1. Shown' = [Shown EXCEPT ![c] = Seen(r)]
  BY ShownMoves
<1>2. Seen(r) = Ledger!Call(State(r), Shown[c].op, Shown[c].user,
                            Shown[c].pat, r.answer)
  BY SeenIs DEF Ledger!Call, Shown, Keeps
<1> QED
  BY <1>1, <1>2 DEF Ledger!Told, Shown

(* The state in which the registry has a call that is under way.           *)
LEMMA OpenIs ==
  ASSUME NEW c \in Calls
  PROVE  /\ Shown[c].state = State(rpc[c]) /\ Shown[c].op = rpc[c].op
         /\ Shown[c].user = rpc[c].user /\ Shown[c].pat = rpc[c].pat
         /\ Active(c) => Shown[c].state = "open"
BY SeenIs DEF Shown, Active

(* A call that proceeds is seen to be as it was.                           *)
LEMMA ProceedingHidden ==
  ASSUME TypeOK, NEW c \in Calls, NEW r, Proceeds(c, r),
         rpc' = [rpc EXCEPT ![c] = r]
  PROVE  Shown' = Shown
<1>1. rpc[c].pc \in Reading \cup Writing /\ r.pc \in Reading \cup Writing
  BY DEF Proceeds, Active, Leads, Reading, Writing
<1>2. Seen(r) = Seen(rpc[c])
  BY <1>1, SeenIs DEF Proceeds, Keeps
<1> QED
  BY <1>2, ShownMoves

(* A call that fails fails in the registry, if nothing else happens.       *)
LEMMA FailingShown ==
  ASSUME IInv, NEW c \in Calls, Active(c), NEW r, Ends(c, r),
         r.result \notin {"ok", "machine user not found"},
         rpc' = [rpc EXCEPT ![c] = r]
  PROVE  Shown[c].state = "open" /\ Ledger!Told(c, "failed", {})
<1>1. State(r) = "failed" /\ r.answer = {}
  BY AnsweredIs DEF Ends, FoundNothing
<1>2. Ledger!Told(c, State(r), r.answer)
  BY ToldIs DEF IInv, Ends
<1> QED
  BY <1>1, <1>2, OpenIs

(* A step of the registry, or one that is not seen there.                  *)
Maps == Ledger!Next \/ UNCHANGED Ledger!vars

(* The registry counts as we do.                                           *)
LEMMA CountsIs == \A S : Ledger!Cardinality(S) = Cardinality(S)
BY DEF Cardinality, Ledger!Cardinality

(* A call that begins begins in the registry, or is refused there.         *)
LEMMA BeginMaps ==
  ASSUME IInv, NEW c \in Calls, NEW op \in Ops, NEW u \in Humans \cup {NoHuman},
         NEW p \in Pats \cup {NoPat}, Begin(c, op, u, p)
  PROVE  Maps
<1>1. PICK r \in Rpc :
        /\ rpc' = [rpc EXCEPT ![c] = r]
        /\ r.op = op /\ r.user = u /\ r.pat = p
        /\ r.answer = rpc[c].answer /\ r.misled = rpc[c].misled
        /\ \/ r.pc = "done" /\ r.result \in Refusals
           \/ r.pc = "search" /\ r.result = rpc[c].result /\ u # NoHuman
  BY BeginIs DEF IInv
<1>2. /\ rpc[c].pc = "new" /\ rpc[c].answer = {} /\ rpc[c].misled = FALSE
      /\ UNCHANGED <<owner, live, minted>>
  BY DEF Begin, IInv, CallInv
<1>3. Shown[c].state = "new"
  BY <1>2, SeenIs, OpenIs
<1>4. \/ State(r) = "refused"
      \/ State(r) = "open" /\ u \in Humans
  BY <1>1, <1>2, SeenIs, AnsweredIs DEF Reading, FoundNothing
<1>5. Shown' = [Shown EXCEPT ![c] = Ledger!Call(State(r), op, u, p, {})]
  <2>1. Seen(r) = Ledger!Call(State(r), op, u, p, {})
    BY <1>1, <1>2, SeenIs DEF Ledger!Call
  <2>2. TypeOK
    BY DEF IInv
  <2>3. Shown' = [Shown EXCEPT ![c] = Seen(r)]
    BY <1>1, <2>2, ShownMoves
  <2> QED
    BY <2>1, <2>3
<1>6. Ledger!Begin(c, State(r), op, u, p)
  BY <1>2, <1>3, <1>4, <1>5 DEF Ledger!Begin, Shown
<1> QED
  BY <1>4, <1>6 DEF Maps, Ledger!Next, Ops

(* A call that moves by itself is not seen to, or ends.                    *)
LEMMA MovingMaps ==
  ASSUME IInv, NEW c \in Calls, CallMoves(c)
  PROVE  Maps
<1>1. PICK r : /\ rpc' = [rpc EXCEPT ![c] = r]
               /\ \/ Proceeds(c, r)
                  \/ Ends(c, r) /\ (r.result = "ok" => r.op = "list")
  BY DEF CallMoves, Becomes
<1>2. UNCHANGED <<owner, live, minted>> /\ TypeOK
  BY DEF CallMoves, IInv
<1>3. CASE Proceeds(c, r)
  <2>1. Shown' = Shown
    BY <1>1, <1>2, <1>3, ProceedingHidden
  <2> QED
    BY <1>2, <2>1 DEF Maps, Ledger!vars, Shown
<1>4. CASE Ends(c, r)
  <2>1. /\ Active(c) /\ Keeps(r, c) /\ r.pc = "done" /\ r.result \notin Refusals
        /\ Ledger!Told(c, State(r), r.answer)
    BY <1>1, <1>2, <1>4, ToldIs DEF Ends
  <2>2. Shown[c].state = "open" /\ Shown[c].op = r.op /\ Shown[c].user = r.user
    BY <2>1, OpenIs DEF Keeps
  <2>3. CASE FoundNothing(r)
    <3>1. State(r) = "misled" /\ r.answer = {}
      BY <1>4, <2>1, <2>3, MisledIs DEF Ends, FoundNothing
    <3>2. \/ r.op = "list" /\ PatsOf(rpc[c].user) # {}
          \/ r.op = "delete"
      BY <1>1, <1>4, <2>1, <2>3 DEF Ends, FoundNothing, Proceeds, Leads
    <3>3. PatsOf(rpc[c].user) = Ledger!PatsOf(Shown[c].user)
      BY <2>1, <2>2 DEF PatsOf, Ledger!PatsOf, Keeps
    <3>4. Ledger!Mislead(c)
      BY <1>2, <2>1, <2>2, <3>1, <3>2, <3>3 DEF Ledger!Mislead, Shown
    <3> QED
      BY <3>4 DEF Maps, Ledger!Next
  <2>4. CASE r.result = "ok" /\ ~ FoundNothing(r)
    <3>1. State(r) = "ok" /\ r.op = "list" /\ r.user = rpc[c].user
      BY <1>1, <1>4, <2>1, <2>4, AnsweredIs DEF Proceeds, Leads, Keeps
    <3>2. Lists(c, r.answer)
      BY <1>4, <2>4, <3>1 DEF Ends, FoundNothing
    <3>3. PatsOf(rpc[c].user) = Ledger!PatsOf(Shown[c].user)
      BY <2>2, <3>1 DEF PatsOf, Ledger!PatsOf
    <3>4. /\ r.answer \in SUBSET Ledger!PatsOf(Shown[c].user)
          /\ Ledger!Cardinality(r.answer) <= Limit
          /\ \/ r.answer = Ledger!PatsOf(Shown[c].user)
             \/ Ledger!Cardinality(r.answer) = Limit
      BY <3>2, <3>3, CountsIs DEF Lists
    <3>5. Ledger!List(c)
      BY <1>2, <2>1, <2>2, <3>1, <3>4 DEF Ledger!List, Shown
    <3> QED
      BY <3>5 DEF Maps, Ledger!Next
  <2>5. CASE r.result = "machine user not found" /\ ~ FoundNothing(r)
    <3>1. /\ State(r) = "not found" /\ r.answer = {} /\ r.op = "delete"
          /\ \A p \in Pats : owner[p] # r.user
      BY <1>4, <2>1, <2>5, AnsweredIs DEF Ends, FoundNothing
    <3>2. Ledger!NotFound(c)
      BY <1>2, <2>1, <2>2, <3>1 DEF Ledger!NotFound, Shown
    <3> QED
      BY <3>2 DEF Maps, Ledger!Next
  <2>6. CASE r.result \notin {"ok", "machine user not found"}
    <3>1. Shown[c].state = "open" /\ Ledger!Told(c, "failed", {})
      BY <1>1, <1>4, <2>1, <2>6, FailingShown
    <3>2. Ledger!Fail(c, "failed")
      BY <1>2, <3>1 DEF Ledger!Fail, Shown
    <3> QED
      BY <3>2 DEF Maps, Ledger!Next
  <2> QED
    BY <2>3, <2>4, <2>5, <2>6
<1> QED
  BY <1>1, <1>3, <1>4

(* A caller who leaves is not seen to; one whose call dies is not told.    *)
LEMMA LeavingMaps ==
  ASSUME IInv, NEW c \in Calls, Disconnect(c) \/ Crash(c)
  PROVE  Maps
<1>1. PICK r \in Rpc :
        /\ rpc' = [rpc EXCEPT ![c] = r] /\ r.pc \in {rpc[c].pc, "dead"}
        /\ r.op = rpc[c].op /\ r.user = rpc[c].user /\ r.pat = rpc[c].pat
        /\ r.machine = rpc[c].machine /\ r.result = rpc[c].result
        /\ r.answer = rpc[c].answer /\ r.misled = rpc[c].misled
  BY LeavingIs DEF IInv
<1>2. /\ Active(c) /\ UNCHANGED <<owner, live, minted>>
      /\ TypeOK /\ rpc[c].answer = {}
  BY DEF Disconnect, Crash, IInv, CallInv, Active, Reading, Writing
<1>3. CASE r.pc = rpc[c].pc
  <2>1. State(r) = "open" /\ State(rpc[c]) = "open"
    BY <1>2, <1>3, SeenIs DEF Active
  <2>2. Seen(r) = Seen(rpc[c])
    BY <1>1, <2>1, SeenIs
  <2>3. Shown' = Shown
    BY <1>1, <1>2, <2>2, ShownMoves
  <2> QED
    BY <1>2, <2>3 DEF Maps, Ledger!vars, Shown
<1>4. CASE r.pc = "dead"
  <2>1. Shown' = [Shown EXCEPT ![c] = Seen(r)]
    BY <1>1, <1>2, ShownMoves
  <2>2. Seen(r) = Ledger!Call("lost", Shown[c].op, Shown[c].user, Shown[c].pat,
                              {})
    BY <1>1, <1>2, <1>4, SeenIs, OpenIs DEF Ledger!Call
  <2>3. Shown[c].state = "open"
    BY <1>2, OpenIs
  <2>4. Ledger!Fail(c, "lost")
    BY <1>2, <2>1, <2>2, <2>3 DEF Ledger!Fail, Ledger!Told, Shown
  <2> QED
    BY <2>4 DEF Maps, Ledger!Next
<1> QED
  BY <1>1, <1>3, <1>4

(* A call with a message under way has been attempted, as the registry has *)
(* it, and its caller is a human.                                          *)
LEMMA MessageShown ==
  ASSUME IInv, NEW m \in flight
  PROVE  /\ m.call \in Calls /\ Ledger!Attempted(m.call)
         /\ Waiting(m) => Active(m.call) /\ Shown[m.call].state = "open"
<1> DEFINE c == m.call
           r == rpc[c]
<1>1. /\ c \in Calls /\ m.pc \in Writing /\ MsgInv(m)
      /\ Waiting(m) => Active(c)
  BY MessageIs
<1>2. /\ r.pc \in Reading \cup Writing \cup Over
      /\ r.result \notin Refusals \cup {"machine user not found"}
  BY <1>1 DEF MsgInv, Reading, Writing, Over
<1>3. State(r) \in {"open", "ok", "failed", "misled", "lost"}
  BY <1>2, SeenIs, AnsweredIs, MisledIs DEF Over
<1> QED
  BY <1>1, <1>3, OpenIs DEF Ledger!Attempted, Shown

(* What the callers see of a reply that ends a call, or does not arrive.   *)
LEMMA ReplyShown ==
  ASSUME IInv, NEW m \in flight, NEW r, Reply(m, r),
         Waiting(m) => Ends(m.call, r) /\ r.result = "ok",
         \A p \in minted'[m.call] : owner'[p] = rpc[m.call].user
  PROVE  \/ /\ Waiting(m) /\ Shown[m.call].state = "open"
            /\ \/ ~ r.misled /\ Ledger!Told(m.call, "ok", r.answer)
               \/ r.misled /\ Ledger!Told(m.call, "misled", {})
               \/ Ledger!Told(m.call, "failed", {})
         \/ Shown' = Shown
<1> DEFINE c == m.call
<1>1. c \in Calls /\ TypeOK /\ (Waiting(m) => Active(c))
  BY MessageIs DEF IInv
<1>2. CASE rpc' = rpc
  BY <1>2 DEF Shown, Seen, State, FoundNothing, Refusals, Reading, Writing
<1>3. ASSUME Waiting(m), rpc' = [rpc EXCEPT ![c] = r]
      PROVE  /\ Shown[c].state = "open"
             /\ \/ ~ r.misled /\ Ledger!Told(c, "ok", r.answer)
                \/ r.misled /\ Ledger!Told(c, "misled", {})
  <2>1. /\ ~ r.misled => State(r) = "ok"
        /\ r.misled => State(r) = "misled" /\ r.answer = {}
        /\ Keeps(r, c)
    BY <1>3, AnsweredIs, MisledIs DEF Ends, FoundNothing
  <2>2. Ledger!Told(c, State(r), r.answer)
    BY <1>1, <1>3, <2>1, ToldIs
  <2> QED
    BY <1>1, <1>3, <2>1, <2>2, OpenIs
<1>4. ASSUME Waiting(m), rpc' = [rpc EXCEPT ![c] = Failed(c)]
      PROVE  Shown[c].state = "open" /\ Ledger!Told(c, "failed", {})
  <2>1. /\ Ends(c, Failed(c)) /\ Failed(c).result = "failed"
        /\ ~ Failed(c).misled
    BY <1>1, <1>4, FailingEnds
  <2> QED
    BY <1>1, <1>4, <2>1, FailingShown
<1> QED
  BY <1>2, <1>3, <1>4 DEF Reply

(* The registry knows nothing of machine users.                            *)
LEMMA CreateUserMaps ==
  ASSUME IInv, NEW m \in flight, CreateUser(m)
  PROVE  Maps
<1> DEFINE c == m.call
           u == rpc[c].user
<1>1. /\ c \in Calls /\ TypeOK /\ PatInv(c) /\ u \in Humans
      /\ Waiting(m) => Active(c)
      /\ UNCHANGED <<owner, live, minted>>
  BY MessageIs DEF IInv, CreateUser
<1>2. PICK r : /\ Reply(m, r)
               /\ \/ r = Writes(c, "addToken", u)
                  \/ r = Reads(c, "research", NoHuman)
  BY DEF CreateUser
<1>3. /\ Keeps(r, c) /\ r.pc \in Reading \cup Writing
      /\ r.answer = rpc[c].answer
  BY <1>1, <1>2, WritesIs, ReadsIs DEF Reading, Writing
<1>4. CASE rpc' = rpc \/ (Waiting(m) /\ rpc' = [rpc EXCEPT ![c] = r])
  <2>1. CASE rpc' = rpc
    BY <1>1, <2>1 DEF Maps, Ledger!vars, Seen, State, FoundNothing,
                      Refusals, Reading, Writing
  <2>2. CASE Waiting(m) /\ rpc' = [rpc EXCEPT ![c] = r]
    <3>1. State(r) = "open" /\ State(rpc[c]) = "open"
      BY <1>1, <1>3, <2>2, SeenIs DEF Active
    <3>2. Seen(r) = Seen(rpc[c])
      BY <1>3, <3>1, SeenIs DEF Keeps
    <3>3. Shown' = Shown
      BY <1>1, <2>2, <3>2, ShownMoves
    <3> QED
      BY <1>1, <3>3 DEF Maps, Ledger!vars, Shown
  <2> QED
    BY <1>4, <2>1, <2>2
<1>5. ASSUME Waiting(m), rpc' = [rpc EXCEPT ![c] = Failed(c)]
      PROVE  Maps
  <2>1. /\ Ends(c, Failed(c)) /\ Failed(c).result = "failed"
        /\ ~ Failed(c).misled
    BY <1>1, <1>5, FailingEnds DEF PatInv
  <2>2. Shown[c].state = "open" /\ Ledger!Told(c, "failed", {})
    BY <1>1, <1>5, <2>1, FailingShown
  <2>3. Ledger!Fail(c, "failed")
    BY <1>1, <2>2 DEF Ledger!Fail, Shown
  <2> QED
    BY <1>1, <2>3 DEF Maps, Ledger!Next
<1> QED
  BY <1>2, <1>4, <1>5 DEF Reply

(* What CreatePAT becomes by the reply to a PAT that was minted for it.     *)
LEMMA TokenAnswered ==
  ASSUME TypeOK, NEW c \in Calls, NEW p \in Pats, NEW r,
         r = Returned(c, "ok", {p}) \/ r = Nothing(c, "ok", TRUE)
  PROVE  /\ r \in Rpc /\ Keeps(r, c) /\ r.pc = "done" /\ r.result = "ok"
         /\ r.machine = rpc[c].machine
         /\ \/ r.answer = {p} /\ r.misled = rpc[c].misled
            \/ r.answer = {} /\ r.misled = TRUE
<1>1. "ok" \in Results /\ {p} \in SUBSET Pats
  BY DEF Results
<1>2. CASE r = Returned(c, "ok", {p})
  <2>1. /\ r \in Rpc /\ Keeps(r, c) /\ r.pc = "done" /\ r.result = "ok"
        /\ r.machine = rpc[c].machine
        /\ r.answer = {p} /\ r.misled = rpc[c].misled
    BY <1>1, <1>2, ReturnedIs
  <2> QED
    BY <2>1
<1>3. CASE r = Nothing(c, "ok", TRUE)
  <2>1. /\ r \in Rpc /\ Keeps(r, c) /\ r.pc = "done" /\ r.result = "ok"
        /\ r.machine = rpc[c].machine
        /\ r.answer = {} /\ r.misled = TRUE
    BY <1>3, MisledByNothing
  <2> QED
    BY <2>1
<1> QED
  BY <1>2, <1>3

(* A PAT that is minted is created in the registry for the call, who may   *)
(* have been told of a failure before, or is told of one now.              *)
LEMMA AddTokenMaps ==
  ASSUME IInv, MintBound', NEW m \in flight, AddToken(m)
  PROVE  Maps
<1> DEFINE c == m.call
           u == rpc[c].user
<1>1. /\ c \in Calls /\ TypeOK /\ PatInv(c) /\ u \in Humans
      /\ rpc[c].op = "create" /\ rpc[c].machine = u
      /\ Waiting(m) => rpc[c].pc = "addToken" /\ Active(c)
  BY MessageIs DEF IInv, MsgInv, AddToken
<1>2. PICK p \in Pats :
        /\ owner[p] = NoHuman
        /\ owner' = [owner EXCEPT ![p] = u]
        /\ live' = live \cup {p}
        /\ minted' = [minted EXCEPT ![c] = @ \cup {p}]
        /\ Reply(m, Returned(c, "ok", {p})) \/ Reply(m, Nothing(c, "ok", TRUE))
  BY <1>1 DEF AddToken
<1>3. /\ minted'[c] = minted[c] \cup {p} /\ p \notin minted[c]
      /\ \A q \in minted'[c] : owner'[q] = u
  BY <1>1, <1>2 DEF PatInv, TypeOK
<1>4. Cardinality(minted[c]) < Retry + 1
  <2>1. IsFiniteSet(minted[c])
    BY <1>1, CallsAssumption, FS_Subset DEF TypeOK
  <2>2. /\ Cardinality(minted[c]) \in Nat
        /\ Cardinality(minted'[c]) = Cardinality(minted[c]) + 1
    BY <1>3, <2>1, FS_CardinalityType, FS_AddElement
  <2>3. Cardinality(minted'[c]) <= Retry + 1
    BY <1>1 DEF MintBound
  <2> QED
    BY <2>2, <2>3
<1>5. PICK r : /\ Reply(m, r)
               /\ r = Returned(c, "ok", {p}) \/ r = Nothing(c, "ok", TRUE)
  BY <1>2
<1>6. /\ r \in Rpc /\ Keeps(r, c) /\ r.pc = "done" /\ r.result = "ok"
      /\ r.machine = rpc[c].machine
      /\ \/ r.answer = {p} /\ r.misled = rpc[c].misled
         \/ r.answer = {} /\ r.misled = TRUE
  BY <1>1, <1>2, <1>5, TokenAnswered
<1>7. Waiting(m) => Ends(c, r) /\ r.result = "ok"
  <2> SUFFICES ASSUME Waiting(m) PROVE Ends(c, r)
    BY <1>6
  <2>1. rpc[c].misled = FALSE /\ p \in minted'[c]
    BY <1>1, <1>3 DEF IInv, CallInv
  <2>2. r.answer = IF r.misled THEN {} ELSE {p}
    BY <1>6, <2>1
  <2>3. r.misled => r.answer = {}
    BY <2>2
  <2> QED
    BY <1>1, <1>3, <1>6, <2>1, <2>2, <2>3 DEF Ends, Keeps, Conflict, Refusals
<1>8. \/ /\ Shown[c].state = "open"
         /\ \/ Ledger!Told(c, "ok", {p}) \/ Ledger!Told(c, "misled", {})
            \/ Ledger!Told(c, "failed", {})
      \/ Shown' = Shown
  <2>1. ~ r.misled => r.answer = {p}
    BY <1>6
  <2> QED
    BY <1>3, <1>5, <1>7, <2>1, ReplyShown
<1>9. /\ Ledger!Attempted(c) /\ Shown[c].op = "create" /\ Shown[c].user = u
      /\ Ledger!Cardinality(minted[c]) < Retry + 1
  BY <1>1, <1>4, MessageShown, OpenIs, CountsIs
<1>10. Ledger!Create(c, p)
  BY <1>2, <1>8, <1>9 DEF Ledger!Create, Shown
<1> QED
  BY <1>1, <1>10 DEF Maps, Ledger!Next

(* A PAT that is removed is deleted in the registry by its owner's call.   *)
LEMMA RemoveTokenMaps ==
  ASSUME IInv, NEW m \in flight, RemoveToken(m)
  PROVE  Maps
<1> DEFINE c == m.call
           r == rpc[c]
<1>1. /\ c \in Calls /\ TypeOK /\ PatInv(c)
      /\ r.op = "delete" /\ r.machine = r.user
      /\ Waiting(m) => Active(c)
  BY MessageIs DEF IInv, MsgInv, RemoveToken
<1>2. /\ r.pat \in PatsOf(r.user) /\ r.pat \in live
      /\ owner[r.pat] = r.user
      /\ live' = live \ {r.pat}
      /\ Reply(m, Returned(c, "ok", {}))
      /\ UNCHANGED <<owner, minted>>
  BY <1>1 DEF RemoveToken, PatsOf
<1>3. ASSUME NEW next, next = Returned(c, "ok", {})
      PROVE  /\ next \in Rpc /\ Keeps(next, c) /\ next.pc = "done"
             /\ next.result = "ok" /\ next.answer = {}
             /\ next.machine = r.machine /\ next.misled = r.misled
  <2>1. "ok" \in Results /\ {} \in SUBSET Pats
    BY DEF Results
  <2> QED
    BY <1>1, <1>3, <2>1, ReturnedIs
<1>4. r.pat \in Pats \ live' /\ owner'[r.pat] # NoHuman
  BY <1>1, <1>2 DEF TypeOK, IInv, OwnedInv
<1>5. \A q \in minted'[c] : owner'[q] = r.user
  BY <1>1, <1>2 DEF PatInv
<1>6. Waiting(m) => /\ Ends(c, Returned(c, "ok", {}))
                    /\ Returned(c, "ok", {}).result = "ok"
  BY <1>1, <1>3, <1>4, <1>5 DEF Ends, Keeps, Conflict, Refusals
<1>7. \/ /\ Shown[c].state = "open"
         /\ Ledger!Told(c, "ok", {}) \/ Ledger!Told(c, "failed", {})
      \/ Shown' = Shown
  <2>1. Waiting(m) => r.misled = FALSE
    BY <1>1 DEF IInv, CallInv, Active, Reading, Writing
  <2> QED
    BY <1>2, <1>3, <1>5, <1>6, <2>1, ReplyShown
<1>8. /\ Ledger!Attempted(c) /\ Shown[c].op = "delete"
      /\ Shown[c].user = r.user /\ Shown[c].pat = r.pat
  BY <1>1, MessageShown, OpenIs
<1>9. Ledger!Delete(c)
  BY <1>2, <1>7, <1>8 DEF Ledger!Delete, Ledger!PatsOf, PatsOf, Shown
<1> QED
  BY <1>1, <1>9 DEF Maps, Ledger!Next

(* A refusal is a failure, if anybody hears of it.                         *)
LEMMA RefuseMaps ==
  ASSUME IInv, NEW m \in flight, Refuse(m)
  PROVE  Maps
<1> DEFINE c == m.call
<1>1. /\ c \in Calls /\ PatInv(c)
      /\ Waiting(m) => Active(c)
      /\ UNCHANGED <<owner, live, minted>>
  BY MessageIs DEF Refuse
<1>2. CASE rpc' = rpc
  BY <1>1, <1>2 DEF Maps, Ledger!vars, Seen, State, FoundNothing,
                    Refusals, Reading, Writing
<1>3. ASSUME Waiting(m), rpc' = [rpc EXCEPT ![c] = Failed(c)]
      PROVE  Maps
  <2>1. /\ Ends(c, Failed(c)) /\ Failed(c).result = "failed"
        /\ ~ Failed(c).misled
    BY <1>1, <1>3, FailingEnds DEF PatInv
  <2>2. Shown[c].state = "open" /\ Ledger!Told(c, "failed", {})
    BY <1>1, <1>3, <2>1, FailingShown
  <2>3. Ledger!Fail(c, "failed")
    BY <1>1, <2>2 DEF Ledger!Fail, Shown
  <2> QED
    BY <1>1, <2>3 DEF Maps, Ledger!Next
<1> QED
  BY <1>2, <1>3 DEF Refuse, Reply

(* PAT management is the registry, seen from its callers: conflicts,       *)
(* retries, lost replies and late messages are failures of atomic calls    *)
(* that may have taken effect, and never anything else.                    *)
THEOREM Implementation == Spec => ImplementsRegistry
<1>1. Init => Ledger!Init
  <2> SUFFICES ASSUME Init PROVE Ledger!Init
    OBVIOUS
  <2>1. Seen(Fresh) = Ledger!NotMade
    <3>1. /\ Fresh.pc = "new" /\ Fresh.op = "list" /\ Fresh.user = NoHuman
          /\ Fresh.pat = NoPat /\ Fresh.answer = {}
      BY DEF Fresh
    <3>2. State(Fresh) = "new"
      BY <3>1 DEF State, Reading, Writing
    <3> QED
      BY <3>1, <3>2 DEF Seen, Ledger!NotMade, Ledger!Call
  <2>2. owner \in [Pats -> Humans \cup {NoHuman}]
    BY DEF Init
  <2> QED
    BY <2>1, <2>2 DEF Init, Ledger!Init
<1>2. IInv /\ MintBound' /\ [Next]_vars => [Ledger!Next]_(Ledger!vars)
  <2> SUFFICES ASSUME IInv, MintBound', [Next]_vars
               PROVE  Maps
    BY DEF Maps
  <2>1. ASSUME NEW c \in Calls, NEW op \in Ops, NEW u \in Humans \cup {NoHuman},
               NEW p \in Pats \cup {NoPat}, Begin(c, op, u, p)
        PROVE  Maps
    BY <2>1, BeginMaps
  <2>2. ASSUME NEW c \in Calls, Step(c) \/ Disconnect(c) \/ Crash(c)
        PROVE  Maps
    BY <2>2, StepMoves, MovingMaps, LeavingMaps
  <2>3. ASSUME NEW m \in flight, Execute(m)
        PROVE  Maps
    BY <2>3, CreateUserMaps, AddTokenMaps, RemoveTokenMaps, RefuseMaps
       DEF Execute
  <2>4. CASE UNCHANGED vars
    BY <2>4 DEF vars, Maps, Ledger!vars, Seen, State, FoundNothing,
                Refusals, Reading, Writing
  <2> QED
    BY <2>1, <2>2, <2>3, <2>4 DEF Next
<1> QED
  BY <1>1, <1>2, Safety, MintsAreBounded, PTL
     DEF Spec, ImplementsRegistry, Ledger!Spec

(* A list is as ZITADEL has it, and complete if a page can be; or empty, if *)
(* its caller is misled.                                                    *)
THEOREM ListsAreFaithful == Spec => ListIsFaithful
<1>1. ASSUME IInv, Next, NEW c \in Calls, Active(c), Succeeded(c, "list")'
      PROVE  LET mine == PatsOf(rpc[c].user) IN
               /\ rpc'[c].answer \subseteq mine
               /\ rpc'[c].misled => rpc'[c].answer = {} /\ mine # {}
               /\ ~ rpc'[c].misled /\ Cardinality(mine) <= Limit =>
                    (rpc[c].known \cap mine) \subseteq rpc'[c].answer
  <2> DEFINE mine == PatsOf(rpc[c].user)
  <2>1. Paged(c)
    BY <1>1, Listed
  <2>2. CASE rpc'[c].misled
    BY <2>1, <2>2 DEF Paged
  <2>3. CASE ~ rpc'[c].misled
    <3>1. /\ rpc'[c].answer \subseteq mine
          /\ \/ mine \subseteq rpc'[c].answer
             \/ Cardinality(rpc'[c].answer) = Limit
      BY <2>1, <2>3 DEF Paged, Lists
    <3>2. IsFiniteSet(mine)
      BY <1>1, CallsAssumption, FS_Subset DEF IInv, TypeOK, PatsOf
    <3>3. Cardinality(mine) <= Limit => mine \subseteq rpc'[c].answer
      BY <3>1, <3>2, FS_Subset, FS_CardinalityType
    <3> QED
      BY <2>3, <3>1, <3>3
  <2> QED
    BY <2>2, <2>3
<1>2. IInv /\ [Next]_vars =>
        [\A c \in Calls :
           Active(c) /\ Succeeded(c, "list")' =>
             LET mine == PatsOf(rpc[c].user) IN
               /\ rpc'[c].answer \subseteq mine
               /\ rpc'[c].misled => rpc'[c].answer = {} /\ mine # {}
               /\ ~ rpc'[c].misled /\ Cardinality(mine) <= Limit =>
                    (rpc[c].known \cap mine) \subseteq rpc'[c].answer]_vars
  BY <1>1 DEF vars
<1> QED
  BY <1>2, Safety, PTL DEF Spec, ListIsFaithful

(* No race and no retry makes CreatePAT fail for a conflict of its own,    *)
(* unless its second search is answered 404.                               *)
THEOREM ConflictsAreForeign == Spec => []ConflictIsForeign
<1>1. IInv => ConflictIsForeign
  BY DEF IInv, CallInv, ConflictIsForeign, Conflict
<1> QED
  BY <1>1, Safety, PTL

(* What DeletePAT reported as deleted is not accepted, then or later.      *)
THEOREM DeletionHolds == Spec => []DeletedIsGone
<1>1. IInv => DeletedIsGone
  BY DEF IInv, PatInv, DeletedIsGone
<1> QED
  BY <1>1, Safety, PTL

(* Nobody removes the PAT of another, not even by a message that is late.  *)
THEOREM DeletionIsOwn == Spec => OnlyOwnDeleted
<1>1. ASSUME IInv, Next, NEW p \in live \ live'
      PROVE  \E c \in Calls : /\ rpc[c].op = "delete"
                              /\ rpc[c].pat = p
                              /\ rpc[c].user = owner[p]
  <2>1. PICK m \in flight : RemoveToken(m)
    <3>1. ~ live \subseteq live'
      BY <1>1
    <3>2. ASSUME NEW c \in Calls,
                 \/ \E op \in Ops, u \in Humans \cup {NoHuman},
                       q \in Pats \cup {NoPat} : Begin(c, op, u, q)
                 \/ Step(c) \/ Disconnect(c) \/ Crash(c)
          PROVE  live' = live
      BY <3>2 DEF Begin, Step, GetMachineUser, GetExistingUser, ListTokens,
                  Timeout, Disconnect, Crash
    <3>3. ASSUME NEW m \in flight, CreateUser(m) \/ AddToken(m) \/ Refuse(m)
          PROVE  live \subseteq live'
      BY <3>3 DEF CreateUser, AddToken, Refuse
    <3> QED
      BY <1>1, <3>1, <3>2, <3>3 DEF Next, Execute
  <2>2. m.call \in Calls /\ MsgInv(m) /\ m.pc = "removeToken"
    BY <1>1, <2>1, MessageIs DEF RemoveToken
  <2>3. p = rpc[m.call].pat /\ owner[p] = rpc[m.call].machine
    BY <1>1, <2>1 DEF RemoveToken, PatsOf
  <2> QED
    BY <2>2, <2>3 DEF MsgInv
<1>2. IInv /\ [Next]_vars =>
        [\A p \in live \ live' :
           \E c \in Calls : /\ rpc[c].op = "delete"
                            /\ rpc[c].pat = p
                            /\ rpc[c].user = owner[p]]_vars
  BY <1>1 DEF vars
<1> QED
  BY <1>2, Safety, PTL DEF Spec, OnlyOwnDeleted
=============================================================================

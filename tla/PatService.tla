----------------------------- MODULE PatService -----------------------------
(***************************************************************************)
(* PAT management: the Connect handlers CreatePAT, ListPATs and DeletePAT, *)
(* the domain service behind them, and the ZITADEL client with its retries.*)
(*                                                                         *)
(* The service keeps nothing.  All that lasts is at ZITADEL: machine       *)
(* users, at most one per human, whose username is the human's user ID,    *)
(* and their PATs.  The calls of all replicas meet there.                  *)
(*                                                                         *)
(* What comes back need not say what there is.  A search that is answered  *)
(* 404, by whatever stands before ZITADEL, and an answer without the field *)
(* that holds the result are read as nothing found, and never looked into. *)
(*                                                                         *)
(* A search or a list changes nothing, so it is one step, whatever retries *)
(* it takes.  A request that changes something at ZITADEL is a message: it *)
(* may be executed long after the client gave up on it, and its reply may  *)
(* be lost; the HTTP client then sends another one, Retry times at most.   *)
(* Messages and replies are not otherwise related in time.                 *)
(***************************************************************************)
EXTENDS Naturals, FiniteSets

CONSTANTS
  Calls,    \* the calls of the service, each made once
  Humans,   \* the user IDs the mesh puts into X-Auth-Request-User
  Taken,    \* those ZITADEL knows as usernames of no machine user of the
            \* organization: it refuses to create one, and finds none
  Pats,     \* the PATs there may be
  NoHuman,  \* no user: a missing header, a PAT not yet minted
  NoPat,    \* no PAT: the ID of a PAT that does not exist
  Retry,    \* DefaultRetry
  Limit     \* defaultPersonalAccessTokenPageLimit

ASSUME CallsAssumption == IsFiniteSet(Pats)
ASSUME HumansAssumption == Taken \subseteq Humans /\ NoHuman \notin Humans
ASSUME PatsAssumption == NoPat \notin Pats
ASSUME NumbersAssumption == Retry \in Nat /\ Limit \in Nat

VARIABLES
  rpc,       \* rpc[c]: where call c is
  flight,    \* the messages ZITADEL has yet to execute
  machines,  \* the humans with a machine user at ZITADEL
  owner,     \* owner[p]: whose machine user PAT p was minted for
  live,      \* the PATs ZITADEL accepts
  minted     \* history: minted[c] are the PATs minted on behalf of call c

vars == <<rpc, flight, machines, owner, live, minted>>

Ops == {"create", "list", "delete"}
Reading == {"search", "research", "list"}  \* nothing changes at ZITADEL
Writing == {"createUser", "addToken", "removeToken"}

Results == {"none", "ok", "missing X-Auth-Request-User header",
            "invalid expiration date", "machine user not found",
            "user already exists but could not be retrieved", "failed"}

Tries == 0 .. Retry + 1

Rpc ==
  [pc : Reading \cup Writing \cup {"new", "done", "dead"},
   op : Ops, user : Humans \cup {NoHuman}, pat : Pats \cup {NoPat},
   machine : Humans \cup {NoHuman},
   try : Tries, gone : BOOLEAN, known : SUBSET Pats, answer : SUBSET Pats,
   result : Results,
   misled : BOOLEAN]  \* history: it was answered nothing is there, when
                      \* there was something

Message == [call : Calls, pc : Writing, try : Tries]

Fresh ==
  [pc |-> "new", op |-> "list", user |-> NoHuman, pat |-> NoPat,
   machine |-> NoHuman, try |-> 0, gone |-> FALSE, known |-> {},
   answer |-> {}, result |-> "none", misled |-> FALSE]

(* The PATs of a machine user, which goes by the human it belongs to.      *)
PatsOf(u) == {p \in live : owner[p] = u}

(* Mutant: the query for the username is left out.                         *)
AnyMatches(u) == machines

(* The machine users of the organization that a search for u may return.   *)
Matches(u) == machines \cap {u}

Active(c) == rpc[c].pc \in Reading \cup Writing
Succeeded(c, op) ==
  rpc[c].pc = "done" /\ rpc[c].op = op /\ rpc[c].result = "ok"

Init ==
  /\ rpc = [c \in Calls |-> Fresh]
  /\ flight = {}
  /\ machines \in SUBSET (Humans \ Taken)
  /\ owner \in [Pats -> machines \cup {NoHuman}]
  /\ live = {p \in Pats : owner[p] # NoHuman}
  /\ minted = [c \in Calls |-> {}]

-----------------------------------------------------------------------------
(* How a call moves on: the record it becomes.                             *)

Returned(c, result, answer) ==
  [rpc[c] EXCEPT !.pc = "done", !.try = 0, !.result = result,
                 !.answer = answer]

(* The answer that ends the call holds nothing; misled if something is     *)
(* there.                                                                  *)
Nothing(c, result, misled) ==
  [rpc[c] EXCEPT !.pc = "done", !.try = 0, !.result = result,
                 !.answer = {}, !.misled = misled]

(* Mutant: errors are taken for success.                                   *)
Swallowed(c) == Returned(c, "ok", {})

(* Errors of the client end the call; the handler answers CodeInternal.    *)
Failed(c) == Returned(c, "failed", {})

Reads(c, pc, u) ==
  [rpc[c] EXCEPT !.pc = pc, !.try = 0, !.machine = u]

(* A writing operation starts with its first attempt.                      *)
Writes(c, pc, u) ==
  [rpc[c] EXCEPT !.pc = pc, !.try = 1, !.machine = u]

(* The message a call in such a state sends; none in any other state.      *)
Sent(c, r) ==
  IF r.pc \in Writing THEN {[call |-> c, pc |-> r.pc, try |-> r.try]} ELSE {}

Becomes(c, r) ==
  /\ rpc' = [rpc EXCEPT ![c] = r]
  /\ flight' = flight \cup Sent(c, r)

-----------------------------------------------------------------------------
(* The steps of a call.                                                    *)

(* What a caller may pass for a PAT ID: nothing, or to DeletePAT one that  *)
(* somebody has seen, or one that does not exist.                          *)
Nameable(op) ==
  {NoPat} \cup {p \in Pats : op = "delete" /\ owner[p] # NoHuman}

(* A handler is called.  Without the header it refuses; CreatePAT refuses  *)
(* an expiration date in the past, here or in the domain service.          *)
Begin(c, op, u, p) ==
  /\ rpc[c].pc = "new"
  /\ p \in Nameable(op)
  /\ LET called == [rpc[c] EXCEPT !.op = op, !.user = u, !.pat = p] IN
       \/ /\ u = NoHuman
          /\ rpc' = [rpc EXCEPT ![c] =
               [called EXCEPT !.pc = "done",
                              !.result = "missing X-Auth-Request-User header"]]
       \/ /\ u # NoHuman /\ op = "create"
          /\ rpc' = [rpc EXCEPT ![c] =
               [called EXCEPT !.pc = "done",
                              !.result = "invalid expiration date"]]
       \/ /\ u # NoHuman
          /\ rpc' = [rpc EXCEPT ![c] =
               [called EXCEPT !.pc = "search",
                              !.known = {q \in PatsOf(u) : op = "list"}]]
  /\ UNCHANGED <<flight, machines, owner, live, minted>>

(* GetMachineUserByUsername, the first step of every operation.  A status  *)
(* of 404, like an empty result, is nothing found, and may come though the *)
(* machine user is there: a creation then tries to create it.              *)
GetMachineUser(c) ==
  /\ rpc[c].pc = "search"
  /\ LET op == rpc[c].op
         found == Matches(rpc[c].user) IN
       \/ Becomes(c, Failed(c))
       \/ \E u \in found :
            \/ op = "create" /\ Becomes(c, Writes(c, "addToken", u))
            \/ op = "list" /\ Becomes(c, Reads(c, "list", u))
            \/ op = "delete" /\ Becomes(c, Writes(c, "removeToken", u))
       \/ op = "create" /\ Becomes(c, Writes(c, "createUser", NoHuman))
       \/ /\ op = "list"
          /\ Becomes(c, Nothing(c, "ok", PatsOf(rpc[c].user) # {}))
       \/ /\ op = "delete"
          /\ Becomes(c, Nothing(c, "machine user not found", found # {}))
  /\ UNCHANGED <<machines, owner, live, minted>>

(* CreateMachineUser was told of a conflict and looks for the user that    *)
(* is in its way.  It may be answered 404 for that user, too.              *)
GetExistingUser(c) ==
  /\ rpc[c].pc = "research"
  /\ \/ Becomes(c, Failed(c))
     \/ \E u \in Matches(rpc[c].user) : Becomes(c, Writes(c, "addToken", u))
     \/ Becomes(c, Nothing(c,
          "user already exists but could not be retrieved",
          Matches(rpc[c].user) # {}))
  /\ UNCHANGED <<machines, owner, live, minted>>

(* ListPersonalAccessTokens: one page, of at most Limit PATs; an answer    *)
(* without a result is an empty page.                                      *)
ListTokens(c) ==
  /\ rpc[c].pc = "list"
  /\ \/ Becomes(c, Failed(c))
     \/ LET all == PatsOf(rpc[c].machine) IN
          \E page \in SUBSET all :
            /\ Cardinality(page) <= Limit
            /\ page = all \/ Cardinality(page) = Limit
            /\ Becomes(c, Returned(c, "ok", page))
     \/ Becomes(c, Nothing(c, "ok", PatsOf(rpc[c].machine) # {}))
  /\ UNCHANGED <<machines, owner, live, minted>>

(* Mutants: one attempt too many; attempts are not counted.                *)
TimeoutOnceMore(c) ==
  /\ rpc[c].pc \in Writing
  /\ \/ /\ rpc[c].try <= Retry + 1
        /\ ~ rpc[c].gone
        /\ Becomes(c, [rpc[c] EXCEPT !.try = @ + 1])
     \/ /\ rpc[c].try > Retry + 1 \/ rpc[c].gone
        /\ Becomes(c, Failed(c))
  /\ UNCHANGED <<machines, owner, live, minted>>

TimeoutUncounted(c) ==
  /\ rpc[c].pc \in Writing
  /\ \/ ~ rpc[c].gone /\ Becomes(c, rpc[c])
     \/ rpc[c].gone /\ Becomes(c, Failed(c))
  /\ UNCHANGED <<machines, owner, live, minted>>

(* The attempt under way fails for the client: a timeout, a connection     *)
(* that breaks, a context that is done.  It tries again Retry times.       *)
Timeout(c) ==
  /\ rpc[c].pc \in Writing
  /\ \/ /\ rpc[c].try <= Retry
        /\ ~ rpc[c].gone
        /\ Becomes(c, [rpc[c] EXCEPT !.try = @ + 1])
     \/ /\ rpc[c].try > Retry \/ rpc[c].gone
        /\ Becomes(c, Failed(c))
  /\ UNCHANGED <<machines, owner, live, minted>>

Step(c) ==
  GetMachineUser(c) \/ GetExistingUser(c) \/ ListTokens(c) \/ Timeout(c)

(* The context of the call ends: the caller goes away, or the read timeout *)
(* of the server passes.                                                   *)
Disconnect(c) ==
  /\ Active(c) /\ ~ rpc[c].gone
  /\ rpc' = [rpc EXCEPT ![c].gone = TRUE]
  /\ UNCHANGED <<flight, machines, owner, live, minted>>

(* The process dies, or its answer does not reach the caller.              *)
Crash(c) ==
  /\ Active(c)
  /\ rpc' = [rpc EXCEPT ![c].pc = "dead"]
  /\ UNCHANGED <<flight, machines, owner, live, minted>>

-----------------------------------------------------------------------------
(* What ZITADEL does with a message.                                       *)

(* The call still waits for the reply to this very attempt.                *)
Waiting(m) == rpc[m.call].pc = m.pc /\ rpc[m.call].try = m.try

(* The reply makes the waiting call move on to r; or it is lost, or nobody *)
(* waits for it; or an error takes its place on the way: a status of 400   *)
(* and up, or for a machine user that was created a body without its ID.   *)
(* A success is ZITADEL's own: it comes of a message that was executed.    *)
Reply(m, r) ==
  \/ /\ flight' = flight \ {m}
     /\ UNCHANGED rpc
  \/ /\ Waiting(m)
     /\ \E next \in {r, Failed(m.call)} :
          /\ rpc' = [rpc EXCEPT ![m.call] = next]
          /\ flight' = (flight \ {m}) \cup Sent(m.call, next)

(* Mutant: a conflict is an error, not a reason to look again.             *)
CreateUserOnce(m) ==
  /\ m.pc = "createUser"
  /\ LET u == rpc[m.call].user IN
       \/ /\ u \notin machines \cup Taken
          /\ machines' = machines \cup {u}
          /\ Reply(m, Writes(m.call, "addToken", u))
       \/ /\ u \in machines \cup Taken
          /\ UNCHANGED machines
          /\ Reply(m, Returned(m.call,
               "user already exists but could not be retrieved", {}))
  /\ UNCHANGED <<owner, live, minted>>

(* It creates the machine user, unless the username is in use: a conflict. *)
CreateUser(m) ==
  /\ m.pc = "createUser"
  /\ LET u == rpc[m.call].user IN
       \/ /\ u \notin machines \cup Taken
          /\ machines' = machines \cup {u}
          /\ Reply(m, Writes(m.call, "addToken", u))
       \/ /\ u \in machines \cup Taken
          /\ UNCHANGED machines
          /\ Reply(m, Reads(m.call, "research", NoHuman))
  /\ UNCHANGED <<owner, live, minted>>

(* It mints a PAT for the machine user.  A body without the ID and the     *)
(* token is passed on as it is: CreatePAT succeeds and hands over no PAT.  *)
AddToken(m) ==
  /\ m.pc = "addToken"
  /\ \E p \in Pats :
       /\ owner[p] = NoHuman
       /\ owner' = [owner EXCEPT ![p] = rpc[m.call].machine]
       /\ live' = live \cup {p}
       /\ minted' = [minted EXCEPT ![m.call] = @ \cup {p}]
       /\ \/ Reply(m, Returned(m.call, "ok", {p}))
          \/ Reply(m, Nothing(m.call, "ok", TRUE))
  /\ UNCHANGED machines

(* It removes a PAT of that machine user.                                  *)
RemoveToken(m) ==
  /\ m.pc = "removeToken"
  /\ rpc[m.call].pat \in PatsOf(rpc[m.call].machine)
  /\ live' = live \ {rpc[m.call].pat}
  /\ Reply(m, Returned(m.call, "ok", {}))
  /\ UNCHANGED <<machines, owner, minted>>

(* Mutant: the status of the reply is not looked at.                       *)
RefuseUnnoticed(m) ==
  /\ Reply(m, Returned(m.call, "ok", {}))
  /\ UNCHANGED <<machines, owner, live, minted>>

(* It refuses: always a PAT that is not one of the machine user's, or not  *)
(* any more; and anything while it is not itself.                          *)
Refuse(m) ==
  /\ Reply(m, Failed(m.call))
  /\ UNCHANGED <<machines, owner, live, minted>>

Execute(m) == CreateUser(m) \/ AddToken(m) \/ RemoveToken(m) \/ Refuse(m)

Next ==
  \/ \E c \in Calls :
        \/ \E op \in Ops, u \in Humans \cup {NoHuman}, p \in Pats \cup {NoPat} :
             Begin(c, op, u, p)
        \/ Step(c)
        \/ Disconnect(c)
        \/ Crash(c)
  \/ \E m \in flight : Execute(m)

Spec == Init /\ [][Next]_vars

(* Goroutines are scheduled and every attempt has a timeout.  ZITADEL owes *)
(* nothing.                                                                *)
FairSpec == Spec /\ \A c \in Calls : WF_vars(Step(c))

-----------------------------------------------------------------------------
(* Properties.                                                             *)

TypeOK ==
  /\ rpc \in [Calls -> Rpc]
  /\ flight \subseteq Message
  /\ machines \subseteq Humans
  /\ owner \in [Pats -> Humans \cup {NoHuman}]
  /\ live \subseteq Pats
  /\ minted \in [Calls -> SUBSET Pats]

(* When CreatePAT succeeds a PAT was minted for the very call, and all     *)
(* that were belong to the caller, whoever created the machine user and    *)
(* however attempts and conflicts crossed.  The answer is one of them, or  *)
(* none if ZITADEL's own answer held none (client.go 462-480).             *)
CreatedIsOwn ==
  \A c \in Calls : Succeeded(c, "create") =>
    /\ \E p \in minted[c] :
         rpc[c].answer = IF rpc[c].misled THEN {} ELSE {p}
    /\ \A p \in minted[c] : owner[p] = rpc[c].user

(* A call mints at most one PAT per attempt, even when attempts the client *)
(* gave up are executed later.                                             *)
MintBound == \A c \in Calls : Cardinality(minted[c]) <= Retry + 1

(* Two calls that create the machine user of one human at the same time,   *)
(* or one that meets its own earlier attempt, do not fail for it: the user *)
(* who is in the way is found, unless it is none of ours or this second    *)
(* search is answered 404.  A 404 of the first search does not matter.     *)
ConflictIsForeign ==
  \A c \in Calls :
    rpc[c].result = "user already exists but could not be retrieved" =>
      rpc[c].user \in Taken \/ rpc[c].misled

(* A PAT that DeletePAT reported as deleted is never accepted again.       *)
DeletedIsGone ==
  \A c \in Calls : Succeeded(c, "delete") => rpc[c].pat \notin live

(* A PAT is removed only on a DeletePAT call of the human it was minted    *)
(* for that names it, even when the call is over by then.                  *)
OnlyOwnDeleted ==
  [][\A p \in live \ live' :
       \E c \in Calls : /\ rpc[c].op = "delete"
                        /\ rpc[c].pat = p
                        /\ rpc[c].user = owner[p]]_vars

(* ListPATs shows nothing but live PATs of the caller, and each that was   *)
(* there when the call began and still is, as long as a page holds them.   *)
(* Only when ZITADEL's answer was a 404 for a machine user that is there,  *)
(* or held no list, it shows none at all, and calls that a success.        *)
ListIsFaithful ==
  [][\A c \in Calls :
       Active(c) /\ Succeeded(c, "list")' =>
         LET mine == PatsOf(rpc[c].user) IN
           /\ rpc'[c].answer \subseteq mine
           /\ rpc'[c].misled => rpc'[c].answer = {} /\ mine # {}
           /\ ~ rpc'[c].misled /\ Cardinality(mine) <= Limit =>
                (rpc[c].known \cap mine) \subseteq rpc'[c].answer]_vars

(* Every call ends: its caller is answered, unless the process dies.       *)
CallsEnd == \A c \in Calls : Active(c) ~> ~ Active(c)
=============================================================================

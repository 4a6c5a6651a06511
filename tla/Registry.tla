------------------------------ MODULE Registry ------------------------------
(***************************************************************************)
(* What PAT management promises, without machine users, messages, attempts *)
(* or replies.  A call that succeeds takes effect at one instant between   *)
(* its beginning and its answer.  Unless it was refused a call may also    *)
(* take effect without a word, even when it is long over: a creation as    *)
(* often as it was attempted, a deletion once.  Nobody's PATs are touched  *)
(* but the caller's.                                                       *)
(*                                                                         *)
(* A caller may be misled: told of nothing, though there is something.  A  *)
(* list then looks like that of a caller without PATs, a creation like one *)
(* that succeeded without a PAT (it did mint one), a deletion like one for *)
(* a caller who never had any.                                             *)
(*                                                                         *)
(* PatService implements this: see PatRegistry.                            *)
(***************************************************************************)
EXTENDS Naturals, FiniteSets

CONSTANTS Calls, Humans, Pats, NoHuman, NoPat, Limit,
          Attempts    \* how often a call is attempted

VARIABLES
  calls,   \* calls[c]: what call c was called with, and what it was told
  owner,   \* whose PAT it is
  live,    \* the PATs that are accepted
  minted   \* minted[c]: the PATs that call c created

vars == <<calls, owner, live, minted>>

(* A call is made once; its caller is told of success or of a failure, is  *)
(* misled, or is never told of anything.                                   *)
Call(state, op, user, pat, answer) ==
  [state |-> state, op |-> op, user |-> user, pat |-> pat, answer |-> answer]

NotMade == Call("new", "list", NoHuman, NoPat, {})

PatsOf(u) == {p \in live : owner[p] = u}

Init ==
  /\ calls = [c \in Calls |-> NotMade]
  /\ owner \in [Pats -> Humans \cup {NoHuman}]
  /\ live = {p \in Pats : owner[p] # NoHuman}
  /\ minted = [c \in Calls |-> {}]

Told(c, state, answer) ==
  calls' = [calls EXCEPT ![c] =
              Call(state, calls[c].op, calls[c].user, calls[c].pat, answer)]

(* A call that has begun, was not refused and may have been attempted.     *)
Attempted(c) ==
  calls[c].state \in {"open", "ok", "failed", "misled", "lost"}

(* A call begins, or is refused at once.                                   *)
Begin(c, state, op, u, p) ==
  /\ calls[c].state = "new"
  /\ calls' = [calls EXCEPT ![c] = Call(state, op, u, p, {})]
  /\ state = "open" => u \in Humans
  /\ UNCHANGED <<owner, live, minted>>

(* It fails, or its caller never hears of it: that is always possible.     *)
Fail(c, state) ==
  /\ calls[c].state = "open"
  /\ Told(c, state, {})
  /\ UNCHANGED <<owner, live, minted>>

(* A list says that the caller has no PAT, or a deletion that there was    *)
(* none to look for, and it is not so.                                     *)
Mislead(c) ==
  /\ calls[c].state = "open"
  /\ \/ calls[c].op = "list" /\ PatsOf(calls[c].user) # {}
     \/ calls[c].op = "delete"
  /\ Told(c, "misled", {})
  /\ UNCHANGED <<owner, live, minted>>

(* A deletion says so when its caller never had a PAT.                     *)
NotFound(c) ==
  /\ calls[c].state = "open" /\ calls[c].op = "delete"
  /\ \A p \in Pats : owner[p] # calls[c].user
  /\ Told(c, "not found", {})
  /\ UNCHANGED <<owner, live, minted>>

List(c) ==
  /\ calls[c].state = "open" /\ calls[c].op = "list"
  /\ \E page \in SUBSET PatsOf(calls[c].user) :
       /\ Cardinality(page) <= Limit
       /\ page = PatsOf(calls[c].user) \/ Cardinality(page) = Limit
       /\ Told(c, "ok", page)
  /\ UNCHANGED <<owner, live, minted>>

(* A PAT is created for the caller, who is told of it or not.              *)
Create(c, p) ==
  /\ calls[c].op = "create" /\ Attempted(c)
  /\ Cardinality(minted[c]) < Attempts
  /\ owner[p] = NoHuman
  /\ owner' = [owner EXCEPT ![p] = calls[c].user]
  /\ live' = live \cup {p}
  /\ minted' = [minted EXCEPT ![c] = @ \cup {p}]
  /\ \/ calls[c].state = "open" /\ Told(c, "ok", {p})
     \/ calls[c].state = "open" /\ Told(c, "failed", {})
     \/ calls[c].state = "open" /\ Told(c, "misled", {})
     \/ UNCHANGED calls

(* A PAT of the caller is deleted, who is told of it or not.               *)
Delete(c) ==
  /\ calls[c].op = "delete" /\ Attempted(c)
  /\ calls[c].pat \in PatsOf(calls[c].user)
  /\ live' = live \ {calls[c].pat}
  /\ \/ calls[c].state = "open" /\ Told(c, "ok", {})
     \/ calls[c].state = "open" /\ Told(c, "failed", {})
     \/ UNCHANGED calls
  /\ UNCHANGED <<owner, minted>>

Next ==
  \E c \in Calls :
    \/ \E state \in {"open", "refused"}, op \in {"create", "list", "delete"},
          u \in Humans \cup {NoHuman}, p \in Pats \cup {NoPat} :
            Begin(c, state, op, u, p)
    \/ \E state \in {"failed", "lost"} : Fail(c, state)
    \/ Mislead(c)
    \/ NotFound(c)
    \/ List(c)
    \/ \E p \in Pats : Create(c, p)
    \/ Delete(c)

Spec == Init /\ [][Next]_vars
=============================================================================

---------------------------- MODULE PatRegistry -----------------------------
(***************************************************************************)
(* PatService implements Registry.  Phases, messages and machine users are *)
(* hidden; what is left of a call is whether it has been answered.         *)
(***************************************************************************)
EXTENDS PatService

(* What the caller of a call has been told.                                *)
Refusals == {"missing X-Auth-Request-User header", "invalid expiration date"}

(* Told as a success, or as a failure to find anything, what is not so.    *)
FoundNothing(r) == r.misled /\ r.result \in {"ok", "machine user not found"}

State(r) ==
  CASE r.pc = "new" -> "new"
    [] r.pc \in Reading \cup Writing -> "open"
    [] r.pc = "dead" -> "lost"
    [] r.pc = "done" /\ FoundNothing(r) -> "misled"
    [] r.pc = "done" /\ ~ FoundNothing(r) ->
         CASE r.result = "ok" -> "ok"
           [] r.result = "machine user not found" -> "not found"
           [] r.result \in Refusals -> "refused"
           [] OTHER -> "failed"

Seen(r) ==
  [state |-> State(r), op |-> r.op, user |-> r.user, pat |-> r.pat,
   answer |-> r.answer]

Ledger ==
  INSTANCE Registry WITH
    calls <- [c \in Calls |-> Seen(rpc[c])],
    Attempts <- Retry + 1

(* Every behaviour of PAT management, with its conflicts, retries, lost    *)
(* replies and late messages, is one of atomic calls, of which those that  *)
(* failed or misled may have taken effect (service_impl.go, client.go      *)
(* 421-600); one is misled only by an answer that held nothing though      *)
(* there was something (client.go 259-266, 462-480, 538-561).              *)
ImplementsRegistry == Ledger!Spec
=============================================================================

------------------------------- MODULE Requests -------------------------------
(***************************************************************************)
(* What a `req' channel promises its user, with no queues, acks, bytes or  *)
(* callbacks: a request waits until it is given to one endpoint, comes     *)
(* back to wait when the endpoint refuses it or goes away, and is settled  *)
(* once, by the endpoint that has it.                                      *)
(***************************************************************************)
EXTENDS Naturals, FiniteSets

CONSTANTS Req, Sock, Nil, MaxOut, MaxRejects

VARIABLES
  state,     \* of each request
  holder,    \* the endpoint that has it, Nil if none
  refusals   \* how often it was refused

vars == <<state, holder, refusals>>

TypeOK ==
  /\ state \in [Req -> {"unsent", "waiting", "out", "settled"}]
  /\ holder \in [Req -> Sock \cup {Nil}]
  /\ refusals \in [Req -> 0 .. MaxRejects]

Init ==
  /\ state = [r \in Req |-> "unsent"]
  /\ holder = [r \in Req |-> Nil]
  /\ refusals = [r \in Req |-> 0]

Held(s) == {r \in Req : holder[r] = s}

Issue(r) ==
  /\ state[r] = "unsent"
  /\ state' = [state EXCEPT ![r] = "waiting"]
  /\ UNCHANGED <<holder, refusals>>

\* An endpoint has at most MaxOut requests at a time.
Give(r, s) ==
  /\ state[r] = "waiting" /\ Cardinality(Held(s)) < MaxOut
  /\ state' = [state EXCEPT ![r] = "out"]
  /\ holder' = [holder EXCEPT ![r] = s]
  /\ UNCHANGED refusals

Answer(r) ==
  /\ state[r] = "out"
  /\ state' = [state EXCEPT ![r] = "settled"]
  /\ holder' = [holder EXCEPT ![r] = Nil]
  /\ UNCHANGED refusals

\* The sender is told of the last refusal, and of no other.
Refuse(r) ==
  /\ state[r] = "out"
  /\ refusals' = [refusals EXCEPT ![r] = @ + 1]
  /\ state' = [state EXCEPT ![r] = IF refusals'[r] = MaxRejects THEN "settled"
                                   ELSE "waiting"]
  /\ holder' = [holder EXCEPT ![r] = Nil]

\* The endpoint goes away: what it had waits again.
Leave(s) ==
  /\ state' = [r \in Req |-> IF holder[r] = s THEN "waiting" ELSE state[r]]
  /\ holder' = [r \in Req |-> IF holder[r] = s THEN Nil ELSE holder[r]]
  /\ UNCHANGED refusals

Next ==
  \/ \E r \in Req : Issue(r) \/ Answer(r) \/ Refuse(r) \/ \E s \in Sock : Give(r, s)
  \/ \E s \in Sock : Leave(s)

Spec == Init /\ [][Next]_vars
=============================================================================

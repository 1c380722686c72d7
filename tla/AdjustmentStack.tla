--------------------------- MODULE AdjustmentStack ---------------------------
(***************************************************************************)
(* What adjusting a submitted order promises, whatever the pages show and  *)
(* whatever else happens to the order: one request at a time waits for a   *)
(* decision, nobody carries out what its author alone agreed to, and what  *)
(* is carried out is undone last in, first out, so that the ordered        *)
(* quantity is always the original one and the changes on the stack.       *)
(***************************************************************************)
EXTENDS Integers, Sequences

CONSTANTS Original, Changes, Staff, Exempt

VARIABLES requests, stack, quantity

Nobody == "nobody"

MayCheck(u, author) == u # author \/ u \in Exempt

Init == requests = <<>> /\ stack = <<>> /\ quantity = Original

Waiting(n) == requests[n].stage = "waiting"

Ask ==
  /\ \A n \in DOMAIN requests : ~Waiting(n)
  /\ \E u \in Staff, c \in Changes :
       requests' = Append(requests, [by |-> u, change |-> c, stage |-> "waiting", agreedBy |-> Nobody])
  /\ UNCHANGED <<stack, quantity>>

Drop(n) ==
  /\ Waiting(n)
  /\ requests' = [requests EXCEPT ![n].stage = "dropped"]
  /\ UNCHANGED <<stack, quantity>>

Agree(n) ==
  /\ Waiting(n)
  /\ \E u \in Staff :
       /\ MayCheck(u, requests[n].by)
       /\ requests' = [requests EXCEPT ![n].stage = "agreed", ![n].agreedBy = u]
  /\ UNCHANGED <<stack, quantity>>

CarryOut(n) ==
  /\ requests[n].stage = "agreed"
  /\ quantity + requests[n].change >= 0
  /\ requests' = [requests EXCEPT ![n].stage = "done"]
  /\ stack' = Append(stack, n)
  /\ quantity' = quantity + requests[n].change

Undo ==
  /\ stack # <<>>
  /\ LET n == stack[Len(stack)] IN
     /\ \E u \in Staff : MayCheck(u, requests[n].by)
     /\ requests' = [requests EXCEPT ![n].stage = "undone"]
     /\ quantity' = quantity - requests[n].change
  /\ stack' = SubSeq(stack, 1, Len(stack) - 1)

Next ==
  \/ Ask
  \/ \E n \in DOMAIN requests : Drop(n) \/ Agree(n) \/ CarryOut(n)
  \/ Undo

Spec == Init /\ [][Next]_<<requests, stack, quantity>>
=============================================================================

-------------------------- MODULE DeliveryAuthority --------------------------
(***************************************************************************)
(* What approved delivery promises about one approval, whatever crashes,   *)
(* late answers and resumptions come between: a send uses up a permit, a   *)
(* permit is an attempt counted against the approval before it, no attempt *)
(* is sent twice, and a revoked approval gives no more permits.  The one   *)
(* that is out when the approval is revoked may still be used.             *)
(***************************************************************************)
EXTENDS Integers

CONSTANT MaxAttempts    \* the mutation attempts the approval allows

VARIABLES
  counted,    \* attempts counted against the approval, numbered from 1
  permit,     \* the attempt that may be sent now; 0 for none
  spent,      \* the attempts that have been sent
  revoked

Init == counted = 0 /\ permit = 0 /\ spent = {} /\ revoked = FALSE

Count == counted < MaxAttempts /\ counted' = counted + 1

Grant ==
  /\ ~revoked /\ permit = 0
  /\ Count
  /\ permit' = counted'
  /\ UNCHANGED <<spent, revoked>>

\* An attempt may be counted and never be sent.
Forfeit ==
  /\ permit = 0
  /\ Count
  /\ UNCHANGED <<permit, spent, revoked>>

Spend ==
  /\ permit # 0 /\ permit \notin spent
  /\ spent' = spent \cup {permit}
  /\ permit' = 0
  /\ UNCHANGED <<counted, revoked>>

Abandon ==
  /\ permit' = 0
  /\ UNCHANGED <<counted, spent, revoked>>

Revoke ==
  /\ revoked' = TRUE
  /\ UNCHANGED <<counted, permit, spent>>

Next == Grant \/ Forfeit \/ Spend \/ Abandon \/ Revoke

Spec == Init /\ [][Next]_<<counted, permit, spent, revoked>>

=============================================================================

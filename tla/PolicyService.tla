-------------------------- MODULE PolicyService ---------------------------
(***************************************************************************)
(* What live reloading promises the operator: a policy that is published   *)
(* may come into service at any time, and the one in service only gives    *)
(* way to one at least as new.                                             *)
(***************************************************************************)
EXTENDS Naturals

VARIABLES published,  \* the version of the policy file
          served      \* the version requests meet, 0 before the first

Init == published = 1 /\ served = 0

Publish == published' = published + 1 /\ served' = served

Serve == served' \in served .. published /\ published' = published

Next == Publish \/ Serve

Spec == Init /\ [][Next]_<<published, served>>
===========================================================================

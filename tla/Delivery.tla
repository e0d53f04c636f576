------------------------------ MODULE Delivery ------------------------------
(***************************************************************************)
(* What a client may rely on, whatever the proxy does with its accounts:   *)
(* its request is asked of accounts until one that was asked begins to     *)
(* answer; from then on no account is asked again, and every byte the      *)
(* client reads comes from the one that began.  The client ends with a     *)
(* whole answer, a broken one, or an error and no answer, and nothing      *)
(* follows the end.  Only the account that gave a whole answer may be      *)
(* remembered as the one to continue the conversation with.                *)
(***************************************************************************)
EXTENDS Naturals

CONSTANTS
  Servers,           \* accounts
  Nobody             \* no account

VARIABLES
  client,            \* "waiting", "reading", "served", "broken", "failed"
  from,              \* the account the client reads from, or Nobody
  asked,             \* how often the request was sent to each account
  keeper             \* the account the conversation continues with, or Nobody

deliveryVars == <<client, from, asked, keeper>>

Init ==
  /\ client = "waiting"
  /\ from = Nobody
  /\ asked = [server \in Servers |-> 0]
  /\ keeper = Nobody

Ask(server) ==
  /\ client = "waiting"
  /\ asked' = [asked EXCEPT ![server] = @ + 1]
  /\ UNCHANGED <<client, from, keeper>>

Begin(server) ==
  /\ client = "waiting" /\ asked[server] > 0
  /\ client' = "reading"
  /\ from' = server
  /\ UNCHANGED <<asked, keeper>>

End ==
  /\ \/ client = "reading" /\ client' = "served" /\ keeper' \in {from, Nobody}
     \/ client = "reading" /\ client' = "broken" /\ UNCHANGED keeper
     \/ client = "waiting" /\ client' = "failed" /\ UNCHANGED keeper
  /\ UNCHANGED <<from, asked>>

Next == (\E server \in Servers : Ask(server) \/ Begin(server)) \/ End

Spec == Init /\ [][Next]_deliveryVars

=============================================================================

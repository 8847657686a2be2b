-------------------------------- MODULE Ledger --------------------------------
(***************************************************************************)
(* What an account that is paid from outside promises, with no messages,   *)
(* rows or requests: nobody does anything for money that has not come, an  *)
(* agent does each thing once and only what he has claimed, a claim leaves *)
(* nothing of its list behind but what is settled, and what is settled has *)
(* been done.  Several agents may have claimed the same: "at least once".  *)
(***************************************************************************)
CONSTANTS
  Account, Item, Agent,
  Lists        \* sets of items that are claimed together

VARIABLES
  asked,       \* the items each account is to pay for
  money,       \* "none", "open" or "paid"
  claims,      \* what each agent is still going to do
  doers,       \* who has done each item
  settled      \* items that nobody claims any more

ledger == <<asked, money, claims, doers, settled>>

Init ==
  /\ asked = [a \in Account |-> {}]
  /\ money = [a \in Account |-> "none"]
  /\ claims = [w \in Agent |-> {}]
  /\ doers = [a \in Account |-> [x \in Item |-> {}]]
  /\ settled = [a \in Account |-> {}]

\* Only before there is anything to pay.
Ask(a) ==
  /\ money[a] = "none" /\ asked[a] = {}
  /\ \E items \in SUBSET Item : asked' = [asked EXCEPT ![a] = items]
  /\ UNCHANGED <<money, claims, doers, settled>>

Bill(a) ==
  /\ money[a] = "none" /\ money' = [money EXCEPT ![a] = "open"]
  /\ UNCHANGED <<asked, claims, doers, settled>>

Pay(a) ==
  /\ money[a] = "open" /\ money' = [money EXCEPT ![a] = "paid"]
  /\ UNCHANGED <<asked, claims, doers, settled>>

\* An agent with nothing to do takes what is open of one list.
Claim(w, a, list) ==
  LET open == (list \cap asked[a]) \ settled[a]
  IN /\ money[a] = "paid" /\ UNCHANGED <<asked, money, doers>>
     /\ claims[w] = {} /\ \A x \in open : w \notin doers[a][x]
     /\ claims' = [claims EXCEPT ![w] = {a} \X open]
     /\ UNCHANGED settled

Do(w, a, x) ==
  /\ w \notin doers[a][x] /\ doers' = [doers EXCEPT ![a][x] = @ \cup {w}]
  /\ <<a, x>> \in claims[w]
  /\ claims' = [claims EXCEPT ![w] = @ \ {<<a, x>>}]
  /\ UNCHANGED <<asked, money, settled>>

\* He fails, or gives up.
Forgo(w) ==
  /\ UNCHANGED <<asked, money, doers>>
  /\ claims[w] # {} /\ \E left \in SUBSET claims[w] : claims' = [claims EXCEPT ![w] = left]
  /\ UNCHANGED settled

Settle(a, x) ==
  /\ doers[a][x] # {} /\ UNCHANGED <<asked, money, doers>>
  /\ settled' = [settled EXCEPT ![a] = @ \cup {x}]
  /\ UNCHANGED claims

Next ==
  \/ \E a \in Account : Ask(a) \/ Bill(a) \/ Pay(a) \/ \E x \in Item : Settle(a, x)
  \/ \E w \in Agent : Forgo(w) \/ \E a \in Account :
       (\E list \in Lists : Claim(w, a, list)) \/ (\E x \in Item : Do(w, a, x))

Spec == Init /\ [][Next]_ledger
=============================================================================

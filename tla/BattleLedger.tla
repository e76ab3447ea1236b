---------------------------- MODULE BattleLedger ----------------------------
(***************************************************************************)
(* What the dps parser promises about a battle, without ids, arrays, verbs *)
(* or classes of hits: a hit or a swing is entered once in an account of   *)
(* the names that fought, a silence longer than KeepAlive closes the       *)
(* account, and the account of a battle that lasted at least Least is      *)
(* published as it stands.  Lines come in the order of their dates.        *)
(***************************************************************************)
EXTENDS Integers, Sequences

CONSTANTS
  Who,          \* the names that fight
  KeepAlive,    \* the silence that closes an account
  Least         \* the least length of a battle that is published

VARIABLES
  now,        \* date of the last line, -1 before the first
  account,    \* function from some pairs <<source, target>> to their totals
  first,      \* date the battle began at, -1 when there is none
  last,       \* date of the last line that prolonged it, -1 when there is none
  published   \* the accounts published so far

ledgerVars == <<now, account, first, last, published>>

Empty  == [p \in {} |-> 0]
Totals == [hits |-> 0, damage |-> 0, swings |-> 0]
Public(acc) == [p \in DOMAIN acc |->
                  [hits |-> acc[p].hits, damage |-> acc[p].damage]]

Opened  == first # -1
Stale   == Opened /\ now' > last + KeepAlive
Publish == IF last - first >= Least THEN Append(published, Public(account))
           ELSE published

Init == /\ now = -1
        /\ account = Empty
        /\ first = -1
        /\ last = -1
        /\ published = << >>

(* Time passes, and settles a battle that has been silent for too long. *)
Settle  == /\ now' >= now
           /\ published' = IF Stale THEN Publish ELSE published
Carried == IF Stale THEN Empty ELSE account
Joins   == first' = IF Stale \/ ~Opened THEN now' ELSE first
Prolongs == Joins /\ last' = now'

(* An entry of one swing for the pair p: a hit of some damage, or a miss. *)
Enter(p) ==
  LET acc == Carried
      new == account'
      old == IF p \in DOMAIN acc THEN acc[p] ELSE Totals
  IN  /\ DOMAIN new = DOMAIN acc \union {p}
      /\ \A q \in DOMAIN acc \ {p} : new[q] = acc[q]
      /\ new[p].swings = old.swings + 1
      /\ \/ new[p].hits = old.hits + 1 /\ new[p].damage >= old.damage
         \/ new[p].hits = old.hits     /\ new[p].damage = old.damage

Swing   == Settle /\ Prolongs /\ \E p \in Who \X Who \cap DOMAIN account' : Enter(p)
(* A heal or a death prolongs the battle. *)
Prolong == Settle /\ Prolongs /\ account' = Carried
(* A finishing blow opens a battle, and does not prolong the open one. *)
Blow    == /\ Settle
           /\ Joins
           /\ last' = IF Stale \/ ~Opened THEN now' ELSE last
           /\ account' = Carried
(* Any other line: it only shows that time has passed. *)
Tick    == /\ Settle
           /\ account' = Carried
           /\ IF Stale THEN first' = -1 /\ last' = -1 ELSE UNCHANGED <<first, last>>
(* A line outside the window of dates asked for. *)
Ignore  == /\ now' >= now
           /\ UNCHANGED <<account, first, last, published>>
(* The log ends. *)
Close   == /\ published' = IF Opened THEN Publish ELSE published
           /\ account' = Empty
           /\ UNCHANGED <<now, first, last>>

Next == Swing \/ Prolong \/ Blow \/ Tick \/ Ignore \/ Close

Spec == Init /\ [][Next]_ledgerVars
=============================================================================
